---------------------------- MODULE AdderProofs ----------------------------
(***************************************************************************)
(* Proofs about the floating-point adders, for every format.  Both align   *)
(* the smaller significand and keep a sticky bit of what is shifted out;   *)
(* the sum, in units of its own last place, tells where its leading bit is *)
(* and how to round; what is packed is the exact sum rounded.              *)
(***************************************************************************)
EXTENDS DatapathProofs

-----------------------------------------------------------------------------
(***************************************************************************)
(* Numbers in units of a power of two, and what rounding makes of them.    *)
(***************************************************************************)
\* A natural number n in units of 2^E: q of them and a rest r, which decides the rounding u.
InUnits(n, E, q, r, u) ==
  \/ E \in Nat /\ n = Pow2[E] * q + r /\ r \in 0..(Pow2[E] - 1) /\ NearestUp(q, r, Pow2[E], u)
  \/ -E \in Nat /\ n * Pow2[-E] = q /\ u = 0

\* The number of bits of such a number.
UnitsMagnitude(n, w, k) == k \in Nat /\ Magnitude(n, 1) = k

\* The unit and the significand give it.
LEMMA UnitsMagnitudeIs ==
  ASSUME NEW F \in Nat, NEW w, w = Pow2[F], NEW q \in w..(2 * w - 1), NEW r \in Int, NEW u, NEW n \in Nat,
         NEW E \in Int, InUnits(n, E, q, r, u)
  PROVE  UnitsMagnitude(n, w, F + E)
<1>1. w \in Nat \ {0} /\ Pow2[F + 1] = 2 * w /\ q \in Nat
  <2>1. Pow2[F] \in Nat \ {0} /\ Pow2[F + 1] = 2 * Pow2[F]
    BY Pow2Def
  <2>2. w \in Nat \ {0} /\ Pow2[F + 1] = 2 * w
    BY Zenon, <2>1
  <2> QED BY <2>2
<1>2. F + E \in Nat /\ Pow2[F + E] <= n /\ n < Pow2[(F + E) + 1]
  <2>1. CASE E \in Nat /\ n = Pow2[E] * q + r /\ r \in 0..(Pow2[E] - 1)
    <3>1. PICK p \in Nat \ {0} : p = Pow2[E]
      BY <2>1, Pow2Def
    <3>2. Pow2[F + E] = w * p
      BY Zenon, <2>1, <3>1, Pow2Sum
    <3>3. Pow2[(F + E) + 1] = 2 * (w * p)
      <4>1. F + E \in Nat
        BY <2>1
      <4> QED BY Zenon, <3>2, <4>1, Pow2Def
    <3>4. w * p <= p * q /\ p * q <= p * (2 * w - 1) /\ p * (2 * w - 1) = 2 * (w * p) - p
      <4>1. q - w \in Nat /\ (2 * w - 1) - q \in Nat
        BY <1>1
      <4>2. p * q - w * p = p * (q - w) /\ p * (2 * w - 1) - p * q = p * ((2 * w - 1) - q)
        BY <1>1
      <4>3. p * (q - w) >= 0 /\ p * ((2 * w - 1) - q) >= 0
        BY <4>1
      <4>4. p * (2 * w - 1) = 2 * (w * p) - p
        BY <1>1
      <4>5. w * p \in Int /\ p * q \in Int /\ p * (2 * w - 1) \in Int
        BY <1>1
      <4>6. w * p <= p * q
        BY <4>2, <4>3, <4>5
      <4>7. p * q <= p * (2 * w - 1)
        BY <4>2, <4>3, <4>5
      <4> QED BY <4>4, <4>6, <4>7
    <3>5. PICK a \in Int, b \in Int, c \in Int : a = w * p /\ b = p * q /\ c = p * (2 * w - 1)
      BY <1>1
    <3>6. n = b + r /\ r \in 0..(p - 1)
      BY Zenon, <2>1, <3>1, <3>5
    <3>7. a <= b /\ b <= c /\ c = 2 * a - p
      BY Zenon, <3>4, <3>5
    <3>8. a <= n /\ n < 2 * a
      BY <3>6, <3>7
    <3>9. F + E \in Nat
      BY <2>1
    <3> QED BY Zenon, <3>2, <3>3, <3>5, <3>8, <3>9
  <2>2. CASE -E \in Nat /\ n * Pow2[-E] = q
    <3>1. PICK k \in Nat, p \in Nat \ {0} : k = -E /\ p = Pow2[k] /\ n * p = q
      <4>1. Pow2[-E] \in Nat \ {0}
        BY <2>2, Pow2Def
      <4> QED BY <2>2, <4>1
    <3>2. k <= F
      <4>1. SUFFICES ASSUME k > F PROVE FALSE
        BY <1>1
      <4>2. Pow2[F + 1] <= Pow2[k]
        <5>1. F + 1 \in Nat /\ F + 1 <= k
          BY <4>1
        <5> QED BY ZenonT(40), <5>1, Pow2Monotone
      <4>3. 2 * w <= p
        BY Zenon, <1>1, <3>1, <4>2
      <4>4. n # 0
        BY <1>1, <3>1
      <4>5. p <= n * p
        <5>1. n * p = p + (n - 1) * p /\ (n - 1) * p >= 0
          BY <4>4
        <5>2. (n - 1) * p \in Int /\ n * p \in Int
          OBVIOUS
        <5> QED BY <5>1, <5>2
      <4> QED BY <1>1, <3>1, <4>3, <4>5
    <3>3. PICK m \in Nat, g \in Nat \ {0} : m = F - k /\ F + E = m /\ g = Pow2[m]
      <4>1. F - k \in Nat /\ F + E = F - k
        BY <3>1, <3>2
      <4> QED BY <4>1, Pow2Def
    <3>4. w = g * p
      <4>1. F = m + k
        BY <3>3
      <4>2. Pow2[m + k] = Pow2[m] * Pow2[k]
        BY ZenonT(40), Pow2Sum
      <4> QED BY Zenon, <3>1, <3>3, <4>1, <4>2
    <3>5. Pow2[m + 1] = 2 * g
      BY Zenon, <3>3, Pow2Def
    <3>6. g * p <= n * p /\ n * p < (2 * g) * p
      <4>1. (2 * g) * p = 2 * (g * p)
        OBVIOUS
      <4>2. n * p \in Int /\ g * p \in Int
        OBVIOUS
      <4>3. q >= w /\ q < 2 * w
        BY <1>1
      <4> QED BY <3>1, <3>4, <4>1, <4>2, <4>3
    <3>7. g <= n /\ n < 2 * g
      <4>1. SUFFICES ASSUME n < g \/ 2 * g <= n PROVE FALSE
        OBVIOUS
      <4>2. CASE n < g
        <5>1. g * p - n * p = (g - n) * p /\ (g - n) * p > 0
          BY <4>2
        <5>2. g * p \in Int /\ n * p \in Int
          OBVIOUS
        <5> QED BY <3>6, <5>1, <5>2
      <4>3. CASE 2 * g <= n
        <5>1. n * p - (2 * g) * p = (n - 2 * g) * p /\ (n - 2 * g) * p >= 0
          BY <4>3
        <5>2. (2 * g) * p \in Int /\ n * p \in Int
          OBVIOUS
        <5> QED BY <3>6, <5>1, <5>2
      <4> QED BY <4>1, <4>2, <4>3
    <3> QED BY Zenon, <3>3, <3>5, <3>7
  <2> QED BY Zenon, <2>1, <2>2 DEF InUnits
<1>3. MagnitudeFrom(n, 1, F + E)
  <2>1. Pow2[0] = 1 /\ Pow2[0 + 1] = 2 /\ 0 \in Nat /\ 1 \in Nat /\ 1 <= 1 /\ 1 < 2
    <3>1. Pow2[0] = 1 /\ Pow2[0 + 1] = 2 * Pow2[0]
      BY Pow2Def
    <3> QED BY <3>1
  <2>2. 0 + (F + E) = F + E
    BY <1>2
  <2>3. Pow2[0] <= 1 /\ 1 < Pow2[0 + 1] /\ Pow2[0 + (F + E)] <= n /\ n < Pow2[(0 + (F + E)) + 1]
    BY Zenon, <1>2, <2>1, <2>2
  <2> QED BY ZenonT(40), <1>2, <2>1, <2>3, MagnitudeIs
<1>4. Magnitude(n, 1) = F + E
  <2>1. PICK p \in Nat \ {0} : p = Pow2[F + E]
    BY <1>2, Pow2Def
  <2>2. ~(n < 1 * p)
    BY <1>2, <2>1
  <2> QED BY Zenon, <1>3, <2>1, <2>2 DEF MagnitudeFrom
<1> QED BY Zenon, <1>2, <1>4 DEF UnitsMagnitude

\* Rounding a natural number in units of 2^E.
WholeRounds(f, sign, n, e, E, q, u) ==
  Rounded(f, sign, n, 1, e)
    = IF q + u = 2 * Pow2[f.wF] THEN Packed(f, sign, ((e + f.wF) + E) + 1, 0)
      ELSE Packed(f, sign, (e + f.wF) + E, (q + u) - Pow2[f.wF])

\* The definition of the rounding, for such a number.
LEMMA WholeRoundsIs ==
  ASSUME NEW f, NumberFormat(f), NEW sign, NEW e \in Int, NEW w, w = Pow2[f.wF],
         NEW q \in w..(2 * w - 1), NEW r \in Int, NEW u \in 0..1, NEW n \in Nat, NEW E \in Int,
         InUnits(n, E, q, r, u)
  PROVE  WholeRounds(f, sign, n, e, E, q, u)
<1>1. PICK F \in Nat \ {0} : F = f.wF
  BY DEF NumberFormat
<1>2. w \in Nat \ {0} /\ w = Pow2[F] /\ Pow2[F + 1] = 2 * w /\ q \in Nat /\ F \in Nat
  <2>1. Pow2[F] \in Nat \ {0} /\ Pow2[F + 1] = 2 * Pow2[F]
    BY Pow2Def
  <2>2. w \in Nat \ {0} /\ w = Pow2[F] /\ Pow2[F + 1] = 2 * w
    BY Zenon, <1>1, <2>1
  <2> QED BY <2>2
<1>3. F + E \in Nat /\ Magnitude(n, 1) = F + E
  <2>1. UnitsMagnitude(n, w, F + E)
    BY ZenonT(60), <1>2, UnitsMagnitudeIs
  <2> QED BY Zenon, <2>1 DEF UnitsMagnitude
<1>4. PICK m \in Nat : m = F + E /\ Magnitude(n, 1) = m
  BY Zenon, <1>3
<1>5. e + m = (e + F) + E /\ (e + m) + 1 = ((e + F) + E) + 1
  BY <1>4
<1>6. CASE E <= 0
  <2>1. PICK k \in Nat, p \in Nat \ {0} : k = -E /\ f.wF - m = k /\ p = Pow2[k]
    <3>1. -E \in Nat /\ F - m = -E
      BY <1>4, <1>6
    <3> QED BY <1>1, <3>1, Pow2Def
  <2>2. n * p = q /\ u = 0
    <3>1. CASE -E \in Nat /\ n * Pow2[-E] = q /\ u = 0
      BY Zenon, <2>1, <3>1
    <3>2. CASE E \in Nat /\ n = Pow2[E] * q + r /\ r \in 0..(Pow2[E] - 1) /\ NearestUp(q, r, Pow2[E], u)
      <4>1. E = 0 /\ k = 0
        BY <1>6, <2>1, <3>2
      <4>2. Pow2[E] = 1 /\ p = 1
        BY Zenon, <2>1, <4>1, Pow2Def
      <4>3. r \in 0..0 /\ n = 1 * q + r /\ NearestUp(q, r, 1, u)
        <5>1. r \in 0..(1 - 1) /\ n = 1 * q + r /\ NearestUp(q, r, 1, u)
          BY Zenon, <3>2, <4>2
        <5> QED BY <5>1
      <4>4. r = 0 /\ n = q
        BY <1>2, <4>3
      <4>5. ~(2 * r > 1) /\ 2 * r # 1
        BY <4>4
      <4>6. u # 1
        BY Zenon, <4>3, <4>5 DEF NearestUp
      <4> QED BY <4>2, <4>4, <4>6
    <3> QED BY Zenon, <3>1, <3>2 DEF InUnits
  <2>3. RoundsTo(f, sign, n, 1, e, m, q, u)
    <3>1. 1 \in Nat \ {0} /\ 0 \in 0..(1 - 1) /\ q = 1 * q + 0 /\ m \in Int
      BY <1>2
    <3>2. n * Pow2[k] = 1 * q + 0
      BY Zenon, <2>1, <2>2, <3>1
    <3>3. NearestUp(q, 0, 1, u)
      <4>1. ~(2 * 0 > 1) /\ 2 * 0 # 1 /\ 0 # 1
        OBVIOUS
      <4> QED BY Zenon, <2>2, <4>1 DEF NearestUp
    <3> QED BY ZenonT(90), <1>2, <1>4, <2>1, <3>1, <3>2, <3>3, RoundedIs
  <2> QED BY Zenon, <1>1, <1>2, <1>5, <2>3 DEF RoundsTo, WholeRounds
<1>7. CASE E > 0
  <2>1. E \in Nat /\ ~(-E \in Nat)
    BY <1>7
  <2>2. n = Pow2[E] * q + r /\ r \in 0..(Pow2[E] - 1) /\ NearestUp(q, r, Pow2[E], u)
    BY Zenon, <2>1 DEF InUnits
  <2>3. PICK p \in Nat \ {0} : p = Pow2[E] /\ 1 * p = p
    <3>1. Pow2[E] \in Nat \ {0}
      BY <2>1, Pow2Def
    <3> QED BY <3>1
  <2>4. n \div p = q /\ n % p = r
    <3>1. q \in Int /\ r \in 0..(p - 1)
      <4>1. q \in Int
        BY <1>2
      <4> QED BY Zenon, <2>2, <2>3, <4>1
    <3>2. (p * q + r) \div p = q /\ (p * q + r) % p = r
      BY ZenonT(40), <3>1, DivisionUnique
    <3> QED BY Zenon, <2>2, <2>3, <3>2
  <2>5. f.wF - m = -E /\ ~(-E >= 0) /\ -(-E) = E
    BY <1>1, <1>4, <1>7
  <2>6. Flag(2 * r > p \/ (2 * r = p /\ q % 2 = 1)) = u
    <3>1. u = 0 \/ u = 1
      OBVIOUS
    <3>2. u = 0 => u # 1
      OBVIOUS
    <3> QED BY Zenon, <2>2, <2>3, <3>1, <3>2 DEF Flag, NearestUp
  <2>7. RoundedTo(f, sign, n, 1, e, "nearest")
          = IF q + u = Pow2[F + 1] THEN Packed(f, sign, e + m + 1, 0)
            ELSE Packed(f, sign, e + m, (q + u) - Pow2[F])
    BY Zenon, <1>1, <1>4, <2>3, <2>4, <2>5, <2>6 DEF RoundedTo
  <2> QED BY Zenon, <1>1, <1>2, <1>5, <2>7 DEF Rounded, WholeRounds
<1> QED BY <1>6, <1>7

\* A factor of both sides, of an equality or an order, is dropped.
Cancels(a, u, v) == (a * u = a * v <=> u = v) /\ (a * u < a * v <=> u < v)

\* When it is positive.
LEMMA CancelsIs ==
  ASSUME NEW a \in Nat \ {0}, NEW u \in Int, NEW v \in Int
  PROVE  Cancels(a, u, v)
BY ZenonT(40), SameOrder DEF Cancels

\* Exactly aligned, the rest is that of the units, scaled.
LEMMA ExactUnits ==
  ASSUME NEW ex \in Nat, NEW z \in Nat, NEW G \in Nat \ {0}, G = Pow2[ex], NEW g \in Nat \ {0}, g = Pow2[z],
         NEW n \in Nat, NEW q \in Nat, NEW s \in 0..15, 8 * (n * g) = G * (16 * q + s),
         NEW u \in 0..1, NearestUp(q, s, 16, u)
  PROVE  \E r \in Int : InUnits(n, (ex + 1) - z, q, r, u)
<1>1. CASE z <= ex + 1
  <2>1. PICK E \in Nat, p \in Nat \ {0} : E = (ex + 1) - z /\ p = Pow2[E] /\ 2 * G = p * g
    <3>1. PICK E \in Nat : E = (ex + 1) - z /\ E + z = ex + 1
      <4>1. (ex + 1) - z \in Nat /\ ((ex + 1) - z) + z = ex + 1
        BY <1>1
      <4> QED BY <4>1
    <3>2. Pow2[E + z] = Pow2[E] * Pow2[z]
      BY ZenonT(40), Pow2Sum
    <3>3. Pow2[ex + 1] = 2 * G
      BY Zenon, Pow2Def
    <3>4. 2 * G = Pow2[E] * g
      BY Zenon, <3>1, <3>2, <3>3
    <3> QED BY <3>1, <3>4, Pow2Def
  <2>2. 16 * n = p * (16 * q + s)
    <3>1. g * (16 * n) = 2 * (8 * (n * g)) /\ 2 * (G * (16 * q + s)) = (2 * G) * (16 * q + s)
          /\ (p * g) * (16 * q + s) = g * (p * (16 * q + s))
      <4>1. PICK y \in Nat : y = 16 * q + s
        OBVIOUS
      <4>2. g * (16 * n) = 2 * (8 * (n * g)) /\ 2 * (G * y) = (2 * G) * y /\ (p * g) * y = g * (p * y)
        OBVIOUS
      <4> QED BY Zenon, <4>1, <4>2
    <3>2. g * (16 * n) = g * (p * (16 * q + s))
      BY Zenon, <2>1, <3>1
    <3>3. 16 * n \in Int /\ p * (16 * q + s) \in Int
      OBVIOUS
    <3>4. Cancels(g, 16 * n, p * (16 * q + s))
      BY ZenonT(40), <3>3, CancelsIs
    <3> QED BY Zenon, <3>2, <3>4 DEF Cancels
  <2>3. PICK a \in Nat, b \in Nat, r \in Int : a = p * q /\ b = p * s /\ r = n - a /\ n = a + r
    <3>1. p * q \in Nat /\ p * s \in Nat /\ n - p * q \in Int /\ n = p * q + (n - p * q)
      OBVIOUS
    <3> QED BY <3>1
  <2>4. 16 * r = b
    <3>1. p * (16 * q + s) = 16 * (p * q) + p * s
      OBVIOUS
    <3>2. 16 * n = 16 * a + b
      BY Zenon, <2>2, <2>3, <3>1
    <3> QED BY <2>3, <3>2
  <2>5. b <= p * 15
    <3>1. p * 15 - p * s = p * (15 - s) /\ p * (15 - s) >= 0
      OBVIOUS
    <3> QED BY <2>3, <3>1
  <2>6. r \in 0..(p - 1)
    BY <2>4, <2>5
  <2>7. (2 * r > p <=> 2 * s > 16) /\ (2 * r = p <=> 2 * s = 16)
    <3>1. Cancels(p, 8, s)
      <4>1. 8 \in Int /\ s \in Int
        OBVIOUS
      <4> QED BY ZenonT(40), <4>1, CancelsIs
    <3>2. (p * 8 = b <=> 8 = s) /\ (p * 8 < b <=> 8 < s)
      BY Zenon, <2>3, <3>1 DEF Cancels
    <3> QED BY <2>4, <3>2
  <2>8. NearestUp(q, r, p, u)
    BY Zenon, <2>7 DEF NearestUp
  <2>9. InUnits(n, E, q, r, u)
    BY Zenon, <2>1, <2>3, <2>6, <2>8 DEF InUnits
  <2> QED BY Zenon, <2>1, <2>9
<1>2. CASE z > ex + 1
  <2>1. PICK k \in Nat, p \in Nat \ {0} : (ex + 1) - z = -k /\ -(-k) = k /\ -((ex + 1) - z) = k /\ p = Pow2[k] /\ g = p * (2 * G)
    <3>1. PICK k \in Nat : k = z - (ex + 1) /\ k + (ex + 1) = z /\ (ex + 1) - z = -k /\ -(-k) = k /\ -((ex + 1) - z) = k
      <4>1. z - (ex + 1) \in Nat
        BY <1>2
      <4> QED BY <4>1
    <3>2. Pow2[k + (ex + 1)] = Pow2[k] * Pow2[ex + 1]
      <4>1. ex + 1 \in Nat
        OBVIOUS
      <4> QED BY ZenonT(40), <4>1, Pow2Sum
    <3>3. Pow2[ex + 1] = 2 * G
      BY Zenon, Pow2Def
    <3>4. g = Pow2[k] * (2 * G)
      BY Zenon, <3>1, <3>2, <3>3
    <3> QED BY <3>1, <3>4, Pow2Def
  <2>2. 16 * (n * p) = 16 * q + s
    <3>1. 8 * (n * (p * (2 * G))) = G * (16 * (n * p))
      OBVIOUS
    <3>2. G * (16 * (n * p)) = G * (16 * q + s)
      BY Zenon, <2>1, <3>1
    <3>3. 16 * (n * p) \in Int /\ 16 * q + s \in Int
      OBVIOUS
    <3>4. Cancels(G, 16 * (n * p), 16 * q + s)
      BY ZenonT(40), <3>3, CancelsIs
    <3> QED BY Zenon, <3>2, <3>4 DEF Cancels
  <2>3. s = 0 /\ n * p = q
    <3>1. PICK a \in Nat : a = n * p
      OBVIOUS
    <3>2. 16 * a = 16 * q + s
      BY Zenon, <2>2, <3>1
    <3>3. s = 0 /\ a = q
      BY <3>2
    <3> QED BY Zenon, <3>1, <3>3
  <2>4. u = 0
    <3>1. ~(2 * s > 16) /\ 2 * s # 16
      BY <2>3
    <3>2. u # 1
      BY Zenon, <3>1 DEF NearestUp
    <3> QED BY <3>2
  <2>5. InUnits(n, (ex + 1) - z, q, 0, u)
    BY Zenon, <2>1, <2>3, <2>4 DEF InUnits
  <2>6. 0 \in Int
    OBVIOUS
  <2> QED BY Zenon, <2>5, <2>6
<1> QED BY <1>1, <1>2

\* What stands in the sticky bit lies between two neighbours of the bits above it, and so
\* on the same side of the middle of a unit.
BesideMiddle(g, q, s) ==
  g <= s /\ s + g <= 16 /\ (s + g <= 8 \/ 8 + g <= s)

\* Unless it is shifted by more than two positions.
LEMMA BesideMiddleIs ==
  ASSUME NEW z \in Nat, z <= 2, NEW g, g = Pow2[z], NEW t \in Nat, NEW q \in Nat, NEW s \in 0..15,
         (2 * t + 1) * g = 16 * q + s
  PROVE  BesideMiddle(g, q, s)
<1>1. (z = 0 /\ g = 1) \/ (z = 1 /\ g = 2) \/ (z = 2 /\ g = 4)
  BY SmallPowers
<1>2. CASE g = 1
  BY <1>2 DEF BesideMiddle
<1>3. CASE g = 2
  <2>1. 4 * t + 2 = 16 * q + s
    BY <1>3
  <2> QED BY <1>3, <2>1 DEF BesideMiddle
<1>4. CASE g = 4
  <2>1. 8 * t + 4 = 16 * q + s
    BY <1>4
  <2> QED BY <1>4, <2>1 DEF BesideMiddle
<1> QED BY <1>1, <1>2, <1>3, <1>4

\* With a rest in the sticky bit, the rest of the units is beside the middle as the sticky bit is.
LEMMA StickyUnits ==
  ASSUME NEW ex \in Nat \ {0}, NEW z \in Nat, z <= 2, NEW G \in Nat \ {0}, G = Pow2[ex],
         NEW P \in Nat \ {0}, NEW t \in Nat, NEW l \in 1..(P - 1),
         NEW n \in Nat, 4 * (n * P) = G * (P * t + l),
         NEW q \in Nat, NEW s \in 0..15, (2 * t + 1) * Pow2[z] = 16 * q + s,
         NEW u \in 0..1, NearestUp(q, s, 16, u)
  PROVE  \E r \in Int : InUnits(n, (ex + 1) - z, q, r, u)
<1>1. PICK g \in Nat \ {0} : g = Pow2[z] /\ BesideMiddle(g, q, s)
  <2>1. Pow2[z] \in Nat \ {0}
    BY Pow2Def
  <2>2. BesideMiddle(Pow2[z], q, s)
    BY ZenonT(40), BesideMiddleIs
  <2> QED BY Zenon, <2>1, <2>2
<1>2. PICK E \in Nat, p \in Nat \ {0} : E = (ex + 1) - z /\ p = Pow2[E] /\ 2 * G = p * g
  <2>1. PICK E \in Nat : E = (ex + 1) - z /\ E + z = ex + 1
    <3>1. (ex + 1) - z \in Nat /\ ((ex + 1) - z) + z = ex + 1
      OBVIOUS
    <3> QED BY <3>1
  <2>2. Pow2[E + z] = Pow2[E] * Pow2[z]
    BY ZenonT(40), Pow2Sum
  <2>3. Pow2[ex + 1] = 2 * G
    <3>1. ex \in Nat
      OBVIOUS
    <3> QED BY Zenon, <3>1, Pow2Def
  <2>4. 2 * G = Pow2[E] * g
    BY Zenon, <1>1, <2>1, <2>2, <2>3
  <2> QED BY <2>1, <2>4, Pow2Def
<1>3. PICK r \in Int : n = p * q + r /\ r = n - p * q
  <2>1. n - p * q \in Int /\ n = p * q + (n - p * q)
    OBVIOUS
  <2> QED BY <2>1
<1>4. PICK y \in Int : y = P * (s - g) + 2 * (g * l)
  OBVIOUS
<1>5. (16 * P) * r = p * y
  <2>1. 2 * (g * t) = (16 * q + s) - g
    <3>1. (2 * t + 1) * g = 2 * (g * t) + g
      OBVIOUS
    <3>2. PICK a \in Int : a = 2 * (g * t)
      OBVIOUS
    <3>3. a + g = 16 * q + s
      BY Zenon, <1>1, <3>1, <3>2
    <3>4. a = (16 * q + s) - g
      BY <3>3
    <3> QED BY Zenon, <3>2, <3>4
  <2>2. 16 * (n * P) = p * (P * ((16 * q + s) - g) + 2 * (g * l))
    <3>1. 16 * (n * P) = 4 * (4 * (n * P)) /\ 4 * (G * (P * t + l)) = 2 * ((2 * G) * (P * t + l))
      <4>1. PICK a \in Int, b \in Int : a = n * P /\ b = P * t + l
        OBVIOUS
      <4>2. 16 * a = 4 * (4 * a) /\ 4 * (G * b) = 2 * ((2 * G) * b)
        OBVIOUS
      <4> QED BY Zenon, <4>1, <4>2
    <3>2. 2 * ((p * g) * (P * t + l)) = p * (P * (2 * (g * t)) + 2 * (g * l))
      OBVIOUS
    <3>3. 16 * (n * P) = p * (P * (2 * (g * t)) + 2 * (g * l))
      BY Zenon, <1>2, <3>1, <3>2
    <3> QED BY Zenon, <2>1, <3>3
  <2>3. P * ((16 * q + s) - g) + 2 * (g * l) = 16 * (P * q) + y
    <3>1. P * ((16 * q + s) - g) = 16 * (P * q) + P * (s - g)
      OBVIOUS
    <3>2. PICK a \in Int, b \in Int, c \in Int : a = P * q /\ b = P * (s - g) /\ c = g * l
      OBVIOUS
    <3>3. (16 * a + b) + 2 * c = 16 * a + (b + 2 * c)
      BY <3>2
    <3> QED BY Zenon, <1>4, <3>1, <3>2, <3>3
  <2>4. p * (16 * (P * q) + y) = 16 * (p * (P * q)) + p * y
    OBVIOUS
  <2>5. 16 * (n * P) = (16 * P) * r + 16 * (p * (P * q))
    <3>1. (p * q + r) * P = p * (P * q) + r * P
      OBVIOUS
    <3>2. n * P = p * (P * q) + r * P
      BY Zenon, <1>3, <3>1
    <3>3. PICK a \in Int, b \in Int, c \in Int : a = n * P /\ b = p * (P * q) /\ c = r * P /\ (16 * P) * r = 16 * c
      OBVIOUS
    <3>4. a = b + c
      BY Zenon, <3>2, <3>3
    <3>5. 16 * a = 16 * c + 16 * b
      BY <3>4
    <3> QED BY Zenon, <3>3, <3>5
  <2>6. PICK a \in Int, b \in Int, c \in Int : a = (16 * P) * r /\ b = p * (P * q) /\ c = p * y
    OBVIOUS
  <2>7. a + 16 * b = 16 * b + c
    BY Zenon, <2>2, <2>3, <2>4, <2>5, <2>6
  <2>8. a = c
    BY <2>7
  <2> QED BY Zenon, <2>6, <2>8
<1>6. y > 0 /\ y < 16 * P /\ (s < 8 => y < 8 * P) /\ (8 <= s => 8 < s /\ 8 * P < y)
  <2>1. g * l > 0 /\ g * l < g * P
    <3>1. g * P - g * l = g * (P - l) /\ g * (P - l) > 0 /\ g * l > 0
      OBVIOUS
    <3> QED BY <3>1
  <2>2. P * (s - g) = P * s - g * P
    OBVIOUS
  <2>3. P * s >= g * P /\ P * s + g * P <= 16 * P /\ (s + g <= 8 => P * s + g * P <= 8 * P)
        /\ (8 + g <= s => 8 * P + g * P <= P * s)
    <3>1. P * s - g * P = P * (s - g) /\ 16 * P - (P * s + g * P) = P * (16 - (s + g))
          /\ 8 * P - (P * s + g * P) = P * (8 - (s + g)) /\ P * s - (8 * P + g * P) = P * (s - (8 + g))
      OBVIOUS
    <3>2. P * (s - g) >= 0 /\ P * (16 - (s + g)) >= 0
      BY <1>1 DEF BesideMiddle
    <3>3. s + g <= 8 => P * (8 - (s + g)) >= 0
      OBVIOUS
    <3>4. 8 + g <= s => P * (s - (8 + g)) >= 0
      OBVIOUS
    <3>5. PICK a \in Int, b \in Int : a = P * s /\ b = g * P
      OBVIOUS
    <3>6. /\ a - b >= 0 /\ 16 * P - (a + b) >= 0
          /\ s + g <= 8 => 8 * P - (a + b) >= 0
          /\ 8 + g <= s => a - (8 * P + b) >= 0
      BY Zenon, <3>1, <3>2, <3>3, <3>4, <3>5
    <3>7. /\ a >= b /\ a + b <= 16 * P
          /\ s + g <= 8 => a + b <= 8 * P
          /\ 8 + g <= s => 8 * P + b <= a
      BY <3>6
    <3> QED BY Zenon, <3>5, <3>7
  <2>4. PICK a \in Int, b \in Int, c \in Int : a = P * s /\ b = g * P /\ c = g * l
    OBVIOUS
  <2>5. /\ c > 0 /\ c < b /\ y = (a - b) + 2 * c /\ a >= b /\ a + b <= 16 * P
        /\ s + g <= 8 => a + b <= 8 * P
        /\ 8 + g <= s => 8 * P + b <= a
    BY Zenon, <1>4, <2>1, <2>2, <2>3, <2>4
  <2>6. s + g <= 8 \/ 8 + g <= s
    BY Zenon, <1>1 DEF BesideMiddle
  <2>7. (s < 8 => s + g <= 8) /\ (8 <= s => 8 + g <= s)
    BY <2>6
  <2> QED BY <2>5, <2>7
<1>7. (16 * P) * 0 < p * y /\ p * y < (16 * P) * p /\ (s < 8 => 2 * (p * y) < (16 * P) * p)
      /\ (8 <= s => (16 * P) * p < 2 * (p * y))
  <2>1. p * y > 0
    BY <1>6
  <2>2. p * (16 * P) - p * y = p * (16 * P - y) /\ p * (16 * P - y) > 0
    BY <1>6
  <2>3. p * (8 * P) - p * y = p * (8 * P - y)
    OBVIOUS
  <2>4. (s < 8 => p * (8 * P - y) > 0) /\ (8 <= s => p * (8 * P - y) < 0)
    BY <1>6
  <2>5. PICK a \in Int, b \in Int : a = p * y /\ b = p * P /\ p * (16 * P) = 16 * b /\ p * (8 * P) = 8 * b /\ (16 * P) * p = 16 * b
    OBVIOUS
  <2>6. /\ a > 0 /\ 16 * b - a > 0
        /\ s < 8 => 8 * b - a > 0
        /\ 8 <= s => 8 * b - a < 0
    BY Zenon, <2>1, <2>2, <2>3, <2>4, <2>5
  <2>7. /\ 0 < a /\ a < 16 * b
        /\ s < 8 => 2 * a < 16 * b
        /\ 8 <= s => 16 * b < 2 * a
    BY <2>6
  <2>8. (16 * P) * 0 = 0
    OBVIOUS
  <2> QED BY Zenon, <2>5, <2>7, <2>8
<1>8. 0 < r /\ r < p /\ (s < 8 => 2 * r < p) /\ (8 <= s => p < 2 * r)
  <2>1. 16 * P \in Nat \ {0} /\ 2 * r \in Int /\ 0 \in Int /\ p \in Int
    OBVIOUS
  <2>2. Cancels(16 * P, 0, r) /\ Cancels(16 * P, r, p) /\ Cancels(16 * P, 2 * r, p) /\ Cancels(16 * P, p, 2 * r)
    BY ZenonT(40), <2>1, CancelsIs
  <2>3. (16 * P) * (2 * r) = 2 * ((16 * P) * r)
    OBVIOUS
  <2> QED BY Zenon, <1>5, <1>7, <2>2, <2>3 DEF Cancels
<1>9. r \in 0..(p - 1)
  BY <1>8
<1>10. NearestUp(q, r, p, u)
  <2>1. (2 * s > 16 <=> 8 < s) /\ 2 * s # 16
    BY <1>6
  <2>2. u = 1 <=> 8 < s
    BY Zenon, <2>1 DEF NearestUp
  <2>3. (2 * r > p <=> 8 < s) /\ 2 * r # p
    BY <1>6, <1>8
  <2> QED BY Zenon, <2>2, <2>3 DEF NearestUp
<1>11. InUnits(n, E, q, r, u)
  BY Zenon, <1>2, <1>3, <1>9, <1>10 DEF InUnits
<1> QED BY Zenon, <1>2, <1>11

\* An aligned sum, the rest in a sticky bit, rounds as the exact one.
LEMMA AlignedUnits ==
  ASSUME NEW ex \in Nat, NEW D \in 0..ex, NEW P \in Nat \ {0}, P = Pow2[D], NEW N \in Nat,
         NEW t \in Nat, NEW l \in 0..(P - 1), 4 * N = P * t + l,
         NEW z \in Nat, l # 0 => z <= 2,
         NEW q \in Nat, NEW s \in 0..15, (2 * t + Flag(l # 0)) * Pow2[z] = 16 * q + s,
         NEW u \in 0..1, NearestUp(q, s, 16, u)
  PROVE  \E r \in Int : InUnits(Pow2[ex - D] * N, (ex + 1) - z, q, r, u)
<1>1. PICK H \in Nat \ {0}, G \in Nat \ {0} : H = Pow2[ex - D] /\ G = Pow2[ex] /\ G = H * P
  <2>1. PICK k \in Nat : k = ex - D /\ k + D = ex
    <3>1. ex - D \in Nat /\ (ex - D) + D = ex
      OBVIOUS
    <3> QED BY <3>1
  <2>2. Pow2[k + D] = Pow2[k] * Pow2[D]
    <3>1. D \in Nat
      OBVIOUS
    <3> QED BY ZenonT(40), <3>1, Pow2Sum
  <2>3. Pow2[ex] = Pow2[k] * P
    BY Zenon, <2>1, <2>2
  <2> QED BY <2>1, <2>3, Pow2Def
<1>2. PICK n \in Nat : n = H * N
  OBVIOUS
<1>3. 4 * (n * P) = G * (P * t + l)
  <2>1. 4 * ((H * N) * P) = (H * P) * (4 * N)
    OBVIOUS
  <2> QED BY Zenon, <1>1, <1>2, <2>1
<1>4. PICK g \in Nat \ {0} : g = Pow2[z]
  BY Pow2Def
<1>5. CASE l = 0
  <2>1. (2 * t) * g = 16 * q + s
    <3>1. Flag(l # 0) = 0 /\ 2 * t + 0 = 2 * t
      BY <1>5 DEF Flag
    <3> QED BY Zenon, <1>4, <3>1
  <2>2. P * (8 * (n * g)) = P * (G * (16 * q + s))
    <3>1. P * (8 * (n * g)) = 2 * ((4 * (n * P)) * g)
      OBVIOUS
    <3>2. 2 * ((G * (P * t + 0)) * g) = P * (G * ((2 * t) * g))
      OBVIOUS
    <3> QED BY Zenon, <1>3, <1>5, <2>1, <3>1, <3>2
  <2>3. 8 * (n * g) = G * (16 * q + s)
    <3>1. 8 * (n * g) \in Int /\ G * (16 * q + s) \in Int
      OBVIOUS
    <3>2. Cancels(P, 8 * (n * g), G * (16 * q + s))
      BY ZenonT(40), <3>1, CancelsIs
    <3> QED BY Zenon, <2>2, <3>2 DEF Cancels
  <2>4. \E r \in Int : InUnits(n, (ex + 1) - z, q, r, u)
    BY ZenonT(60), <1>1, <1>4, <2>3, ExactUnits
  <2> QED BY Zenon, <1>1, <1>2, <2>4
<1>6. CASE l # 0
  <2>1. l \in 1..(P - 1) /\ z <= 2 /\ P # 1
    BY <1>6
  <2>2. D # 0 /\ ex \in Nat \ {0}
    <3>1. D # 0
      BY Zenon, <2>1, Pow2Def
    <3> QED BY <3>1
  <2>3. (2 * t + 1) * Pow2[z] = 16 * q + s
    BY Zenon, <1>6 DEF Flag
  <2>4. \E r \in Int : InUnits(n, (ex + 1) - z, q, r, u)
    BY ZenonT(60), <1>1, <1>3, <2>1, <2>2, <2>3, StickyUnits
  <2> QED BY Zenon, <1>1, <1>2, <2>4
<1> QED BY <1>5, <1>6

-----------------------------------------------------------------------------
(***************************************************************************)
(* The aligned sum.                                                        *)
(***************************************************************************)
\* The formats of an adder.
AdderFormat(f) == NumberFormat(f) /\ f.wE >= SizeRightShift(f)

\* The shifter of the smaller significand: what stays, and whether something is shifted out.
AlignedIs(f, b, sv) ==
  Aligned(f, b, sv) = [R |-> (b * 4) \div Pow2[sv], Sticky |-> Flag((b * 4) % Pow2[sv] # 0)]

\* It is a shifter with a sticky bit, whatever the distance in its input.
LEMMA AlignerShifts ==
  ASSUME NEW f, NumberFormat(f), NEW b \in Nat, b < 2 * Pow2[f.wF], NEW sv \in 0..Ones(SizeRightShift(f))
  PROVE  AlignedIs(f, b, sv)
<1>1. PICK F \in Nat \ {0} : F = f.wF
  BY DEF NumberFormat
<1>2. F + 1 \in Nat /\ F + 3 \in Nat /\ F + 3 \in Nat \ {0} /\ F + 1 <= F + 3 /\ (F + 3) - (F + 1) = 2 /\ F + 3 # 0
  OBVIOUS
<1>3. Pow2[ShiftWidth(F + 3) - 1] <= F + 3
  <2>1. F + 3 # 0 => IntLog2(F + 3) # 0 /\ Pow2[IntLog2(F + 3) - 1] <= F + 3
    BY ZenonT(40), <1>2, IntLog2Bounds
  <2> QED BY Zenon, <1>2, <2>1 DEF ShiftWidth
<1>4. b < Pow2[F + 1]
  <2>1. F \in Nat
    OBVIOUS
  <2>2. Pow2[F + 1] = 2 * Pow2[F]
    BY Zenon, <2>1, Pow2Def
  <2> QED BY Zenon, <1>1, <2>2
<1>5. sv \in 0..Ones(ShiftWidth(F + 3))
  BY Zenon, <1>1 DEF ShiftWidth, SizeRightShift
<1>6. StickyShiftIs(F + 1, F + 3, F + 3, b, sv)
  BY ZenonT(60), <1>2, <1>3, <1>4, <1>5, StickyShifterIs
<1> QED BY Zenon, <1>1, <1>2, <1>6, SmallPowers DEF StickyShiftIs, Aligned, AlignedIs

\* The distance: that of the exponents, or enough to shift everything out, or of no importance.
Distance(f, b, sv, D) == sv = D \/ (sv = f.wF + 3 /\ f.wF + 3 <= D) \/ b = 0

\* What the significand b is at that distance.
AlignedParts(f, b, sv, P, k, l) ==
  /\ b * 4 = P * k + l
  /\ Aligned(f, b, sv) = [R |-> k, Sticky |-> Flag(l # 0)]

\* A distance too large for the shifter leaves nothing but a sticky bit, as it should.
LEMMA AlignedPartsAre ==
  ASSUME NEW f, NumberFormat(f), NEW b \in Nat, b < 2 * Pow2[f.wF], NEW sv \in 0..Ones(SizeRightShift(f)),
         NEW D \in Nat, Distance(f, b, sv, D), NEW P \in Nat \ {0}, P = Pow2[D]
  PROVE  \E k \in Nat, l \in 0..(P - 1) : AlignedParts(f, b, sv, P, k, l)
<1>1. AlignedIs(f, b, sv)
  BY ZenonT(60), AlignerShifts
<1>2. PICK v \in Nat : v = b * 4
  OBVIOUS
<1>3. PICK q \in Nat \ {0} : q = Pow2[sv]
  <2>1. sv \in Nat
    OBVIOUS
  <2> QED BY <2>1, Pow2Def
<1>4. PICK k \in Nat, l \in 0..(q - 1) : v = q * k + l /\ k = v \div q /\ l = v % q /\ l <= v /\ q * k <= v
  BY ZenonT(40), NaturalDivision
<1>5. Aligned(f, b, sv) = [R |-> k, Sticky |-> Flag(l # 0)]
  BY Zenon, <1>1, <1>2, <1>3, <1>4 DEF AlignedIs
<1>6. CASE sv = D
  BY Zenon, <1>2, <1>3, <1>4, <1>5, <1>6 DEF AlignedParts
<1>7. CASE sv = f.wF + 3 /\ f.wF + 3 <= D
  <2>1. PICK F \in Nat : F = f.wF /\ F + 3 \in Nat
    BY DEF NumberFormat
  <2>2. PICK w \in Nat : w = Pow2[F]
    BY Pow2Def
  <2>3. Pow2[F + 3] = w * 8
    <3>1. Pow2[F + 3] = Pow2[F] * Pow2[3]
      BY ZenonT(40), Pow2Sum
    <3> QED BY Zenon, <2>2, <3>1, SmallPowers
  <2>4. q = w * 8
    BY Zenon, <1>3, <1>7, <2>1, <2>3
  <2>5. b < 2 * w
    BY Zenon, <2>1, <2>2
  <2>6. v < q
    BY <1>2, <2>4, <2>5
  <2>7. k = 0 /\ l = v
    <3>1. v \in 0..(q - 1) /\ 0 \in Int /\ q * 0 + v = v
      BY <2>6
    <3>2. (q * 0 + v) \div q = 0 /\ (q * 0 + v) % q = v
      BY ZenonT(40), <3>1, DivisionUnique
    <3> QED BY Zenon, <1>4, <3>1, <3>2
  <2>8. q <= P
    <3>1. F + 3 <= D
      BY Zenon, <1>7, <2>1
    <3>2. Pow2[F + 3] <= Pow2[D]
      BY ZenonT(40), <2>1, <3>1, Pow2Monotone
    <3> QED BY Zenon, <1>3, <1>7, <2>1, <3>2
  <2>9. v = P * 0 + v /\ v \in 0..(P - 1) /\ 0 \in Nat
    BY <2>6, <2>8
  <2> QED BY Zenon, <1>2, <1>5, <2>7, <2>9 DEF AlignedParts
<1>8. CASE b = 0
  <2>1. v = 0
    BY <1>2, <1>8
  <2>2. k = 0 /\ l = 0
    <3>1. 0 \in 0..(q - 1) /\ 0 \in Int /\ q * 0 + 0 = 0
      OBVIOUS
    <3>2. (q * 0 + 0) \div q = 0 /\ (q * 0 + 0) % q = 0
      BY ZenonT(40), <3>1, DivisionUnique
    <3> QED BY Zenon, <1>4, <2>1, <3>1, <3>2
  <2>3. v = P * 0 + 0 /\ 0 \in 0..(P - 1) /\ 0 \in Nat
    BY <2>1
  <2> QED BY Zenon, <1>2, <1>5, <2>2, <2>3 DEF AlignedParts
<1> QED BY Zenon, <1>6, <1>7, <1>8 DEF Distance

\* The sum or the difference N of the significands, at their distance, in units of the guard
\* bits: t and a rest l, that the sticky bit stands for.
ExactSumOf(a, b, P, effSub) == IF effSub = 1 THEN a * P - b ELSE a * P + b
SumParts(w, effSub, D, P, N, t, l) ==
  /\ 4 * N = P * t + l /\ t < 16 * w
  /\ l # 0 => 4 * w <= 2 * t + 1
  /\ effSub = 0 \/ D >= 2 => 2 * w <= t

\* What is shifted out of the smaller significand is absorbed by the sticky bit, the carry
\* of its negation included; only a difference of close numbers cancels many bits, and then
\* nothing has been shifted out.
LEMMA SumPartsAre ==
  ASSUME NEW w \in Nat \ {0}, NEW a \in w..(2 * w - 1), NEW b \in 0..(2 * w - 1), NEW effSub \in 0..1,
         NEW D \in Nat, NEW P \in Nat \ {0}, P = Pow2[D], NEW N \in Nat, N = ExactSumOf(a, b, P, effSub),
         NEW t \in Nat, NEW l \in 0..(P - 1), 4 * N = P * t + l, t <= 4 * a + 8 * w
  PROVE  SumParts(w, effSub, D, P, N, t, l)
<1>1. t < 16 * w
  BY Z3
<1>2. l # 0 => 8 <= P
  <2>1. CASE D = 0 \/ D = 1 \/ D = 2
    <3>1. P = 1 \/ P = 2 \/ P = 4
      BY Zenon, <2>1, SmallPowers
    <3>2. CASE P = 1
      BY <3>2
    <3>3. CASE P = 2
      <4>1. 4 * N = 2 * t + l /\ l \in 0..1
        BY <3>3
      <4> QED BY <4>1
    <3>4. CASE P = 4
      <4>1. 4 * N = 4 * t + l /\ l \in 0..3
        BY <3>4
      <4> QED BY <4>1
    <3> QED BY <3>1, <3>2, <3>3, <3>4
  <2>2. CASE 3 <= D
    <3>1. 3 \in Nat
      OBVIOUS
    <3>2. Pow2[3] <= Pow2[D]
      BY ZenonT(40), <2>2, <3>1, Pow2Monotone
    <3> QED BY Zenon, <3>2, SmallPowers
  <2> QED BY <2>1, <2>2
<1>3. D >= 2 => 4 <= P
  <2>1. SUFFICES ASSUME D >= 2 PROVE 4 <= P
    OBVIOUS
  <2>2. 2 \in Nat /\ 2 <= D
    BY <2>1
  <2>3. Pow2[2] <= Pow2[D]
    BY ZenonT(40), <2>2, Pow2Monotone
  <2> QED BY Zenon, <2>3, SmallPowers
<1>4. PICK x \in Int, y \in Int, z \in Int : x = a * P /\ y = P * t /\ z = w * P
  OBVIOUS
<1>5. CASE effSub = 0
  <2>1. N = x + b
    BY <1>4, <1>5 DEF ExactSumOf
  <2>2. 4 * a <= t
    <3>1. 4 * x < y + P
      BY <1>4, <2>1
    <3>2. P * (t + 1) = P * t + P /\ P * (4 * a) = 4 * (a * P)
      OBVIOUS
    <3>3. P * (4 * a) < P * (t + 1)
      BY Zenon, <1>4, <3>1, <3>2
    <3>4. Cancels(P, 4 * a, t + 1)
      <4>1. 4 * a \in Int /\ t + 1 \in Int
        OBVIOUS
      <4> QED BY ZenonT(40), <4>1, CancelsIs
    <3>5. 4 * a < t + 1
      BY Zenon, <3>3, <3>4 DEF Cancels
    <3> QED BY <3>5
  <2>3. 4 * w <= 2 * t + 1 /\ 2 * w <= t
    BY <2>2
  <2> QED BY <1>1, <2>3 DEF SumParts
<1>6. CASE effSub = 1
  <2>1. N = x - b
    BY <1>4, <1>6 DEF ExactSumOf
  <2>2. 4 * x - 8 * w < y + P
    BY <1>4, <2>1
  <2>3. ASSUME NEW c \in 1..2, 8 * w <= c * z PROVE 4 * a - c * w < t + 1
    <3>1. 4 * x - c * z < y + P
      <4>1. PICK e \in Int : e = c * z
        OBVIOUS
      <4>2. 8 * w <= e
        BY Zenon, <2>3, <4>1
      <4>3. 4 * x - e < y + P
        BY <2>2, <4>2
      <4> QED BY Zenon, <4>1, <4>3
    <3>2. P * (t + 1) = P * t + P /\ P * (4 * a - c * w) = 4 * (a * P) - c * (w * P)
      <4>1. CASE c = 1
        <5>1. P * (4 * a - 1 * w) = 4 * (a * P) - 1 * (w * P) /\ P * (t + 1) = P * t + P
          OBVIOUS
        <5> QED BY Zenon, <4>1, <5>1
      <4>2. CASE c = 2
        <5>1. P * (4 * a - 2 * w) = 4 * (a * P) - 2 * (w * P) /\ P * (t + 1) = P * t + P
          OBVIOUS
        <5> QED BY Zenon, <4>2, <5>1
      <4> QED BY <4>1, <4>2
    <3>3. P * (4 * a - c * w) < P * (t + 1)
      BY Zenon, <1>4, <3>1, <3>2
    <3>4. Cancels(P, 4 * a - c * w, t + 1)
      <4>1. 4 * a - c * w \in Int /\ t + 1 \in Int
        OBVIOUS
      <4> QED BY ZenonT(40), <4>1, CancelsIs
    <3> QED BY Zenon, <3>3, <3>4 DEF Cancels
  <2>4. l # 0 => 4 * w <= 2 * t + 1
    <3>1. SUFFICES ASSUME l # 0 PROVE 4 * w <= 2 * t + 1
      OBVIOUS
    <3>2. 8 * w <= z
      <4>1. w * P - w * 8 = w * (P - 8) /\ w * (P - 8) >= 0
        BY <1>2, <3>1
      <4> QED BY <1>4, <4>1
    <3>3. 8 * w <= 1 * z /\ 1 \in 1..2
      BY <3>2
    <3>4. 4 * a - 1 * w < t + 1
      BY Zenon, <2>3, <3>3
    <3> QED BY <3>4
  <2>5. D >= 2 => 2 * w <= t
    <3>1. SUFFICES ASSUME D >= 2 PROVE 2 * w <= t
      OBVIOUS
    <3>2. 4 * w <= z
      <4>1. w * P - w * 4 = w * (P - 4) /\ w * (P - 4) >= 0
        BY <1>3, <3>1
      <4> QED BY <1>4, <4>1
    <3>3. 8 * w <= 2 * z /\ 2 \in 1..2
      BY <3>2
    <3>4. 4 * a - 2 * w < t + 1
      BY Zenon, <2>3, <3>3
    <3> QED BY <3>4
  <2> QED BY <1>1, <1>6, <2>4, <2>5 DEF SumParts
<1> QED BY <1>5, <1>6

\* The adder adds them.
AlignedSum(f, a, b, sv, effSub, w, D, P, N, t, l) ==
  /\ SumParts(w, effSub, D, P, N, t, l)
  /\ FracSum(f, a, Aligned(f, b, sv), effSub) = t
  /\ Aligned(f, b, sv).Sticky = Flag(l # 0)

\* The carry of a negation is in the sticky bit.
LEMMA AlignedSumIs ==
  ASSUME NEW f, NumberFormat(f), NEW w \in Nat \ {0}, w = Pow2[f.wF],
         NEW a \in w..(2 * w - 1), NEW b \in 0..(2 * w - 1), NEW effSub \in 0..1,
         NEW sv \in 0..Ones(SizeRightShift(f)), NEW D \in Nat, Distance(f, b, sv, D),
         NEW P \in Nat \ {0}, P = Pow2[D], NEW N \in Nat, N = ExactSumOf(a, b, P, effSub)
  PROVE  \E t \in Nat, l \in 0..(P - 1) : AlignedSum(f, a, b, sv, effSub, w, D, P, N, t, l)
<1>1. PICK k \in Nat, m \in 0..(P - 1) : AlignedParts(f, b, sv, P, k, m)
  <2>1. b \in Nat /\ b < 2 * Pow2[f.wF]
    <3>1. b \in Nat /\ b < 2 * w
      OBVIOUS
    <3> QED BY Zenon, <3>1
  <2> QED BY ZenonT(60), <2>1, AlignedPartsAre
<1>2. PICK al : al = Aligned(f, b, sv) /\ al.R = k /\ al.Sticky = Flag(m # 0) /\ b * 4 = P * k + m
  <2>1. PICK al : al = Aligned(f, b, sv)
    OBVIOUS
  <2>2. al = [R |-> k, Sticky |-> Flag(m # 0)] /\ b * 4 = P * k + m
    BY Zenon, <1>1, <2>1 DEF AlignedParts
  <2>3. al.R = k /\ al.Sticky = Flag(m # 0)
    BY <2>2
  <2> QED BY Zenon, <2>1, <2>2, <2>3
<1>3. Pow2[f.wF + 4] = 16 * w
  <2>1. f.wF \in Nat /\ 4 \in Nat
    BY DEF NumberFormat
  <2>2. Pow2[f.wF + 4] = Pow2[f.wF] * Pow2[4]
    BY ZenonT(40), <2>1, Pow2Sum
  <2>3. Pow2[f.wF + 4] = w * 16
    BY Zenon, <2>2, SmallPowers
  <2> QED BY <2>3
<1>4. k <= 4 * b
  <2>1. P * k - k = (P - 1) * k /\ (P - 1) * k >= 0
    OBVIOUS
  <2>2. PICK c \in Int : c = P * k
    OBVIOUS
  <2>3. k <= c /\ 4 * b = c + m
    <3>1. c - k >= 0 /\ b * 4 = c + m
      BY Zenon, <1>2, <2>1, <2>2
    <3> QED BY <3>1
  <2> QED BY <2>3
<1>5. CASE effSub = 0
  <2>1. 4 * N = P * (4 * a + k) + m
    <3>1. N = a * P + b
      BY <1>5 DEF ExactSumOf
    <3>2. P * (4 * a + k) = 4 * (a * P) + P * k
      OBVIOUS
    <3>3. PICK c \in Int, e \in Int : c = a * P /\ e = P * k
      OBVIOUS
    <3>4. N = c + b /\ b * 4 = e + m
      BY Zenon, <1>2, <3>1, <3>3
    <3>5. 4 * N = (4 * c + e) + m
      BY <3>4
    <3> QED BY Zenon, <3>2, <3>3, <3>5
  <2>2. PICK t \in Nat : t = 4 * a + k /\ t <= 4 * a + 8 * w
    BY <1>4
  <2>3. 4 * N = P * t + m
    BY Zenon, <2>1, <2>2
  <2>4. SumParts(w, effSub, D, P, N, t, m)
    BY ZenonT(60), <2>2, <2>3, SumPartsAre
  <2>5. FracSum(f, a, al, effSub) = t
    <3>1. FracSum(f, a, al, effSub) = (a * 4 + k + 0) % (16 * w)
      <4>1. ~(effSub = 1)
        BY <1>5
      <4> QED BY Zenon, <1>2, <1>3, <4>1 DEF FracSum, IntAdder, XorAll, Flag
    <3>2. a * 4 + k + 0 = t
      BY <2>2
    <3>3. t \in 0..(16 * w - 1)
      <4>1. t < 16 * w
        BY Zenon, <2>4 DEF SumParts
      <4> QED BY <4>1
    <3>4. t % (16 * w) = t
      <4>1. 16 * w \in Nat \ {0} /\ t \in Int
        OBVIOUS
      <4> QED BY ZenonT(40), <3>3, <4>1, SmallRemainder
    <3> QED BY Zenon, <3>1, <3>2, <3>4
  <2> QED BY Zenon, <1>2, <2>4, <2>5 DEF AlignedSum
<1>6. CASE effSub = 1
  <2>1. PICK g \in 0..1 : /\ m = 0 => g = 0
                          /\ m # 0 => g = 1
    <3>1. 0 \in 0..1 /\ 1 \in 0..1
      OBVIOUS
    <3>2. CASE m = 0
      BY <3>1, <3>2
    <3>3. CASE m # 0
      BY <3>1, <3>3
    <3> QED BY <3>2, <3>3
  <2>2. PICK l \in 0..(P - 1) : l = g * P - m /\ (l = 0 <=> m = 0)
    <3>1. CASE m = 0
      <4>1. 0 = g * P - m /\ 0 \in 0..(P - 1)
        BY <2>1, <3>1
      <4> QED BY <3>1, <4>1
    <3>2. CASE m # 0
      <4>1. g = 1
        BY <2>1, <3>2
      <4>2. P - m = g * P - m /\ P - m \in 0..(P - 1) /\ P - m # 0
        BY <3>2, <4>1
      <4> QED BY <3>2, <4>2
    <3> QED BY <3>1, <3>2
  <2>3. 4 * N = P * ((4 * a - k) - g) + l
    <3>1. N = a * P - b
      BY <1>6 DEF ExactSumOf
    <3>2. P * ((4 * a - k) - g) = (4 * (a * P) - P * k) - g * P
      OBVIOUS
    <3>3. PICK c \in Int, e \in Int, h \in Int : c = a * P /\ e = P * k /\ h = g * P
      OBVIOUS
    <3>4. N = c - b /\ b * 4 = e + m /\ l = h - m
      BY Zenon, <1>2, <2>2, <3>1, <3>3
    <3>5. 4 * N = ((4 * c - e) - h) + l
      BY <3>4
    <3> QED BY Zenon, <3>2, <3>3, <3>5
  <2>4. PICK t \in Int : t = (4 * a - k) - g
    <3>1. (4 * a - k) - g \in Int
      OBVIOUS
    <3> QED BY Zenon, <3>1
  <2>5. t \in Nat
    <3>1. 4 * N = P * t + l
      BY Zenon, <2>3, <2>4
    <3>2. SUFFICES ASSUME t < 0 PROVE FALSE
      OBVIOUS
    <3>3. P * t = P * (t + 1) - P /\ P * (t + 1) <= 0
      BY <3>2
    <3>4. PICK c \in Int, e \in Int : c = P * t /\ e = P * (t + 1)
      OBVIOUS
    <3>5. 4 * N = c + l /\ c = e - P /\ e <= 0
      BY Zenon, <3>1, <3>3, <3>4
    <3> QED BY <3>5
  <2>6. 4 * N = P * t + l /\ t <= 4 * a + 8 * w
    <3>1. t <= 4 * a + 8 * w
      BY <2>4
    <3> QED BY Zenon, <2>3, <2>4, <3>1
  <2>7. SumParts(w, effSub, D, P, N, t, l)
    BY ZenonT(60), <2>5, <2>6, SumPartsAre
  <2>8. FracSum(f, a, al, effSub) = t
    <3>1. Flag(effSub = 1 /\ al.Sticky = 0) = 1 - g
      <4>1. CASE m = 0
        <5>1. al.Sticky = 0
          BY Zenon, <1>2, <4>1 DEF Flag
        <5>2. g = 0
          BY <2>1, <4>1
        <5>3. 1 - g = 1
          BY <5>2
        <5> QED BY Zenon, <1>6, <5>1, <5>3 DEF Flag
      <4>2. CASE m # 0
        <5>1. al.Sticky = 1
          BY Zenon, <1>2, <4>2 DEF Flag
        <5>2. g = 1
          BY <2>1, <4>2
        <5>3. 1 - g = 0 /\ 1 # 0
          BY <5>2
        <5> QED BY Zenon, <5>1, <5>3 DEF Flag
      <4> QED BY Zenon, <4>1, <4>2
    <3>2. FracSum(f, a, al, effSub) = (a * 4 + ((16 * w - 1) - k) + (1 - g)) % (16 * w)
      BY Zenon, <1>2, <1>3, <1>6, <3>1 DEF FracSum, IntAdder, XorAll, Not, Ones
    <3>3. a * 4 + ((16 * w - 1) - k) + (1 - g) = (16 * w) * 1 + t
      BY <2>4
    <3>4. t \in 0..(16 * w - 1)
      <4>1. t < 16 * w
        BY Zenon, <2>7 DEF SumParts
      <4> QED BY <2>5, <4>1
    <3>5. ((16 * w) * 1 + t) % (16 * w) = t
      <4>1. PICK c \in Nat \ {0} : c = 16 * w
        OBVIOUS
      <4>2. t \in 0..(c - 1)
        BY Zenon, <3>4, <4>1
      <4>3. (c * 1 + t) % c = t
        <5>1. 1 \in Int
          OBVIOUS
        <5> QED BY ZenonT(40), <4>2, <5>1, DivisionUnique
      <4> QED BY Zenon, <4>1, <4>3
    <3> QED BY Zenon, <3>2, <3>3, <3>5
  <2>9. al.Sticky = Flag(l # 0)
    BY Zenon, <1>2, <2>2 DEF Flag
  <2> QED BY Zenon, <1>2, <2>5, <2>7, <2>8, <2>9 DEF AlignedSum
<1> QED BY <1>5, <1>6

-----------------------------------------------------------------------------
(***************************************************************************)
(* The normalizers.                                                        *)
(***************************************************************************)
\* A normalizer brings the leading one to the left end, and counts how far that is.
NormalizedTo(W, tot, z, v, norm) ==
  /\ v = tot * Pow2[z] /\ Pow2[W - 1] <= v /\ v < Pow2[W]
  /\ norm.R = v /\ norm.Count = z /\ z < W /\ norm.Count # Ones(IntLog2(W))

\* It does when there is one; the count is then smaller than that of no one.
LEMMA NormalizedToIs ==
  ASSUME NEW W \in Nat, 2 <= W, NEW tot \in Nat \ {0}, tot < Pow2[W]
  PROVE  \E z \in Nat, v \in Nat : NormalizedTo(W, tot, z, v, Normalizer(W, W, W, 0, tot))
<1>1. PICK norm : norm = Normalizer(W, W, W, 0, tot)
  OBVIOUS
<1>2. tot \in Nat /\ tot # 0 /\ 0 \in 0..1 /\ W \in 2..W /\ 0 # 1 /\ W # 0
  OBVIOUS
<1>3. PICK k \in Nat : k = IntLog2(tot) /\ k # 0 /\ tot < Pow2[k] /\ Pow2[k - 1] <= tot
  <2>1. IntLog2(tot) \in Nat /\ tot < Pow2[IntLog2(tot)]
    BY ZenonT(40), <1>2, IntLog2Bounds
  <2>2. IntLog2(tot) # 0 /\ Pow2[IntLog2(tot) - 1] <= tot
    BY ZenonT(40), <1>2, IntLog2Bounds
  <2> QED BY Zenon, <2>1, <2>2
<1>4. k \in 0..W
  BY Zenon, <1>2, <1>3, IntLog2AtMost
<1>5. PICK z \in Nat : z = W - k /\ z + k = W /\ z < W /\ z + (k - 1) = W - 1 /\ k - 1 \in Nat
  <2>1. W - k \in Nat /\ (W - k) + k = W /\ W - k < W /\ (W - k) + (k - 1) = W - 1 /\ k - 1 \in Nat
    BY <1>3, <1>4
  <2> QED BY Zenon, <2>1
<1>6. Leading(W, 0, tot) = z
  BY Zenon, <1>2, <1>3, <1>5 DEF Leading, XorAll
<1>7. PICK most \in Nat : most = Ones(IntLog2(W)) /\ W <= most
  <2>1. IntLog2(W) \in Nat /\ W < Pow2[IntLog2(W)]
    BY ZenonT(40), IntLog2Bounds
  <2>2. PICK p \in Nat \ {0} : p = Pow2[IntLog2(W)]
    BY <2>1, Pow2Def
  <2>3. p - 1 \in Nat /\ W <= p - 1
    BY <2>1, <2>2
  <2> QED BY Zenon, <2>2, <2>3 DEF Ones
<1>8. LeadingCount(W, 0, tot, most) = z
  <2>1. CountedIs(W, 0, tot, most)
    BY ZenonT(40), <1>2, <1>7, LeadingCountIs
  <2>2. SmallerOf(z, SmallerOf(W, most)) = z
    BY <1>5, <1>7 DEF SmallerOf
  <2> QED BY Zenon, <1>6, <2>1, <2>2 DEF CountedIs
<1>9. PICK g \in Nat \ {0}, h \in Nat \ {0} : g = Pow2[z] /\ h = Pow2[k - 1]
  BY <1>5, Pow2Def
<1>10. Pow2[W - 1] = g * h /\ Pow2[W] = g * (2 * h)
  <2>1. Pow2[z + (k - 1)] = Pow2[z] * Pow2[k - 1]
    BY ZenonT(40), <1>5, Pow2Sum
  <2>2. Pow2[z + k] = Pow2[z] * Pow2[k]
    BY ZenonT(40), Pow2Sum
  <2>3. Pow2[k] = 2 * h
    <3>1. Pow2[(k - 1) + 1] = 2 * Pow2[k - 1] /\ (k - 1) + 1 = k
      BY <1>5, Pow2Def
    <3> QED BY Zenon, <1>9, <3>1
  <2> QED BY Zenon, <1>5, <1>9, <2>1, <2>2, <2>3
<1>11. PICK v \in Nat : v = tot * g /\ g * h <= v /\ v < g * (2 * h)
  <2>1. h <= tot /\ tot < 2 * h
    <3>1. Pow2[(k - 1) + 1] = 2 * Pow2[k - 1] /\ (k - 1) + 1 = k
      BY <1>5, Pow2Def
    <3> QED BY Zenon, <1>3, <1>9, <3>1
  <2>2. tot * g - g * h = g * (tot - h) /\ g * (2 * h) - tot * g = g * (2 * h - tot) /\ g * (tot - h) >= 0 /\ g * (2 * h - tot) > 0
    BY <2>1
  <2>3. PICK a \in Nat, b \in Int, c \in Int : a = tot * g /\ b = g * h /\ c = g * (2 * h)
    OBVIOUS
  <2>4. a - b >= 0 /\ c - a > 0
    BY Zenon, <2>2, <2>3
  <2>5. b <= a /\ a < c
    BY <2>4
  <2> QED BY Zenon, <2>3, <2>5
<1>12. v % Pow2[W] = v /\ v \div Pow2[0] = v /\ W - W = 0
  <2>1. PICK p \in Nat \ {0} : p = Pow2[W]
    BY Pow2Def
  <2>2. v \in 0..(p - 1) /\ v \in Int
    <3>1. v < p
      BY Zenon, <1>10, <1>11, <2>1
    <3> QED BY <3>1
  <2>3. v % p = v
    BY ZenonT(40), <2>2, SmallRemainder
  <2>4. v \div 1 = v /\ W - W = 0
    OBVIOUS
  <2> QED BY Zenon, <2>1, <2>3, <2>4, SmallPowers
<1>13. norm.R = v /\ norm.Count = z
  <2>1. Normalized(W, W, 0, tot)
    BY ZenonT(40), <1>2, NormalizerIs
  <2>2. norm = [R |-> v, Count |-> z, Sticky |-> Flag(((tot * Pow2[z]) % Pow2[W]) % Pow2[W - W] # 0)]
    BY Zenon, <1>1, <1>2, <1>7, <1>8, <1>9, <1>11, <1>12, <2>1 DEF Normalized
  <2> QED BY <2>2
<1>14. z # most
  BY <1>5, <1>7
<1> QED BY Zenon, <1>1, <1>5, <1>7, <1>9, <1>10, <1>11, <1>13, <1>14 DEF NormalizedTo

\* Without a one its count is that of no one.
LEMMA NothingNormalized ==
  ASSUME NEW W \in Nat, 2 <= W
  PROVE  Normalizer(W, W, W, 0, 0).Count = Ones(IntLog2(W)) /\ Normalizer(W, W, W, 0, 0).R = 0
<1>1. 0 \in 0..1 /\ 0 \in Nat /\ W \in 2..W
  OBVIOUS
<1>2. 0 < Pow2[W]
  <2>1. Pow2[W] \in Nat \ {0}
    BY Pow2Def
  <2> QED BY <2>1
<1>3. Normalized(W, W, 0, 0)
  BY ZenonT(40), <1>1, <1>2, NormalizerIs
<1> QED BY Zenon, <1>3 DEF Normalized

-----------------------------------------------------------------------------
(***************************************************************************)
(* The rounded sum.                                                        *)
(***************************************************************************)
\* A rounded exponent and fraction encode the rounded number, in units of 2^E.
LEMMA PackedSumIs ==
  ASSUME NEW f, NumberFormat(f), NEW sign \in 0..1, NEW w, w = Pow2[f.wF],
         NEW q \in w..(2 * w - 1), NEW r \in Int, NEW u \in 0..1, NEW n \in Nat, NEW E \in Int,
         InUnits(n, E, q, r, u),
         NEW v, NEW c \in Int, NEW g \in 0..(Pow2[f.wF] - 1), NEW top \in 0..3, NEW h \in 0..(Pow2[f.wE] - 1),
         RoundedBits(f, E, q - w, u, v, c, g, top, h)
  PROVE  FPEqual(f, Encode(f, IF top = 0 THEN NormalExn ELSE IF top = 1 THEN InfExn ELSE ZeroExn, sign, h, g),
                 Rounded(f, sign, n, 1, -(f.wF + Bias(f))))
<1>1. PICK F \in Nat, B \in Int : F = f.wF /\ B = Bias(f)
  <2>1. Pow2[f.wE - 1] - 1 \in Int /\ f.wF \in Nat
    <3>1. f.wE - 1 \in Nat
      BY DEF NumberFormat
    <3> QED BY <3>1, Pow2Def DEF NumberFormat
  <2> QED BY <2>1 DEF Bias
<1>2. w \in Nat \ {0} /\ q \in Nat
  <2>1. w \in Nat \ {0}
    BY <1>1, Pow2Def
  <2> QED BY <2>1
<1>3. WholeRounds(f, sign, n, -(F + B), E, q, u)
  <2>1. -(F + B) \in Int
    OBVIOUS
  <2> QED BY ZenonT(90), <1>2, <2>1, WholeRoundsIs
<1>4. (-(F + B) + F) + E = E - B /\ ((-(F + B) + F) + E) + 1 = (E + 1) - B
  OBVIOUS
<1>5. FPEqual(f, Encode(f, IF top = 0 THEN NormalExn ELSE IF top = 1 THEN InfExn ELSE ZeroExn, sign, h, g),
              Packed(f, sign, c - B, g))
  <2>1. ResultBits(f, v, c, g, top, h)
    BY Zenon DEF RoundedBits
  <2> QED BY ZenonT(60), <1>1, <2>1, PackedResult
<1>6. Rounded(f, sign, n, 1, -(F + B)) = Packed(f, sign, c - B, g)
  <2>1. CASE q + u = 2 * w
    <3>1. (q - w) + u = w
      BY <1>2, <2>1
    <3>2. c = E + 1 /\ g = 0
      BY Zenon, <3>1 DEF RoundedBits
    <3> QED BY Zenon, <1>1, <1>3, <1>4, <2>1, <3>2 DEF WholeRounds
  <2>2. CASE q + u # 2 * w
    <3>1. (q - w) + u # w /\ (q - w) + u = (q + u) - w
      <4>1. q \in Int /\ w \in Int /\ u \in Int
        BY <1>2
      <4>2. (q - w) + u = (q + u) - w /\ ((q + u) - w = w => q + u = 2 * w)
        BY <4>1
      <4> QED BY Zenon, <2>2, <4>2
    <3>2. c = E /\ g = (q - w) + u
      BY Zenon, <3>1 DEF RoundedBits
    <3> QED BY Zenon, <1>1, <1>3, <1>4, <2>2, <3>1, <3>2 DEF WholeRounds
  <2> QED BY <2>1, <2>2
<1> QED BY Zenon, <1>1, <1>5, <1>6

\* The slices of a vector with one bit more on the right.
SlicedAbove(v, b, lo, n) ==
  Bits(2 * v + b, ((lo + 1) + n) - 1, lo + 1) = Bits(v, (lo + n) - 1, lo)

\* They are those of the vector.
LEMMA SlicedAboveIs ==
  ASSUME NEW v \in Nat, NEW b \in 0..1, NEW lo \in Nat, NEW n \in Nat
  PROVE  SlicedAbove(v, b, lo, n)
<1>1. PICK y \in Nat : y = 2 * v + b
  <2>1. 2 * v + b \in Nat
    OBVIOUS
  <2> QED BY Zenon, <2>1
<1>2. y \div 2 = v
  BY <1>1
<1>3. PICK p \in Nat \ {0} : p = Pow2[lo] /\ Pow2[lo + 1] = 2 * p
  BY Pow2Def
<1>4. (y \div 2) \div p = y \div (2 * p)
  <2>1. y \in Int /\ 2 \in Nat \ {0}
    OBVIOUS
  <2> QED BY ZenonT(40), <2>1, QuotientOfQuotient
<1>5. Bits(y, ((lo + 1) + n) - 1, lo + 1) = (y \div Pow2[lo + 1]) % Pow2[n]
  <2>1. lo + 1 \in Nat /\ y \in Int
    OBVIOUS
  <2> QED BY ZenonT(40), <2>1, BitsDef
<1>6. Bits(v, (lo + n) - 1, lo) = (v \div Pow2[lo]) % Pow2[n]
  <2>1. v \in Int
    OBVIOUS
  <2> QED BY ZenonT(40), <2>1, BitsDef
<1> QED BY Zenon, <1>1, <1>2, <1>3, <1>4, <1>5, <1>6 DEF SlicedAbove

\* The exponent of a sum after its normalization: it fits in two bits more.
SumExponent(f, E) ==
  -(2 * Pow2[f.wE]) <= E /\ E < 2 * Pow2[f.wE] /\ E + 1 < 2 * Pow2[f.wE]

\* The larger exponent, increased by one and reduced by the count of a normalizer.
LEMMA SumExponentIs ==
  ASSUME NEW f, AdderFormat(f), NEW ex \in 0..(Pow2[f.wE] - 1), NEW z \in 0..(f.wF + 4)
  PROVE  SumExponent(f, (ex + 1) - z)
<1>1. PICK F \in Nat \ {0}, e \in Nat \ {0} : F = f.wF /\ e = f.wE
  BY DEF AdderFormat, NumberFormat
<1>2. F + 3 \in Nat /\ 1 <= e /\ 1 \in Nat /\ e \in Nat
  OBVIOUS
<1>3. PICK g \in Nat \ {0} : g = Pow2[e] /\ 2 <= g
  <2>1. Pow2[1] <= Pow2[e]
    BY ZenonT(40), <1>2, Pow2Monotone
  <2>2. Pow2[e] \in Nat \ {0}
    BY Pow2Def
  <2>3. 2 <= Pow2[e]
    BY Zenon, <2>1, SmallPowers
  <2> QED BY Zenon, <2>2, <2>3
<1>4. F + 3 < g
  <2>1. IntLog2(F + 3) \in Nat /\ F + 3 < Pow2[IntLog2(F + 3)]
    BY ZenonT(40), <1>2, IntLog2Bounds
  <2>2. IntLog2(F + 3) <= e
    <3>1. SizeRightShift(f) = IntLog2(F + 3) /\ f.wE >= SizeRightShift(f)
      BY Zenon, <1>1 DEF AdderFormat, SizeRightShift
    <3>2. PICK k \in Nat : k = IntLog2(F + 3)
      BY <2>1
    <3>3. e >= k
      BY Zenon, <1>1, <3>1, <3>2
    <3>4. k <= e
      BY <3>3
    <3> QED BY Zenon, <3>2, <3>4
  <2>3. Pow2[IntLog2(F + 3)] <= Pow2[e]
    BY ZenonT(40), <1>2, <2>1, <2>2, Pow2Monotone
  <2>4. PICK k \in Nat : k = Pow2[IntLog2(F + 3)]
    BY <2>1, Pow2Def
  <2>5. F + 3 < k /\ k <= g
    BY Zenon, <1>3, <2>1, <2>3, <2>4
  <2> QED BY <2>5
<1>5. ex \in 0..(g - 1) /\ z \in 0..(F + 4)
  BY Zenon, <1>1, <1>3
<1>6. -(2 * g) <= (ex + 1) - z /\ (ex + 1) - z < 2 * g /\ ((ex + 1) - z) + 1 < 2 * g
  BY <1>3, <1>4, <1>5
<1> QED BY Zenon, <1>1, <1>3, <1>6 DEF SumExponent

\* What the rounding of the single path looks at: the significand q, its next bit m and the
\* rest i below it.
SingleSees(f, v, q, s, u) ==
  \E m \in 0..1 :
    /\ u <= m
    /\ Bits(v, f.wF + 3, 3) = 2 * (q - Pow2[f.wF]) + m
    /\ Flag(BitOf(v, 3) = 1 /\ (Bits(v, 2, 0) # 0 \/ BitOf(v, 4) = 1)) = u

\* They are those of the sum, four bits below its significand.
LEMMA SingleSeesIs ==
  ASSUME NEW f, NumberFormat(f), NEW w, w = Pow2[f.wF], NEW q \in w..(2 * w - 1), NEW s \in 0..15,
         NEW v, v = 16 * q + s, NEW u \in 0..1, NearestUp(q, s, 16, u)
  PROVE  SingleSees(f, v, q, s, u)
<1>1. PICK F \in Nat : F = f.wF
  BY DEF NumberFormat
<1>2. w \in Nat \ {0} /\ q \in Nat
  <2>1. w \in Nat \ {0}
    BY <1>1, Pow2Def
  <2> QED BY <2>1
<1>3. v \in Nat
  BY <1>2
<1>4. PICK m \in 0..1, i \in 0..7 : s = 8 * m + i
  <2>1. CASE s < 8
    <3>1. 0 \in 0..1 /\ s \in 0..7 /\ s = 8 * 0 + s
      BY <2>1
    <3> QED BY <3>1
  <2>2. CASE 8 <= s
    <3>1. 1 \in 0..1 /\ s - 8 \in 0..7 /\ s = 8 * 1 + (s - 8)
      BY <2>2
    <3> QED BY <3>1
  <2> QED BY <2>1, <2>2
<1>5. v \div 8 = 2 * q + m /\ v % 8 = i /\ v \div 16 = q /\ v \in Int
  BY <1>2, <1>4
<1>6. u <= m /\ (u = 1 <=> m = 1 /\ (i # 0 \/ q % 2 = 1))
  <2>1. (2 * s > 16 <=> m = 1 /\ i # 0) /\ (2 * s = 16 <=> m = 1 /\ i = 0)
    BY <1>4
  <2>2. u = 1 <=> m = 1 /\ (i # 0 \/ q % 2 = 1)
    BY Zenon, <2>1 DEF NearestUp
  <2> QED BY <2>2
<1>7. Bits(v, F + 3, 3) = 2 * (q - w) + m
  <2>1. Bits(v, (3 + (F + 1)) - 1, 3) = (v \div Pow2[3]) % Pow2[F + 1]
    <3>1. 3 \in Nat /\ F + 1 \in Nat /\ v \in Int
      BY <1>5
    <3> QED BY ZenonT(40), <3>1, BitsDef
  <2>2. (3 + (F + 1)) - 1 = F + 3
    OBVIOUS
  <2>3. Pow2[F + 1] = 2 * w
    BY Zenon, <1>1, Pow2Def
  <2>4. PICK j \in 0..(2 * w - 1) : j = 2 * (q - w) + m
    <3>1. 2 * (q - w) + m \in 0..(2 * w - 1)
      BY <1>2
    <3> QED BY Zenon, <3>1
  <2>5. 2 * q + m = (2 * w) * 1 + j
    BY <1>2, <2>4
  <2>6. ((2 * w) * 1 + j) % (2 * w) = j
    <3>1. PICK c \in Nat \ {0} : c = 2 * w
      BY <1>2
    <3>2. j \in 0..(c - 1) /\ 1 \in Int
      BY <3>1
    <3>3. (c * 1 + j) % c = j
      BY ZenonT(40), <3>2, DivisionUnique
    <3> QED BY Zenon, <3>1, <3>3
  <2> QED BY Zenon, <1>5, <2>1, <2>2, <2>3, <2>4, <2>5, <2>6, SmallPowers
<1>8. BitOf(v, 3) = m /\ BitOf(v, 4) = q % 2
  <2>1. (2 * q + m) % 2 = m
    BY <1>2
  <2> QED BY Zenon, <1>5, <2>1, SmallPowers DEF BitOf
<1>9. Bits(v, 2, 0) = i
  <2>1. 0 \in Nat /\ 3 \in Nat /\ (0 + 3) - 1 = 2 /\ v \div 1 = v
    BY <1>5
  <2>2. Bits(v, (0 + 3) - 1, 0) = (v \div Pow2[0]) % Pow2[3]
    BY ZenonT(40), <1>5, <2>1, BitsDef
  <2> QED BY Zenon, <1>5, <2>1, <2>2, SmallPowers
<1>10. Flag(BitOf(v, 3) = 1 /\ (Bits(v, 2, 0) # 0 \/ BitOf(v, 4) = 1)) = u
  <2>1. u = 0 \/ u = 1
    OBVIOUS
  <2>2. u = 0 => u # 1
    OBVIOUS
  <2> QED BY Zenon, <1>6, <1>8, <1>9, <2>1, <2>2 DEF Flag
<1> QED BY Zenon, <1>1, <1>6, <1>7, <1>10 DEF SingleSees

\* The slices of the rounded sum.
SingleSlices(f, rounded, top, h, g) ==
  /\ Bits(rounded, f.wE + f.wF + 2, f.wE + f.wF + 1) = top
  /\ Bits(rounded, f.wE + f.wF, f.wF + 1) = h
  /\ Bits(rounded, f.wF, 1) = g

\* The rounding of the single path is that of its significand.
LEMMA SingleSlicesAre ==
  ASSUME NEW f, AdderFormat(f), NEW w, w = Pow2[f.wF],
         NEW q \in w..(2 * w - 1), NEW s \in 0..15, NEW v, v = 16 * q + s,
         NEW u \in 0..1, NearestUp(q, s, 16, u), NEW ex \in 0..(Pow2[f.wE] - 1), NEW z \in 0..(f.wF + 4),
         NEW norm, norm.R = v, norm.Count = z
  PROVE  \E b, c \in Int, g \in 0..(Pow2[f.wF] - 1), top \in 0..3, h \in 0..(Pow2[f.wE] - 1) :
           /\ RoundedBits(f, (ex + 1) - z, q - w, u, b, c, g, top, h)
           /\ SingleSlices(f, SingleRounded(f, ex, norm), top, h, g)
<1>1. PICK F \in Nat \ {0}, e \in Nat \ {0} : F = f.wF /\ e = f.wE
  BY DEF AdderFormat, NumberFormat
<1>2. NumberFormat(f)
  BY DEF AdderFormat
<1>3. PICK g0 \in Nat \ {0} : g0 = Pow2[e] /\ Pow2[e + 2] = 4 * g0
  <2>1. e \in Nat /\ 2 \in Nat
    OBVIOUS
  <2>2. Pow2[e + 2] = Pow2[e] * Pow2[2]
    BY ZenonT(40), <2>1, Pow2Sum
  <2>3. PICK g0 \in Nat \ {0} : g0 = Pow2[e]
    BY Pow2Def
  <2>4. Pow2[e + 2] = g0 * 4
    BY Zenon, <2>2, <2>3, SmallPowers
  <2> QED BY <2>3, <2>4
<1>4. w \in Nat \ {0} /\ w = Pow2[F] /\ Pow2[F + 1] = 2 * w
  <2>1. F \in Nat
    OBVIOUS
  <2>2. Pow2[F] \in Nat \ {0} /\ Pow2[F + 1] = 2 * Pow2[F]
    BY Zenon, <2>1, Pow2Def
  <2> QED BY Zenon, <1>1, <2>2
<1>5. PICK M \in Nat \ {0} : M = Pow2[(e + F) + 2] /\ Pow2[(e + F) + 3] = 2 * M
  <2>1. (e + F) + 2 \in Nat /\ ((e + F) + 2) + 1 = (e + F) + 3
    OBVIOUS
  <2>2. Pow2[((e + F) + 2) + 1] = 2 * Pow2[(e + F) + 2] /\ Pow2[(e + F) + 2] \in Nat \ {0}
    BY ZenonT(40), <2>1, Pow2Def
  <2> QED BY Zenon, <2>1, <2>2
<1>6. PICK E \in Int, fr \in 0..(w - 1) : E = (ex + 1) - z /\ fr = q - w
  <2>1. q - w \in 0..(w - 1)
    BY <1>4
  <2>2. (ex + 1) - z \in Int
    <3>1. z \in Int /\ ex \in Int
      OBVIOUS
    <3> QED BY <3>1
  <2> QED BY Zenon, <2>1, <2>2
<1>7. SumExponent(f, E)
  BY ZenonT(60), <1>6, SumExponentIs
<1>8. PICK y \in Nat : y = (E % (4 * g0)) * w + fr + u
  <2>1. E % (4 * g0) \in Nat
    BY <1>3
  <2>2. PICK i \in Nat : i = E % (4 * g0)
    BY <2>1
  <2>3. i * w + fr + u \in Nat
    BY <1>4
  <2> QED BY Zenon, <2>2, <2>3
<1>9. PICK b \in Nat : b = y % M
  OBVIOUS
<1>10. PICK c \in Int, g \in 0..(Pow2[f.wF] - 1), top \in 0..3, h \in 0..(Pow2[f.wE] - 1) :
         RoundedBits(f, E, fr, u, b, c, g, top, h)
  <2>1. b = ((E % Pow2[f.wE + 2]) * Pow2[f.wF] + fr + u) % Pow2[f.wE + f.wF + 2]
    BY Zenon, <1>1, <1>3, <1>4, <1>5, <1>8, <1>9
  <2>2. fr \in 0..(Pow2[f.wF] - 1)
    BY Zenon, <1>1, <1>4
  <2>3. -(2 * Pow2[f.wE]) <= E /\ E < 2 * Pow2[f.wE] /\ (fr + u = Pow2[f.wF] => E + 1 < 2 * Pow2[f.wE])
    BY Zenon, <1>7 DEF SumExponent
  <2> QED BY ZenonT(90), <1>2, <2>1, <2>2, <2>3, RoundedBitsAre
<1>11. PICK m \in 0..1 : /\ u <= m
                         /\ Bits(v, F + 3, 3) = 2 * fr + m
                         /\ Flag(BitOf(v, 3) = 1 /\ (Bits(v, 2, 0) # 0 \/ BitOf(v, 4) = 1)) = u
  <2>1. SingleSees(f, v, q, s, u)
    BY ZenonT(60), <1>2, SingleSeesIs
  <2> QED BY Zenon, <1>1, <1>4, <1>6, <2>1 DEF SingleSees
<1>12. PICK k \in 0..1 : m + u = 2 * u + k
  <2>1. m - u \in 0..1 /\ m + u = 2 * u + (m - u)
    BY <1>11
  <2> QED BY <2>1
<1>13. SingleRounded(f, ex, norm) = 2 * b + k
  <2>1. PICK a \in Nat : a = E % (4 * g0)
    BY <1>3
  <2>2. (ex + 1 - norm.Count) % Pow2[f.wE + 2] = a
    <3>1. Pow2[f.wE + 2] = 4 * g0
      BY Zenon, <1>1, <1>3
    <3>2. ex + 1 - norm.Count = E
      <4>1. norm.Count = z
        OBVIOUS
      <4> QED BY <1>6, <4>1
    <3> QED BY Zenon, <2>1, <3>1, <3>2
  <2>3. SingleRounded(f, ex, norm) = (a * (2 * w) + (2 * fr + m) + 0 + u) % (2 * M)
    BY Zenon, <1>1, <1>4, <1>5, <1>11, <2>2 DEF SingleRounded, IntAdder, Cat
  <2>4. a * (2 * w) + (2 * fr + m) + 0 + u = 2 * y + k
    <3>1. a * (2 * w) = 2 * (a * w)
      BY <1>4
    <3>2. PICK p \in Int : p = a * w
      BY <1>4
    <3>3. y = p + fr + u
      BY Zenon, <1>8, <2>1, <3>2
    <3>4. fr \in Int /\ 2 * p + (2 * fr + m) + 0 + u = 2 * y + k
      BY <1>12, <3>3
    <3> QED BY Zenon, <3>1, <3>2, <3>4
  <2>5. PICK i \in Nat : y = M * i + b /\ b \in 0..(M - 1)
    <3>1. \E i \in Nat, j \in 0..(M - 1) : y = M * i + j /\ i = y \div M /\ j = y % M /\ j <= y /\ M * i <= y
      BY ZenonT(40), NaturalDivision
    <3> QED BY Zenon, <1>9, <3>1
  <2>6. 2 * y + k = (2 * M) * i + (2 * b + k) /\ 2 * b + k \in 0..(2 * M - 1)
    <3>1. (2 * M) * i = 2 * (M * i)
      OBVIOUS
    <3>2. PICK p \in Int : p = M * i
      OBVIOUS
    <3>3. y = p + b
      BY Zenon, <2>5, <3>2
    <3>4. 2 * y + k = 2 * p + (2 * b + k)
      BY <3>3
    <3>5. 2 * b + k \in 0..(2 * M - 1)
      BY <2>5
    <3> QED BY Zenon, <3>1, <3>2, <3>4, <3>5
  <2>7. ((2 * M) * i + (2 * b + k)) % (2 * M) = 2 * b + k
    <3>0. PICK p \in Nat \ {0} : p = 2 * M
      OBVIOUS
    <3>1. PICK j \in 0..(p - 1) : j = 2 * b + k
      BY Zenon, <2>6, <3>0
    <3>2. i \in Int
      OBVIOUS
    <3>3. (p * i + j) % p = j
      BY ZenonT(40), <3>2, DivisionUnique
    <3> QED BY Zenon, <3>0, <3>1, <3>3
  <2> QED BY Zenon, <2>3, <2>4, <2>6, <2>7
<1>14. \A lo \in Nat, n \in Nat : Bits(2 * b + k, ((lo + 1) + n) - 1, lo + 1) = Bits(b, (lo + n) - 1, lo)
  <2>1. \A lo \in Nat, n \in Nat : SlicedAbove(b, k, lo, n)
    BY ZenonT(40), SlicedAboveIs
  <2> QED BY Zenon, <2>1 DEF SlicedAbove
<1>15. SingleSlices(f, 2 * b + k, top, h, g)
  <2>1. ResultBits(f, b, c, g, top, h)
    BY Zenon, <1>10 DEF RoundedBits
  <2>2. /\ Bits(b, (e + F) + 1, e + F) = top
        /\ Bits(b, (e + F) - 1, F) = h
        /\ Bits(b, F - 1, 0) = g
    <3>1. f.wE + f.wF = e + F /\ f.wF = F
      BY Zenon, <1>1
    <3>2. /\ Bits(b, f.wE + f.wF + 1, f.wE + f.wF) = top
          /\ Bits(b, f.wE + f.wF - 1, f.wF) = h
          /\ Bits(b, f.wF - 1, 0) = g
      BY Zenon, <2>1 DEF ResultBits
    <3>3. f.wE + f.wF + 1 = (e + F) + 1 /\ f.wE + f.wF - 1 = (e + F) - 1 /\ f.wF - 1 = F - 1
      <4>1. e + (F - 1) = (e + F) - 1
        OBVIOUS
      <4>2. f.wE + (f.wF - 1) = (e + F) - 1
        BY Zenon, <1>1, <4>1
      <4> QED BY Zenon, <1>1, <4>2
    <3>4. Bits(b, (e + F) + 1, e + F) = top
      BY Zenon, <3>1, <3>2, <3>3
    <3>5. Bits(b, (e + F) - 1, F) = h
      BY Zenon, <3>1, <3>2, <3>3
    <3>6. Bits(b, F - 1, 0) = g
      BY Zenon, <3>2, <3>3
    <3> QED BY Zenon, <3>4, <3>5, <3>6
  <2>3. Bits(2 * b + k, (((e + F) + 1) + 2) - 1, (e + F) + 1) = Bits(b, ((e + F) + 2) - 1, e + F)
    <3>1. e + F \in Nat /\ 2 \in Nat
      OBVIOUS
    <3> QED BY Zenon, <1>14, <3>1
  <2>4. Bits(2 * b + k, ((F + 1) + e) - 1, F + 1) = Bits(b, (F + e) - 1, F)
    <3>1. F \in Nat /\ e \in Nat
      OBVIOUS
    <3> QED BY Zenon, <1>14, <3>1
  <2>5. Bits(2 * b + k, ((0 + 1) + F) - 1, 0 + 1) = Bits(b, (0 + F) - 1, 0)
    <3>1. F \in Nat /\ 0 \in Nat
      OBVIOUS
    <3> QED BY Zenon, <1>14, <3>1
  <2>6. /\ (((e + F) + 1) + 2) - 1 = (e + F) + 2 /\ ((e + F) + 2) - 1 = (e + F) + 1
        /\ ((F + 1) + e) - 1 = e + F /\ (F + e) - 1 = (e + F) - 1
        /\ ((0 + 1) + F) - 1 = F /\ 0 + 1 = 1 /\ (0 + F) - 1 = F - 1
    OBVIOUS
  <2> QED BY Zenon, <1>1, <2>2, <2>3, <2>4, <2>5, <2>6 DEF SingleSlices
<1>16. RoundedBits(f, (ex + 1) - z, q - w, u, b, c, g, top, h)
  BY Zenon, <1>6, <1>10
<1>17. SingleSlices(f, SingleRounded(f, ex, norm), top, h, g)
  BY Zenon, <1>13, <1>15
<1>18. b \in Int
  OBVIOUS
<1> QED BY Zenon, <1>10, <1>16, <1>17, <1>18

\* What the normalizer and the rounding make of the sum n of two operands.
Packs(f, rounded, sign, n) ==
  \E g \in 0..(Pow2[f.wF] - 1), top \in 0..3, h \in 0..(Pow2[f.wE] - 1) :
    /\ SingleSlices(f, rounded, top, h, g)
    /\ FPEqual(f, Encode(f, IF top = 0 THEN NormalExn ELSE IF top = 1 THEN InfExn ELSE ZeroExn, sign, h, g),
               Rounded(f, sign, n, 1, -(f.wF + Bias(f))))
SingleOutcome(f, ex, norm, sign, n) ==
  IF n = 0 THEN norm.Count = Ones(IntLog2(f.wF + 5))
  ELSE norm.Count # Ones(IntLog2(f.wF + 5)) /\ Packs(f, SingleRounded(f, ex, norm), sign, n)

\* The sum with its sticky bit, split at the significand that is rounded.
SumSplit(w, tot, l, z, q, s) ==
  tot * Pow2[z] = 16 * q + s /\ (l # 0 => z <= 2)
LEMMA SumSplitIs ==
  ASSUME NEW w \in Nat \ {0}, NEW tot \in Nat, NEW l, l # 0 => 4 * w <= tot, NEW z \in Nat, NEW v \in Nat,
         v = tot * Pow2[z], 16 * w <= v, v < 32 * w
  PROVE  \E q \in w..(2 * w - 1), s \in 0..15 : SumSplit(w, tot, l, z, q, s)
<1>1. PICK q \in Nat, s \in 0..15 : v = 16 * q + s
  <2>1. v \div 16 \in Nat /\ v % 16 \in 0..15 /\ v = (16 * (v \div 16)) + (v % 16)
    OBVIOUS
  <2> QED BY <2>1
<1>2. q \in w..(2 * w - 1)
  BY <1>1
<1>3. ASSUME l # 0
      PROVE  z <= 2
  <2>1. SUFFICES ASSUME 3 <= z
                 PROVE  FALSE
    OBVIOUS
  <2>2. 8 <= Pow2[z] /\ Pow2[z] \in Nat
    <3>1. 3 \in Nat
      OBVIOUS
    <3>2. Pow2[3] <= Pow2[z]
      BY ZenonT(40), <2>1, <3>1, Pow2Monotone
    <3>3. Pow2[z] \in Nat /\ Pow2[3] = 8
      <4>1. Pow2[z] \in Nat \ {0}
        BY Pow2Def
      <4> QED BY <4>1, SmallPowers
    <3> QED BY Zenon, <3>2, <3>3
  <2>3. PICK g \in Nat : g = Pow2[z] /\ 8 <= g
    BY Zenon, <2>2
  <2>4. tot * 8 <= tot * g
    <3>1. PICK i \in Nat : g = 8 + i
      <4>1. g - 8 \in Nat /\ g = 8 + (g - 8)
        BY <2>3
      <4> QED BY <4>1
    <3>2. tot * i \in Nat
      OBVIOUS
    <3>3. tot * g = tot * 8 + tot * i
      BY <3>1
    <3> QED BY <3>2, <3>3
  <2>5. v = tot * g
    BY Zenon, <2>3
  <2>6. tot * g \in Nat
    BY <2>3
  <2> QED BY <1>3, <2>4, <2>5, <2>6
<1>4. tot * Pow2[z] = 16 * q + s
  BY Zenon, <1>1
<1> QED BY Zenon, <1>2, <1>3, <1>4 DEF SumSplit

\* The alignment, the sum, the normalizer and the rounding compute the rounded sum.
LEMMA SingleOutcomeIs ==
  ASSUME NEW f, AdderFormat(f), NEW w \in Nat \ {0}, w = Pow2[f.wF],
         NEW a \in w..(2 * w - 1), NEW b \in 0..(2 * w - 1), NEW effSub \in 0..1,
         NEW sv \in 0..Ones(SizeRightShift(f)), NEW ex \in 0..(Pow2[f.wE] - 1),
         NEW D \in 0..ex, Distance(f, b, sv, D),
         NEW P \in Nat \ {0}, P = Pow2[D], NEW N \in Nat, N = ExactSumOf(a, b, P, effSub),
         NEW norm, norm = Normalizer(f.wF + 5, f.wF + 5, f.wF + 5, 0,
                                     Cat(FracSum(f, a, Aligned(f, b, sv), effSub), 1, Aligned(f, b, sv).Sticky)),
         NEW sign \in 0..1
  PROVE  SingleOutcome(f, ex, norm, sign, Pow2[ex - D] * N)
<1>1. PICK F \in Nat \ {0} : F = f.wF
  BY DEF AdderFormat, NumberFormat
<1>2. NumberFormat(f) /\ D \in Nat /\ ex \in Nat
  <2>1. D \in Nat /\ ex \in Nat
    OBVIOUS
  <2> QED BY Zenon, <2>1 DEF AdderFormat
<1>3. PICK t \in Nat, l \in 0..(P - 1) : AlignedSum(f, a, b, sv, effSub, w, D, P, N, t, l)
  BY ZenonT(90), <1>2, AlignedSumIs
<1>4. PICK tot \in Nat : tot = 2 * t + Flag(l # 0)
  <2>1. Flag(l # 0) \in Nat
    BY DEF Flag
  <2> QED BY <2>1
<1>5. Cat(FracSum(f, a, Aligned(f, b, sv), effSub), 1, Aligned(f, b, sv).Sticky) = tot
  <2>1. Cat(FracSum(f, a, Aligned(f, b, sv), effSub), 1, Aligned(f, b, sv).Sticky) = t * 2 + Flag(l # 0)
    BY Zenon, <1>3, SmallPowers DEF AlignedSum, Cat
  <2>2. t * 2 = 2 * t
    OBVIOUS
  <2> QED BY Zenon, <1>4, <2>1, <2>2
<1>6. 4 * N = P * t + l /\ t < 16 * w /\ (l # 0 => 4 * w <= 2 * t + 1)
  BY Zenon, <1>3 DEF AlignedSum, SumParts
<1>7. tot < 32 * w /\ (l # 0 => 4 * w <= tot) /\ (tot = 0 => t = 0 /\ l = 0)
  <2>1. (l # 0 => Flag(l # 0) = 1) /\ (l = 0 => Flag(l # 0) = 0)
    BY Zenon DEF Flag
  <2> QED BY <1>4, <1>6, <2>1
<1>8. Pow2[F + 5] = 32 * w /\ Pow2[(F + 5) - 1] = 16 * w
  <2>1. F \in Nat /\ 4 \in Nat /\ F + 4 \in Nat /\ (F + 4) + 1 = F + 5 /\ (F + 5) - 1 = F + 4
    OBVIOUS
  <2>2. Pow2[F + 4] = Pow2[F] * Pow2[4]
    BY ZenonT(40), <2>1, Pow2Sum
  <2>3. Pow2[F + 4] = w * 16
    BY Zenon, <1>1, <2>2, SmallPowers
  <2>4. Pow2[(F + 4) + 1] = 2 * Pow2[F + 4]
    BY Zenon, <2>1, Pow2Def
  <2>5. PICK i \in Nat : i = Pow2[F + 4]
    BY <2>3
  <2>6. i = 16 * w /\ 2 * i = 32 * w
    BY <2>3, <2>5
  <2> QED BY Zenon, <2>1, <2>4, <2>5, <2>6
<1>9. ex - D \in Nat
  OBVIOUS
<1>10. PICK G \in Nat \ {0} : G = Pow2[ex - D]
  BY <1>9, Pow2Def
<1>11. F + 5 \in Nat /\ 2 <= F + 5
  OBVIOUS
<1>12. CASE tot = 0
  <2>1. N = 0
    BY <1>6, <1>7, <1>12
  <2>2. Pow2[ex - D] * N = 0
    <3>1. G * 0 = 0
      OBVIOUS
    <3> QED BY Zenon, <1>10, <2>1, <3>1
  <2>3. norm.Count = Ones(IntLog2(f.wF + 5))
    <3>1. Normalizer(F + 5, F + 5, F + 5, 0, 0).Count = Ones(IntLog2(F + 5))
      BY ZenonT(40), <1>11, NothingNormalized
    <3> QED BY Zenon, <1>1, <1>5, <1>12, <3>1
  <2> QED BY Zenon, <2>2, <2>3 DEF SingleOutcome
<1>13. CASE tot # 0
  <2>1. Pow2[ex - D] * N # 0
    <3>1. N # 0
      <4>1. SUFFICES ASSUME N = 0
                     PROVE  FALSE
        OBVIOUS
      <4>2. PICK i \in Nat : i = P * t
        OBVIOUS
      <4>3. l = 0 /\ i = 0
        BY <1>6, <4>1, <4>2
      <4>4. t = 0
        BY <4>2, <4>3
      <4>5. Flag(l # 0) = 0
        BY Zenon, <4>3 DEF Flag
      <4> QED BY <1>4, <1>13, <4>4, <4>5
    <3>2. G * N # 0
      BY <3>1
    <3> QED BY Zenon, <1>10, <3>2
  <2>2. PICK z \in Nat, v \in Nat : NormalizedTo(F + 5, tot, z, v, Normalizer(F + 5, F + 5, F + 5, 0, tot))
    <3>1. tot \in Nat \ {0} /\ tot < Pow2[F + 5]
      BY <1>7, <1>8, <1>13
    <3> QED BY ZenonT(40), <1>11, <3>1, NormalizedToIs
  <2>3. norm = Normalizer(F + 5, F + 5, F + 5, 0, tot)
    BY Zenon, <1>1, <1>5
  <2>4. /\ v = tot * Pow2[z] /\ 16 * w <= v /\ v < 32 * w /\ norm.R = v /\ norm.Count = z /\ z < F + 5
        /\ norm.Count # Ones(IntLog2(F + 5))
    BY Zenon, <1>8, <2>2, <2>3 DEF NormalizedTo
  <2>5. PICK q \in w..(2 * w - 1), s \in 0..15 : SumSplit(w, tot, l, z, q, s)
    BY ZenonT(60), <1>7, <2>4, SumSplitIs
  <2>6. v = 16 * q + s /\ (l # 0 => z <= 2)
    BY Zenon, <2>4, <2>5 DEF SumSplit
  <2>7. PICK u \in 0..1 : NearestUp(q, s, 16, u)
    <3>1. 0 \in 0..1 /\ 1 \in 0..1 /\ 0 # 1
      OBVIOUS
    <3> QED BY Zenon, <3>1 DEF NearestUp
  <2>8. z \in 0..(f.wF + 4)
    <3>1. z \in 0..(F + 4)
      BY <2>4
    <3> QED BY Zenon, <1>1, <3>1
  <2>9. PICK b2, c \in Int, g \in 0..(Pow2[f.wF] - 1), top \in 0..3, h \in 0..(Pow2[f.wE] - 1) :
           /\ RoundedBits(f, (ex + 1) - z, q - w, u, b2, c, g, top, h)
           /\ SingleSlices(f, SingleRounded(f, ex, norm), top, h, g)
    BY ZenonT(90), <2>4, <2>6, <2>7, <2>8, SingleSlicesAre
  <2>10. PICK r \in Int : InUnits(Pow2[ex - D] * N, (ex + 1) - z, q, r, u)
    <3>1. q \in Nat /\ (2 * t + Flag(l # 0)) * Pow2[z] = 16 * q + s
      <4>1. q \in Nat
        OBVIOUS
      <4> QED BY Zenon, <1>4, <2>4, <2>6, <4>1
    <3> QED BY ZenonT(90), <1>2, <1>6, <2>6, <2>7, <3>1, AlignedUnits
  <2>11. Pow2[ex - D] * N \in Nat /\ (ex + 1) - z \in Int
    <3>1. G * N \in Nat /\ (ex + 1) - z \in Int
      OBVIOUS
    <3> QED BY Zenon, <1>10, <3>1
  <2>12. FPEqual(f, Encode(f, IF top = 0 THEN NormalExn ELSE IF top = 1 THEN InfExn ELSE ZeroExn, sign, h, g),
                 Rounded(f, sign, Pow2[ex - D] * N, 1, -(f.wF + Bias(f))))
    BY ZenonT(90), <1>2, <2>9, <2>10, <2>11, PackedSumIs
  <2>13. Packs(f, SingleRounded(f, ex, norm), sign, Pow2[ex - D] * N)
    BY Zenon, <2>9, <2>12 DEF Packs
  <2>14. norm.Count # Ones(IntLog2(f.wF + 5))
    BY Zenon, <1>1, <2>4
  <2> QED BY Zenon, <2>1, <2>13, <2>14 DEF SingleOutcome
<1> QED BY Zenon, <1>12, <1>13

-----------------------------------------------------------------------------
(***************************************************************************)
(* The operands: a number is the encoding of its four fields.              *)
(***************************************************************************)
Fields(f, x, exn, s, e, fr) ==
  /\ exn \in 0..3 /\ s \in 0..1 /\ e \in 0..(Pow2[f.wE] - 1) /\ fr \in 0..(Pow2[f.wF] - 1)
  /\ x = Encode(f, exn, s, e, fr)
  /\ Exn(f, x) = exn /\ Sign(f, x) = s /\ Exponent(f, x) = e
  /\ Significand(f, x) = Pow2[f.wF] + fr
  /\ Bits(x, f.wE + f.wF - 1, 0) = e * Pow2[f.wF] + fr

\* The fields of an encoding are those that are encoded.
LEMMA EncodingHasParts ==
  ASSUME NEW f, NumberFormat(f), NEW exn \in 0..3, NEW s \in 0..1,
         NEW e \in 0..(Pow2[f.wE] - 1), NEW fr \in 0..(Pow2[f.wF] - 1)
  PROVE  Fields(f, Encode(f, exn, s, e, fr), exn, s, e, fr)
<1>1. PICK F \in Nat, D \in Nat : F = f.wF /\ D = f.wE
  BY DEF NumberFormat
<1>2. PICK w \in Nat \ {0}, G \in Nat \ {0} : w = Pow2[F] /\ G = Pow2[D]
  BY Pow2Def
<1>3. Exn(f, Encode(f, exn, s, e, fr)) = exn /\ Sign(f, Encode(f, exn, s, e, fr)) = s
  BY ZenonT(40), EncodedFields
<1>4. e \in 0..(G - 1) /\ fr \in 0..(w - 1)
  BY Zenon, <1>1, <1>2
<1>5. PICK c \in Nat : c = exn * 2 + s
  OBVIOUS
<1>6. PICK x \in Nat : x = (c * G + e) * w + fr /\ x = Encode(f, exn, s, e, fr)
  <2>1. Encode(f, exn, s, e, fr) = (c * G + e) * w + fr
    BY Zenon, <1>1, <1>2, <1>5, SmallPowers DEF Encode, Cat
  <2>2. PICK i \in Nat : i = c * G + e
    <3>1. c * G \in Nat
      OBVIOUS
    <3> QED BY <1>4, <3>1
  <2>3. i * w + fr \in Nat
    <3>1. i * w \in Nat
      OBVIOUS
    <3> QED BY <1>4, <3>1
  <2> QED BY Zenon, <2>1, <2>2, <2>3
<1>7. x \in Int
  OBVIOUS
<1>8. Exponent(f, x) = e
  <2>1. Bits(x, (F + D) - 1, F) = (x \div w) % G
    BY ZenonT(40), <1>2, <1>7, BitsDef
  <2>2. x \div w = c * G + e
    <3>1. PICK i \in Int : i = c * G + e
      BY <1>4
    <3>2. (w * i + fr) \div w = i
      BY ZenonT(40), <1>4, <3>1, DivisionUnique
    <3>3. i * w = w * i
      OBVIOUS
    <3> QED BY Zenon, <1>6, <3>1, <3>2, <3>3
  <2>3. (c * G + e) % G = e
    <3>1. c \in Int /\ c * G = G * c
      OBVIOUS
    <3>2. (G * c + e) % G = e
      BY ZenonT(40), <1>4, <3>1, DivisionUnique
    <3> QED BY Zenon, <3>1, <3>2
  <2>4. f.wE + f.wF - 1 = (F + D) - 1
    <3>1. D + (F - 1) = (F + D) - 1
      OBVIOUS
    <3> QED BY Zenon, <1>1, <3>1
  <2> QED BY Zenon, <1>1, <2>1, <2>2, <2>3, <2>4 DEF Exponent
<1>9. x \div Pow2[0] = x
  <2>1. x \div 1 = x
    OBVIOUS
  <2> QED BY Zenon, <2>1, SmallPowers
<1>10. Significand(f, x) = Pow2[f.wF] + fr
  <2>1. 0 \in Nat /\ (0 + F) - 1 = F - 1
    OBVIOUS
  <2>2. Bits(x, (0 + F) - 1, 0) = (x \div Pow2[0]) % w
    BY ZenonT(40), <1>2, <1>7, <2>1, BitsDef
  <2>3. x % w = fr
    <3>1. PICK i \in Int : i = c * G + e
      BY <1>4
    <3>2. (w * i + fr) % w = fr
      BY ZenonT(40), <1>4, <3>1, DivisionUnique
    <3>3. i * w = w * i
      OBVIOUS
    <3> QED BY Zenon, <1>6, <3>1, <3>2, <3>3
  <2> QED BY Zenon, <1>1, <1>9, <2>1, <2>2, <2>3 DEF Significand, Fraction
<1>11. Bits(x, f.wE + f.wF - 1, 0) = e * Pow2[f.wF] + fr
  <2>1. 0 \in Nat /\ D + F \in Nat /\ (0 + (D + F)) - 1 = D + (F - 1)
    OBVIOUS
  <2>2. Bits(x, (0 + (D + F)) - 1, 0) = (x \div Pow2[0]) % Pow2[D + F]
    BY ZenonT(40), <1>7, <2>1, BitsDef
  <2>3. PICK p \in Nat \ {0} : p = G * w /\ p = Pow2[D + F]
    <3>1. Pow2[D + F] = Pow2[D] * Pow2[F]
      BY ZenonT(40), Pow2Sum
    <3>2. G * w \in Nat \ {0}
      OBVIOUS
    <3> QED BY Zenon, <1>2, <3>1, <3>2
  <2>4. PICK j \in 0..(p - 1) : j = e * w + fr
    <3>1. e * w <= (G - 1) * w /\ (G - 1) * w = G * w - w /\ e * w \in Nat
      <4>1. PICK i \in Nat : e + i = G - 1
        <5>1. (G - 1) - e \in Nat /\ e + ((G - 1) - e) = G - 1
          BY <1>4
        <5> QED BY <5>1
      <4>2. (e + i) * w = e * w + i * w /\ i * w \in Nat /\ e * w \in Nat
        BY <1>4
      <4>3. (G - 1) * w = G * w - w /\ (G - 1) * w \in Int
        OBVIOUS
      <4>4. (G - 1) * w = e * w + i * w
        BY Zenon, <4>1, <4>2
      <4>5. PICK a1, a2, a3 \in Int : a1 = e * w /\ a2 = i * w /\ a3 = (G - 1) * w
        BY <4>2, <4>3
      <4>6. a1 <= a3
        <5>1. a3 = a1 + a2 /\ a2 \in Nat
          BY Zenon, <4>2, <4>4, <4>5
        <5> QED BY <5>1
      <4> QED BY Zenon, <4>2, <4>3, <4>5, <4>6
    <3>2. PICK i \in Nat : i = e * w
      BY <3>1
    <3>3. i <= p - w
      <4>1. i <= G * w - w
        <5>1. i <= (G - 1) * w
          BY Zenon, <3>1, <3>2
        <5> QED BY Zenon, <3>1, <5>1
      <4> QED BY Zenon, <2>3, <4>1
    <3>4. i + fr \in 0..(p - 1)
      BY <1>4, <3>3
    <3> QED BY Zenon, <3>2, <3>4
  <2>5. x = p * c + j
    <3>1. PICK i1, i2 \in Int : i1 = c * G /\ i2 = e * w
      BY <1>4
    <3>2. (c * G + e) * w = (c * G) * w + e * w
      BY <1>4
    <3>3. (c * G) * w = (G * w) * c
      OBVIOUS
    <3>4. PICK i3 \in Int : i3 = (G * w) * c
      OBVIOUS
    <3>5. (i3 + i2) + fr = i3 + (i2 + fr)
      BY <1>4
    <3> QED BY Zenon, <1>6, <2>3, <2>4, <3>1, <3>2, <3>3, <3>4, <3>5
  <2>6. (p * c + j) % p = j
    <3>1. c \in Int
      OBVIOUS
    <3> QED BY ZenonT(40), <3>1, DivisionUnique
  <2> QED BY Zenon, <1>1, <1>2, <1>9, <2>1, <2>2, <2>3, <2>4, <2>5, <2>6
<1> QED BY Zenon, <1>3, <1>6, <1>8, <1>10, <1>11 DEF Fields

\* Every number has such fields.
LEMMA NumberHasParts ==
  ASSUME NEW f, NumberFormat(f), NEW x \in Numbers(f)
  PROVE  \E exn \in 0..3, s \in 0..1, e \in 0..(Pow2[f.wE] - 1), fr \in 0..(Pow2[f.wF] - 1) :
           Fields(f, x, exn, s, e, fr)
<1>1. PICK F \in Nat, D \in Nat : F = f.wF /\ D = f.wE
  BY DEF NumberFormat
<1>2. PICK w \in Nat \ {0}, G \in Nat \ {0} : w = Pow2[F] /\ G = Pow2[D]
  BY Pow2Def
<1>3. PICK M \in Nat \ {0} : M = G * w /\ Pow2[f.wE + f.wF + 3] = 8 * M
  <2>1. D + F \in Nat /\ 3 \in Nat
    OBVIOUS
  <2>2. Pow2[D + F] = Pow2[D] * Pow2[F]
    BY ZenonT(40), Pow2Sum
  <2>3. Pow2[(D + F) + 3] = Pow2[D + F] * Pow2[3]
    BY ZenonT(40), <2>1, Pow2Sum
  <2>4. G * w \in Nat \ {0}
    OBVIOUS
  <2>5. PICK M \in Nat \ {0} : M = G * w
    BY Zenon, <2>4
  <2>6. M * 8 = 8 * M
    OBVIOUS
  <2>7. Pow2[D + F] = M /\ Pow2[3] = 8
    BY Zenon, <1>2, <2>2, <2>5, SmallPowers
  <2>8. Pow2[(D + F) + 3] = 8 * M
    BY Zenon, <2>3, <2>6, <2>7
  <2>9. f.wE + f.wF + 3 = (D + F) + 3
    BY Zenon, <1>1
  <2> QED BY Zenon, <2>5, <2>8, <2>9
<1>4. x \in Nat /\ x < 8 * M
  <2>1. x \in 0..(8 * M - 1)
    BY Zenon, <1>3 DEF Numbers
  <2> QED BY <2>1
<1>5. PICK i \in Nat, fr \in 0..(w - 1) : x = w * i + fr
  <2>1. \E q \in Nat, r \in 0..(w - 1) : x = w * q + r /\ q = x \div w /\ r = x % w /\ r <= x /\ w * q <= x
    BY ZenonT(60), <1>4, NaturalDivision
  <2> QED BY Zenon, <2>1
<1>6. PICK c \in Nat, e \in 0..(G - 1) : i = G * c + e
  <2>1. \E q \in Nat, r \in 0..(G - 1) : i = G * q + r /\ q = i \div G /\ r = i % G /\ r <= i /\ G * q <= i
    BY ZenonT(60), NaturalDivision
  <2> QED BY Zenon, <2>1
<1>7. x = M * c + (e * w + fr)
  <2>1. w * (G * c + e) = (G * w) * c + e * w
    BY <1>6
  <2>2. PICK i1, i2 \in Int : i1 = (G * w) * c /\ i2 = e * w
    BY <1>6
  <2>3. (i1 + i2) + fr = i1 + (i2 + fr)
    BY <1>5
  <2> QED BY Zenon, <1>3, <1>5, <1>6, <2>1, <2>2, <2>3
<1>8. c < 8
  <2>1. M * c <= x
    <3>1. PICK i1, i2 \in Nat : i1 = M * c /\ i2 = e * w
      <4>1. M * c \in Nat /\ e * w \in Nat
        BY <1>6
      <4> QED BY Zenon, <4>1
    <3>2. i1 <= i1 + (i2 + fr)
      BY <1>5
    <3> QED BY Zenon, <1>7, <3>1, <3>2
  <2>2. M * c < M * 8
    <3>1. PICK i1 \in Nat : i1 = M * c
      OBVIOUS
    <3>2. i1 < M * 8
      <4>1. i1 <= x
        BY Zenon, <2>1, <3>1
      <4> QED BY <1>4, <4>1
    <3> QED BY Zenon, <3>1, <3>2
  <2> QED BY <2>2, ProductOrder
<1>9. PICK exn \in 0..3, s \in 0..1 : c = exn * 2 + s
  <2>1. c \div 2 \in 0..3 /\ c % 2 \in 0..1 /\ c = (c \div 2) * 2 + (c % 2)
    BY <1>8
  <2> QED BY Zenon, <2>1
<1>10. x = Encode(f, exn, s, e, fr)
  <2>1. (c * G + e) * w + fr = x
    <3>1. G * c = c * G /\ w * (c * G + e) = (c * G + e) * w
      BY <1>6
    <3> QED BY Zenon, <1>5, <1>6, <3>1
  <2> QED BY Zenon, <1>1, <1>2, <1>9, <2>1, SmallPowers DEF Encode, Cat
<1>11. e \in 0..(Pow2[f.wE] - 1) /\ fr \in 0..(Pow2[f.wF] - 1)
  BY Zenon, <1>1, <1>2, <1>5, <1>6
<1>12. Fields(f, x, exn, s, e, fr)
  BY ZenonT(40), <1>10, <1>11, EncodingHasParts
<1> QED BY Zenon, <1>11, <1>12

\* A subtraction changes the sign of its second operand.
LEMMA OperandHasParts ==
  ASSUME NEW f, NumberFormat(f), NEW y, NEW exn, NEW s, NEW e, NEW fr, Fields(f, y, exn, s, e, fr), NEW sub
  PROVE  \E sg \in 0..1 : Fields(f, Operand(f, sub, y), exn, sg, e, fr)
<1>1. exn \in 0..3 /\ s \in 0..1 /\ e \in 0..(Pow2[f.wE] - 1) /\ fr \in 0..(Pow2[f.wF] - 1)
      /\ y = Encode(f, exn, s, e, fr) /\ Sign(f, y) = s
  BY Zenon DEF Fields
<1>2. CASE ~sub
  BY Zenon, <1>1, <1>2 DEF Operand
<1>3. CASE sub
  <2>1. PICK F \in Nat, D \in Nat : F = f.wF /\ D = f.wE
    BY DEF NumberFormat
  <2>2. PICK w \in Nat \ {0}, G \in Nat \ {0} : w = Pow2[F] /\ G = Pow2[D]
    BY Pow2Def
  <2>3. Pow2[f.wE + f.wF] = G * w
    <3>1. Pow2[D + F] = Pow2[D] * Pow2[F]
      BY ZenonT(40), Pow2Sum
    <3> QED BY Zenon, <2>1, <2>2, <3>1
  <2>4. y = ((exn * 2 + s) * G + e) * w + fr
    BY Zenon, <1>1, <2>1, <2>2, SmallPowers DEF Encode, Cat
  <2>5. Encode(f, exn, 1 - s, e, fr) = ((exn * 2 + (1 - s)) * G + e) * w + fr
    BY Zenon, <2>1, <2>2, SmallPowers DEF Encode, Cat
  <2>6. PICK k \in Nat : k = exn * 2
    BY <1>1
  <2>7. ((k + 1) * G + e) * w = ((k + 0) * G + e) * w + G * w
    BY <1>1
  <2>8. PICK i0, i1, i2 \in Int : i0 = ((k + 0) * G + e) * w /\ i1 = ((k + 1) * G + e) * w /\ i2 = G * w
    BY <1>1
  <2>9. i1 = i0 + i2
    BY Zenon, <2>7, <2>8
  <2>10. fr \in Int /\ (i1 + fr) - i2 = i0 + fr /\ (i0 + fr) + i2 = i1 + fr
    BY <1>1, <2>9
  <2>11. Operand(f, sub, y) = Encode(f, exn, 1 - s, e, fr)
    <3>1. CASE s = 1
      <4>1. 1 - 1 = 0
        OBVIOUS
      <4>2. y = i1 + fr /\ Encode(f, exn, 1 - s, e, fr) = i0 + fr
        BY Zenon, <2>4, <2>5, <2>6, <2>8, <3>1, <4>1
      <4>3. Operand(f, sub, y) = y - i2
        BY Zenon, <1>1, <1>3, <2>3, <2>8, <3>1 DEF Operand, Opposite
      <4> QED BY Zenon, <2>10, <4>2, <4>3
    <3>2. CASE s = 0
      <4>1. 1 - 0 = 1 /\ 0 # 1
        OBVIOUS
      <4>2. y = i0 + fr /\ Encode(f, exn, 1 - s, e, fr) = i1 + fr
        BY Zenon, <2>4, <2>5, <2>6, <2>8, <3>2, <4>1
      <4>3. Operand(f, sub, y) = y + i2
        BY Zenon, <1>1, <1>3, <2>3, <2>8, <3>2, <4>1 DEF Operand, Opposite
      <4> QED BY Zenon, <2>10, <4>2, <4>3
    <3>3. s = 0 \/ s = 1
      BY <1>1
    <3> QED BY Zenon, <3>1, <3>2, <3>3
  <2>12. 1 - s \in 0..1
    BY <1>1
  <2>13. Fields(f, Encode(f, exn, 1 - s, e, fr), exn, 1 - s, e, fr)
    BY ZenonT(40), <1>1, <2>12, EncodingHasParts
  <2> QED BY Zenon, <2>11, <2>12, <2>13
<1> QED BY Zenon, <1>2, <1>3

\* The order of the exceptions, the exponents and the fractions of two numbers.
Ordered(exn1, e1, fr1, exn2, e2, fr2) ==
  \/ exn2 < exn1
  \/ exn1 = exn2 /\ (e2 < e1 \/ (e1 = e2 /\ fr2 <= fr1))

\* Two digits, of which the lower one is below the base, are compared as pairs.
LEMMA DigitsOrder ==
  ASSUME NEW b \in Nat \ {0}, NEW i1 \in Nat, NEW i2 \in Nat, NEW j1 \in 0..(b - 1), NEW j2 \in 0..(b - 1),
         b * i2 + j2 <= b * i1 + j1
  PROVE  i2 < i1 \/ (i1 = i2 /\ j2 <= j1)
<1>1. i2 <= i1
  <2>1. SUFFICES ASSUME i1 < i2
                 PROVE  FALSE
    OBVIOUS
  <2>2. b * (i1 + 1) <= b * i2
    <3>1. i1 + 1 \in Int /\ i1 + 1 <= i2 /\ i2 \in Int
      BY <2>1
    <3> QED BY ZenonT(40), <3>1, ProductOrder
  <2>3. PICK c1, c2 \in Int : c1 = b * i1 /\ c2 = b * i2
    OBVIOUS
  <2>4. c1 + b <= c2
    <3>1. b * (i1 + 1) = b * i1 + b
      OBVIOUS
    <3> QED BY Zenon, <2>2, <2>3, <3>1
  <2>5. c2 + j2 <= c1 + j1
    BY Zenon, <2>3
  <2> QED BY <2>4, <2>5
<1>2. CASE i1 = i2
  <2>1. PICK c \in Int : c = b * i1
    OBVIOUS
  <2>2. c + j2 <= c + j1
    BY Zenon, <1>2, <2>1
  <2> QED BY <1>2, <2>2
<1> QED BY <1>1, <1>2

\* The magnitudes that the single path compares.
MagnitudeOf(f, exn, e, fr) == exn * (Pow2[f.wE] * Pow2[f.wF]) + (e * Pow2[f.wF] + fr)
LEMMA MagnitudesOrder ==
  ASSUME NEW f, NumberFormat(f), NEW x, NEW y, NEW n1, NEW s1, NEW e1, NEW fr1, NEW n2, NEW s2, NEW e2, NEW fr2,
         Fields(f, x, n1, s1, e1, fr1), Fields(f, y, n2, s2, e2, fr2),
         MagnitudeOf(f, n2, e2, fr2) <= MagnitudeOf(f, n1, e1, fr1)
  PROVE  Ordered(n1, e1, fr1, n2, e2, fr2)
<1>1. PICK w \in Nat \ {0}, G \in Nat \ {0} : w = Pow2[f.wF] /\ G = Pow2[f.wE]
  <2>1. f.wF \in Nat /\ f.wE \in Nat
    BY DEF NumberFormat
  <2> QED BY <2>1, Pow2Def
<1>2. /\ n1 \in Nat /\ n2 \in Nat /\ e1 \in 0..(G - 1) /\ e2 \in 0..(G - 1) /\ fr1 \in 0..(w - 1) /\ fr2 \in 0..(w - 1)
  <2>1. /\ n1 \in 0..3 /\ n2 \in 0..3 /\ e1 \in 0..(G - 1) /\ e2 \in 0..(G - 1)
        /\ fr1 \in 0..(w - 1) /\ fr2 \in 0..(w - 1)
    BY Zenon, <1>1 DEF Fields
  <2> QED BY <2>1
<1>3. ASSUME NEW n \in Nat, NEW e \in 0..(G - 1), NEW fr \in 0..(w - 1)
      PROVE  MagnitudeOf(f, n, e, fr) = w * (G * n + e) + fr /\ G * n + e \in Nat
  <2>1. w * (G * n + e) = n * (G * w) + e * w
    OBVIOUS
  <2>2. PICK i1, i2 \in Int : i1 = n * (G * w) /\ i2 = e * w
    OBVIOUS
  <2>3. i1 + (i2 + fr) = (i1 + i2) + fr
    OBVIOUS
  <2>4. G * n \in Nat
    OBVIOUS
  <2>5. G * n + e \in Nat
    BY <2>4
  <2> QED BY Zenon, <1>1, <2>1, <2>2, <2>3, <2>5 DEF MagnitudeOf
<1>4. PICK i1, i2 \in Nat : i1 = G * n1 + e1 /\ i2 = G * n2 + e2
  BY Zenon, <1>2, <1>3
<1>5. w * i2 + fr2 <= w * i1 + fr1
  BY Zenon, <1>2, <1>3, <1>4
<1>6. i2 < i1 \/ (i1 = i2 /\ fr2 <= fr1)
  BY ZenonT(40), <1>2, <1>5, DigitsOrder
<1>7. G * n2 + e2 <= G * n1 + e1
  BY <1>4, <1>6
<1>8. n2 < n1 \/ (n1 = n2 /\ e2 <= e1)
  BY ZenonT(40), <1>2, <1>7, DigitsOrder
<1>9. n1 = n2 /\ e1 = e2 => i1 = i2
  BY Zenon, <1>4
<1>10. n1 = n2 /\ ~(e2 < e1) => fr2 <= fr1
  BY <1>2, <1>6, <1>8, <1>9
<1> QED BY <1>2, <1>8, <1>10 DEF Ordered

\* The carry of their difference compares them.
LEMMA LargerIs ==
  ASSUME NEW f, NumberFormat(f), NEW x, NEW y, NEW n1, NEW s1, NEW e1, NEW fr1, NEW n2, NEW s2, NEW e2, NEW fr2,
         Fields(f, x, n1, s1, e1, fr1), Fields(f, y, n2, s2, e2, fr2)
  PROVE  /\ Larger(f, x, y) => Ordered(n1, e1, fr1, n2, e2, fr2)
         /\ ~Larger(f, x, y) => Ordered(n2, e2, fr2, n1, e1, fr1)
<1>1. PICK F \in Nat, D \in Nat : F = f.wF /\ D = f.wE
  BY DEF NumberFormat
<1>2. PICK w \in Nat \ {0}, G \in Nat \ {0} : w = Pow2[F] /\ G = Pow2[D]
  BY Pow2Def
<1>3. PICK p \in Nat \ {0} : p = G * w /\ p = Pow2[D + F]
  <2>1. Pow2[D + F] = Pow2[D] * Pow2[F]
    BY ZenonT(40), Pow2Sum
  <2>2. G * w \in Nat \ {0}
    OBVIOUS
  <2> QED BY Zenon, <1>2, <2>1, <2>2
<1>4. PICK W \in Nat : W = (D + F) + 2 /\ W = f.wE + f.wF + 2
  <2>1. (D + F) + 2 \in Nat
    OBVIOUS
  <2> QED BY Zenon, <1>1, <2>1
<1>5. PICK M \in Nat \ {0} : M = 4 * p /\ Pow2[W] = M /\ Pow2[W + 1] = 2 * M
  <2>1. D + F \in Nat /\ 2 \in Nat
    OBVIOUS
  <2>2. Pow2[(D + F) + 2] = Pow2[D + F] * Pow2[2]
    BY ZenonT(40), <2>1, Pow2Sum
  <2>3. p * 4 = 4 * p /\ 4 * p \in Nat \ {0}
    OBVIOUS
  <2>4. Pow2[W + 1] = 2 * Pow2[W]
    BY Zenon, Pow2Def
  <2>5. Pow2[W] = 4 * p
    BY Zenon, <1>3, <1>4, <2>2, <2>3, SmallPowers
  <2> QED BY Zenon, <2>3, <2>4, <2>5
<1>6. ASSUME NEW v, NEW n, NEW s, NEW e, NEW fr, Fields(f, v, n, s, e, fr)
      PROVE  /\ Cat(Exn(f, v), f.wE + f.wF, Bits(v, f.wE + f.wF - 1, 0)) = MagnitudeOf(f, n, e, fr)
             /\ MagnitudeOf(f, n, e, fr) \in 0..(M - 1)
  <2>1. /\ n \in 0..3 /\ e \in 0..(G - 1) /\ fr \in 0..(w - 1)
        /\ Exn(f, v) = n /\ Bits(v, f.wE + f.wF - 1, 0) = e * w + fr
    BY Zenon, <1>1, <1>2, <1>6 DEF Fields
  <2>2. MagnitudeOf(f, n, e, fr) = n * p + (e * w + fr)
    BY Zenon, <1>1, <1>2, <1>3 DEF MagnitudeOf
  <2>3. Cat(Exn(f, v), f.wE + f.wF, Bits(v, f.wE + f.wF - 1, 0)) = n * p + (e * w + fr)
    BY Zenon, <1>1, <1>3, <2>1 DEF Cat
  <2>4. e * w + fr \in 0..(p - 1)
    <3>1. PICK i \in Nat : (e + i) + 1 = G
      <4>1. (G - 1) - e \in Nat /\ (e + ((G - 1) - e)) + 1 = G
        BY <2>1
      <4> QED BY <4>1
    <3>2. ((e + i) + 1) * w = (e * w + i * w) + w /\ i * w \in Nat /\ e * w \in Nat
      BY <2>1
    <3>3. PICK a1, a2 \in Nat : a1 = e * w /\ a2 = i * w
      BY Zenon, <3>2
    <3>4. p = (a1 + a2) + w
      BY Zenon, <1>3, <3>1, <3>2, <3>3
    <3>5. a1 + fr \in 0..(p - 1)
      BY <2>1, <3>4
    <3> QED BY Zenon, <3>3, <3>5
  <2>5. PICK j \in 0..(p - 1) : j = e * w + fr
    BY Zenon, <2>4
  <2>6. n * p + j \in 0..(4 * p - 1)
    <3>1. n = 0 \/ n = 1 \/ n = 2 \/ n = 3
      BY <2>1
    <3> QED BY <3>1
  <2> QED BY Zenon, <1>5, <2>2, <2>3, <2>5, <2>6
<1>7. PICK mx, my \in 0..(M - 1) : mx = MagnitudeOf(f, n1, e1, fr1) /\ my = MagnitudeOf(f, n2, e2, fr2)
  <2>1. MagnitudeOf(f, n1, e1, fr1) \in 0..(M - 1) /\ MagnitudeOf(f, n2, e2, fr2) \in 0..(M - 1)
    BY Zenon, <1>6
  <2> QED BY Zenon, <2>1
<1>8. PICK r \in Int : r = (mx + (1 * M + ((M - 1) - my)) + 1) % (2 * M)
  OBVIOUS
<1>9. Larger(f, x, y) <=> (r \div M) % 2 = 0
  <2>1. /\ Cat(Exn(f, x), f.wE + f.wF, Bits(x, f.wE + f.wF - 1, 0)) = mx
        /\ Cat(Exn(f, y), f.wE + f.wF, Bits(y, f.wE + f.wF - 1, 0)) = my
    BY Zenon, <1>6, <1>7
  <2>2. Not(W, my) = (M - 1) - my /\ Cat(1, W, (M - 1) - my) = 1 * M + ((M - 1) - my)
    BY Zenon, <1>5 DEF Not, Ones, Cat
  <2>3. IntAdder(W + 1, mx, 1 * M + ((M - 1) - my), 1) = r
    BY Zenon, <1>5, <1>8 DEF IntAdder
  <2>4. BitOf(r, W) = (r \div M) % 2
    BY Zenon, <1>5 DEF BitOf
  <2>5. BitOf(IntAdder(W + 1, mx, Cat(1, W, Not(W, my)), 1), W) = (r \div M) % 2
    BY Zenon, <2>2, <2>3, <2>4
  <2> QED BY Zenon, <1>4, <2>1, <2>5 DEF Larger
<1>10. (r \div M) % 2 = 0 <=> my <= mx
  <2>1. CASE my <= mx
    <3>1. PICK j \in 0..(M - 1) : j = mx - my
      <4>1. mx - my \in 0..(M - 1)
        BY <2>1
      <4> QED BY Zenon, <4>1
    <3>2. PICK q \in Nat \ {0} : q = 2 * M
      OBVIOUS
    <3>3. j \in 0..(q - 1) /\ 1 \in Int /\ mx + (1 * M + ((M - 1) - my)) + 1 = q * 1 + j
      BY <3>1, <3>2
    <3>4. (q * 1 + j) % q = j
      BY ZenonT(40), <3>3, DivisionUnique
    <3>5. r = j
      BY Zenon, <1>8, <3>2, <3>3, <3>4
    <3>6. 0 \in Int /\ M * 0 + j = j
      OBVIOUS
    <3>7. (M * 0 + j) \div M = 0
      BY ZenonT(40), <3>6, DivisionUnique
    <3>8. r \div M = 0
      BY Zenon, <3>5, <3>6, <3>7
    <3> QED BY <2>1, <3>8
  <2>2. CASE mx < my
    <3>1. PICK j \in 0..(M - 1) : j = M + (mx - my)
      <4>1. M + (mx - my) \in 0..(M - 1)
        BY <2>2
      <4> QED BY Zenon, <4>1
    <3>2. PICK q \in Nat \ {0} : q = 2 * M
      OBVIOUS
    <3>3. PICK k \in 0..(q - 1) : k = M + j
      <4>1. M + j \in 0..(q - 1)
        BY <3>2
      <4> QED BY Zenon, <4>1
    <3>4. 0 \in Int /\ mx + (1 * M + ((M - 1) - my)) + 1 = q * 0 + k
      BY <3>1, <3>2, <3>3
    <3>5. (q * 0 + k) % q = k
      BY ZenonT(40), <3>4, DivisionUnique
    <3>6. r = k
      BY Zenon, <1>8, <3>2, <3>4, <3>5
    <3>7. 1 \in Int /\ M * 1 + j = M + j
      OBVIOUS
    <3>8. (M * 1 + j) \div M = 1
      BY ZenonT(40), <3>7, DivisionUnique
    <3>9. r \div M = 1
      BY Zenon, <3>3, <3>6, <3>7, <3>8
    <3> QED BY <2>2, <3>9
  <2> QED BY <2>1, <2>2
<1>11. my <= mx \/ mx <= my
  OBVIOUS
<1>12. my <= mx => Ordered(n1, e1, fr1, n2, e2, fr2)
  BY ZenonT(40), <1>7, MagnitudesOrder
<1>13. mx <= my => Ordered(n2, e2, fr2, n1, e1, fr1)
  BY ZenonT(40), <1>7, MagnitudesOrder
<1> QED BY Zenon, <1>9, <1>10, <1>11, <1>12, <1>13

-----------------------------------------------------------------------------
(***************************************************************************)
(* The exact sum of two operands, in units of the last place of the        *)
(* smaller one.                                                            *)
(***************************************************************************)
SignedBy(s, n) == IF s = 1 THEN -n ELSE n

UlpsAre(f, x, s, e, fr) == Ulps(f, x) = SignedBy(s, (Pow2[f.wF] + fr) * Pow2[e]) /\ Ulps(f, x) \in Int
\* A number in ulps is its significand, shifted by its exponent, with its sign.
LEMMA UlpsIs ==
  ASSUME NEW f, NumberFormat(f), NEW x, NEW exn, NEW s, NEW e, NEW fr, Fields(f, x, exn, s, e, fr)
  PROVE  UlpsAre(f, x, s, e, fr)
<1>1. PICK w \in Nat \ {0}, G \in Nat \ {0} : w = Pow2[f.wF] /\ G = Pow2[f.wE]
  <2>1. f.wF \in Nat /\ f.wE \in Nat
    BY DEF NumberFormat
  <2> QED BY <2>1, Pow2Def
<1>2. e \in 0..(G - 1) /\ fr \in 0..(w - 1) /\ s \in 0..1
      /\ Significand(f, x) = w + fr /\ Sign(f, x) = s /\ Exponent(f, x) = e
  BY Zenon, <1>1 DEF Fields
<1>3. e \in Nat
  BY <1>2
<1>4. PICK p \in Nat \ {0} : p = Pow2[e]
  BY <1>3, Pow2Def
<1>5. PICK a \in Nat : a = w + fr
  BY <1>2
<1>6. Ulps(f, x) = (IF s = 1 THEN -1 ELSE 1) * a * p
  BY Zenon, <1>2, <1>4, <1>5 DEF Ulps
<1>7. /\ (-1) * a * p = -(a * p) /\ 1 * a * p = a * p
      /\ a * p \in Int /\ -(a * p) \in Int
  OBVIOUS
<1>8. Ulps(f, x) = SignedBy(s, a * p)
  <2>1. CASE s = 1
    BY Zenon, <1>6, <1>7, <2>1 DEF SignedBy
  <2>2. CASE s # 1
    BY Zenon, <1>6, <1>7, <2>2 DEF SignedBy
  <2> QED BY Zenon, <2>1, <2>2
<1>9. SignedBy(s, a * p) \in Int
  BY Zenon, <1>7 DEF SignedBy
<1> QED BY Zenon, <1>1, <1>4, <1>5, <1>8, <1>9 DEF UlpsAre

\* The reference does not depend on the order of the operands.
LEMMA SumCommutes ==
  ASSUME NEW f, NumberFormat(f), NEW x, NEW y, NEW n1, NEW s1, NEW e1, NEW fr1, NEW n2, NEW s2, NEW e2, NEW fr2,
         Fields(f, x, n1, s1, e1, fr1), Fields(f, y, n2, s2, e2, fr2)
  PROVE  Sum(f, x, y) = Sum(f, y, x)
<1>1. PICK i, j \in Int : i = Ulps(f, x) /\ j = Ulps(f, y)
  <2>1. UlpsAre(f, x, s1, e1, fr1) /\ UlpsAre(f, y, s2, e2, fr2)
    BY Zenon, UlpsIs
  <2> QED BY Zenon, <2>1 DEF UlpsAre
<1>2. /\ Exn(f, x) = n1 /\ Sign(f, x) = s1 /\ Exn(f, y) = n2 /\ Sign(f, y) = s2
      /\ s1 \in 0..1 /\ s2 \in 0..1
  BY Zenon DEF Fields
<1>3. SmallerOf(s1, s2) = SmallerOf(s2, s1)
  BY <1>2 DEF SmallerOf
<1>4. /\ i + j = j + i /\ i + 0 = 0 + i /\ 0 + j = j + 0
  OBVIOUS
<1>5. (IF n1 = NormalExn THEN i ELSE 0) + (IF n2 = NormalExn THEN j ELSE 0)
        = (IF n2 = NormalExn THEN j ELSE 0) + (IF n1 = NormalExn THEN i ELSE 0)
  OBVIOUS
<1>6. PICK total : /\ total = (IF n1 = NormalExn THEN i ELSE 0) + (IF n2 = NormalExn THEN j ELSE 0)
                   /\ total = (IF n2 = NormalExn THEN j ELSE 0) + (IF n1 = NormalExn THEN i ELSE 0)
  BY Zenon, <1>5
<1>7. Sum(f, x, y) =
        IF n1 = NaNExn \/ n2 = NaNExn THEN NaN(f)
        ELSE IF n1 = InfExn /\ n2 = InfExn /\ s1 # s2 THEN NaN(f)
        ELSE IF n1 = InfExn THEN Infinity(f, s1)
        ELSE IF n2 = InfExn THEN Infinity(f, s2)
        ELSE IF n1 = ZeroExn /\ n2 = ZeroExn THEN Zero(f, SmallerOf(s1, s2))
        ELSE IF total = 0 THEN Zero(f, 0)
        ELSE Rounded(f, Flag(total < 0), AbsOf(total), 1, -(f.wF + Bias(f)))
  BY ZenonT(40), <1>1, <1>2, <1>6 DEF Sum
<1>8. Sum(f, y, x) =
        IF n2 = NaNExn \/ n1 = NaNExn THEN NaN(f)
        ELSE IF n2 = InfExn /\ n1 = InfExn /\ s2 # s1 THEN NaN(f)
        ELSE IF n2 = InfExn THEN Infinity(f, s2)
        ELSE IF n1 = InfExn THEN Infinity(f, s1)
        ELSE IF n2 = ZeroExn /\ n1 = ZeroExn THEN Zero(f, SmallerOf(s2, s1))
        ELSE IF total = 0 THEN Zero(f, 0)
        ELSE Rounded(f, Flag(total < 0), AbsOf(total), 1, -(f.wF + Bias(f)))
  BY ZenonT(40), <1>1, <1>2, <1>6 DEF Sum
<1>9. CASE n1 = NaNExn \/ n2 = NaNExn
  BY Zenon, <1>7, <1>8, <1>9
<1>10. CASE ~(n1 = NaNExn \/ n2 = NaNExn) /\ n1 = InfExn /\ n2 = InfExn
  <2>1. CASE s1 # s2
    BY Zenon, <1>7, <1>8, <1>10, <2>1
  <2>2. CASE s1 = s2
    <3>1. Sum(f, x, y) = Infinity(f, s1)
      BY Zenon, <1>7, <1>10, <2>2
    <3>2. Sum(f, y, x) = Infinity(f, s2)
      BY Zenon, <1>8, <1>10, <2>2
    <3> QED BY Zenon, <2>2, <3>1, <3>2
  <2> QED BY Zenon, <2>1, <2>2
<1>11. CASE ~(n1 = NaNExn \/ n2 = NaNExn) /\ ~(n1 = InfExn /\ n2 = InfExn)
  <2>1. CASE n1 = InfExn
    <3>1. n2 # InfExn
      BY Zenon, <1>11, <2>1
    <3>2. Sum(f, x, y) = Infinity(f, s1)
      BY Zenon, <1>7, <1>11, <2>1, <3>1
    <3>3. Sum(f, y, x) = Infinity(f, s1)
      BY Zenon, <1>8, <1>11, <2>1, <3>1
    <3> QED BY Zenon, <3>2, <3>3
  <2>2. CASE n1 # InfExn /\ n2 = InfExn
    <3>1. Sum(f, x, y) = Infinity(f, s2)
      BY Zenon, <1>7, <1>11, <2>2
    <3>2. Sum(f, y, x) = Infinity(f, s2)
      BY Zenon, <1>8, <1>11, <2>2
    <3> QED BY Zenon, <3>1, <3>2
  <2>3. CASE n1 # InfExn /\ n2 # InfExn
    <3>1. CASE n1 = ZeroExn /\ n2 = ZeroExn
      <4>1. Sum(f, x, y) = Zero(f, SmallerOf(s1, s2))
        BY Zenon, <1>7, <1>11, <2>3, <3>1
      <4>2. Sum(f, y, x) = Zero(f, SmallerOf(s2, s1))
        BY Zenon, <1>8, <1>11, <2>3, <3>1
      <4> QED BY Zenon, <1>3, <4>1, <4>2
    <3>2. CASE ~(n1 = ZeroExn /\ n2 = ZeroExn)
      <4>1. CASE total = 0
        <5>1. Sum(f, x, y) = Zero(f, 0)
          BY Zenon, <1>7, <1>11, <2>3, <3>2, <4>1
        <5>2. Sum(f, y, x) = Zero(f, 0)
          BY Zenon, <1>8, <1>11, <2>3, <3>2, <4>1
        <5> QED BY Zenon, <5>1, <5>2
      <4>2. CASE total # 0
        <5>1. Sum(f, x, y) = Rounded(f, Flag(total < 0), AbsOf(total), 1, -(f.wF + Bias(f)))
          BY Zenon, <1>7, <1>11, <2>3, <3>2, <4>2
        <5>2. Sum(f, y, x) = Rounded(f, Flag(total < 0), AbsOf(total), 1, -(f.wF + Bias(f)))
          BY Zenon, <1>8, <1>11, <2>3, <3>2, <4>2
        <5> QED BY Zenon, <5>1, <5>2
      <4> QED BY Zenon, <4>1, <4>2
    <3> QED BY Zenon, <3>1, <3>2
  <2> QED BY Zenon, <2>1, <2>2, <2>3
<1> QED BY Zenon, <1>9, <1>10, <1>11

\* The second operand of a sum is b, D positions below the first, whose exponent is ex:
\* nothing at no distance, if it is zero.
Stands(f, exn, e, fr, ex, b, D) ==
  \/ exn = 1 /\ b = Pow2[f.wF] + fr /\ D = ex - e
  \/ exn = 0 /\ b = 0 /\ D = 0

\* The sum of a normal number and one that is normal or zero, from K units of the last place.
SumFrom(f, x, y, s, n, K) ==
  Sum(f, x, y) = IF K = 0 THEN Zero(f, 0)
                 ELSE Rounded(f, IF K > 0 THEN s ELSE 1 - s, n * AbsOf(K), 1, -(f.wF + Bias(f)))
LEMMA SumFromIs ==
  ASSUME NEW f, NumberFormat(f), NEW x, NEW y, NEW s1, NEW e1, NEW fr1, NEW n2, NEW s2, NEW e2, NEW fr2,
         Fields(f, x, 1, s1, e1, fr1), Fields(f, y, n2, s2, e2, fr2),
         NEW b, NEW D \in 0..e1, Stands(f, n2, e2, fr2, e1, b, D), NEW P, P = Pow2[D],
         NEW K, K = ExactSumOf(Pow2[f.wF] + fr1, b, P, XorBit(s1, s2))
  PROVE  SumFrom(f, x, y, s1, Pow2[e1 - D], K) /\ K \in Int
<1>1. PICK w \in Nat \ {0}, G \in Nat \ {0} : w = Pow2[f.wF] /\ G = Pow2[f.wE]
  <2>1. f.wF \in Nat /\ f.wE \in Nat
    BY DEF NumberFormat
  <2> QED BY <2>1, Pow2Def
<1>2. /\ e1 \in 0..(G - 1) /\ fr1 \in 0..(w - 1) /\ s1 \in 0..1 /\ e2 \in 0..(G - 1) /\ fr2 \in 0..(w - 1)
      /\ s2 \in 0..1 /\ Exn(f, x) = 1 /\ Exn(f, y) = n2
  BY Zenon, <1>1 DEF Fields
<1>3. D \in Nat /\ e1 - D \in Nat /\ (e1 - D) + D = e1 /\ e2 \in Nat
  BY <1>2
<1>4. PICK Q \in Nat \ {0}, R \in Nat \ {0} : Q = Pow2[e1 - D] /\ R = P /\ Pow2[e1] = Q * R
  <2>1. Pow2[(e1 - D) + D] = Pow2[e1 - D] * Pow2[D]
    BY ZenonT(40), <1>3, Pow2Sum
  <2>2. Pow2[e1 - D] \in Nat \ {0} /\ P \in Nat \ {0}
    BY <1>3, Pow2Def
  <2> QED BY Zenon, <1>3, <2>1, <2>2
<1>5. PICK a \in Nat \ {0} : a = w + fr1
  BY <1>2
<1>6. PICK c1 \in Int : c1 = Q * (a * R) /\ Ulps(f, x) = SignedBy(s1, c1)
  <2>1. a * (Q * R) = Q * (a * R) /\ Q * (a * R) \in Int
    OBVIOUS
  <2>2. UlpsAre(f, x, s1, e1, fr1)
    BY Zenon, UlpsIs
  <2> QED BY Zenon, <1>1, <1>4, <1>5, <2>1, <2>2 DEF UlpsAre
<1>7. n2 = 0 \/ n2 = 1
  BY Zenon DEF Stands
<1>8. b \in Nat
  <2>1. CASE n2 = 1
    <3>1. b = w + fr2
      <4>1. n2 # 0
        BY <2>1
      <4> QED BY Zenon, <1>1, <4>1 DEF Stands
    <3> QED BY <1>2, <3>1
  <2>2. CASE n2 = 0
    <3>1. n2 # 1 /\ 0 \in Nat
      BY <2>2
    <3> QED BY Zenon, <3>1 DEF Stands
  <2> QED BY Zenon, <1>7, <2>1, <2>2
<1>9. PICK c2 \in Int : c2 = Q * b
  BY <1>8
<1>10. (IF Exn(f, y) = NormalExn THEN Ulps(f, y) ELSE 0) = SignedBy(s2, c2)
  <2>1. CASE n2 = 1
    <3>1. b = w + fr2 /\ D = e1 - e2
      <4>1. n2 # 0
        BY <2>1
      <4> QED BY Zenon, <1>1, <4>1 DEF Stands
    <3>2. e1 - D = e2
      BY <1>2, <3>1
    <3>3. b * Q = Q * b
      BY <1>8
    <3>4. UlpsAre(f, y, s2, e2, fr2)
      BY Zenon, UlpsIs
    <3>5. Ulps(f, y) = SignedBy(s2, c2)
      BY Zenon, <1>1, <1>4, <1>9, <3>1, <3>2, <3>3, <3>4 DEF UlpsAre
    <3> QED BY Zenon, <1>2, <2>1, <3>5 DEF NormalExn
  <2>2. CASE n2 = 0
    <3>1. n2 # 1
      BY <2>2
    <3>2. b = 0
      BY Zenon, <3>1 DEF Stands
    <3>3. c2 = 0
      <4>1. Q * 0 = 0
        OBVIOUS
      <4> QED BY Zenon, <1>9, <3>2, <4>1
    <3>4. SignedBy(s2, c2) = 0
      <4>1. \A i \in Int : i + (-i) = 0 /\ -i \in Int /\ 0 + i = i
        OBVIOUS
      <4>2. 0 + (-c2) = 0 /\ -c2 \in Int
        BY Zenon, <3>3, <4>1
      <4>3. -c2 = 0
        BY Zenon, <4>1, <4>2
      <4> QED BY Zenon, <3>3, <4>3 DEF SignedBy
    <3> QED BY Zenon, <1>2, <3>1, <3>4 DEF NormalExn
  <2> QED BY Zenon, <1>7, <2>1, <2>2
<1>11. (IF Exn(f, x) = NormalExn THEN Ulps(f, x) ELSE 0) = SignedBy(s1, c1)
  BY Zenon, <1>2, <1>6 DEF NormalExn
<1>12. PICK total \in Int : total = SignedBy(s1, c1) + SignedBy(s2, c2)
  <2>1. SignedBy(s1, c1) + SignedBy(s2, c2) \in Int
    BY DEF SignedBy
  <2> QED BY Zenon, <2>1
<1>13. PICK k \in Int, c \in Int : k = K /\ c = Q * k /\ total = SignedBy(s1, c)
  <2>1. a * R + b \in Int /\ a * R - b \in Int
    BY <1>8
  <2>2. Q * (a * R + b) = Q * (a * R) + Q * b /\ Q * (a * R - b) = Q * (a * R) - Q * b
    BY <1>8
  <2>3. XorBit(s1, s2) = IF s1 = s2 THEN 0 ELSE 1
    BY <1>2 DEF XorBit
  <2>4. CASE s1 = s2
    <3>1. K = a * R + b
      <4>1. 0 # 1
        OBVIOUS
      <4> QED BY Zenon, <1>1, <1>4, <1>5, <2>3, <2>4, <4>1 DEF ExactSumOf
    <3>2. PICK k \in Int : k = K /\ Q * k = c1 + c2
      BY Zenon, <1>6, <1>9, <2>1, <2>2, <3>1
    <3>3. total = SignedBy(s1, c1 + c2) /\ c1 + c2 \in Int
      BY <1>12, <2>4 DEF SignedBy
    <3> QED BY Zenon, <3>2, <3>3
  <2>5. CASE s1 # s2
    <3>1. K = a * R - b
      BY Zenon, <1>1, <1>4, <1>5, <2>3, <2>5 DEF ExactSumOf
    <3>2. PICK k \in Int : k = K /\ Q * k = c1 - c2
      BY Zenon, <1>6, <1>9, <2>1, <2>2, <3>1
    <3>3. total = SignedBy(s1, c1 - c2) /\ c1 - c2 \in Int
      BY <1>2, <1>12, <2>5 DEF SignedBy
    <3> QED BY Zenon, <3>2, <3>3
  <2> QED BY Zenon, <2>4, <2>5
<1>14. Sum(f, x, y) = IF total = 0 THEN Zero(f, 0)
                      ELSE Rounded(f, Flag(total < 0), AbsOf(total), 1, -(f.wF + Bias(f)))
  <2>1. /\ 1 # 3 /\ n2 # 3 /\ 1 # 2 /\ n2 # 2 /\ 1 # 0
    BY <1>7
  <2>2. total = (IF Exn(f, x) = NormalExn THEN Ulps(f, x) ELSE 0) + (IF Exn(f, y) = NormalExn THEN Ulps(f, y) ELSE 0)
    BY Zenon, <1>10, <1>11, <1>12
  <2> QED BY ZenonT(40), <1>2, <2>1, <2>2 DEF Sum, NaNExn, InfExn, ZeroExn
<1>15. CASE k = 0
  <2>1. c = 0
    BY <1>13, <1>15
  <2>2. total = 0
    BY <1>13, <2>1 DEF SignedBy
  <2> QED BY Zenon, <1>13, <1>14, <1>15, <2>2 DEF SumFrom
<1>16. CASE k > 0
  <2>1. c > 0
    BY <1>13, <1>16
  <2>2. total # 0 /\ Flag(total < 0) = s1 /\ AbsOf(total) = c
    BY <1>2, <1>13, <2>1 DEF SignedBy, AbsOf, Flag
  <2>3. k # 0 /\ AbsOf(k) = k
    BY <1>16 DEF AbsOf
  <2> QED BY Zenon, <1>4, <1>13, <1>14, <1>16, <2>2, <2>3 DEF SumFrom
<1>17. CASE k < 0
  <2>1. c < 0 /\ Q * (-k) = -c
    <3>1. Q * (-k) > 0 /\ Q * (-k) = -(Q * k)
      BY <1>17
    <3>2. -c > 0
      BY Zenon, <1>13, <3>1
    <3> QED BY <1>13, <3>1, <3>2
  <2>2. total # 0 /\ Flag(total < 0) = 1 - s1 /\ AbsOf(total) = -c
    BY <1>2, <1>13, <2>1 DEF SignedBy, AbsOf, Flag
  <2>3. k # 0 /\ ~(k > 0) /\ AbsOf(k) = -k
    BY <1>17 DEF AbsOf
  <2> QED BY Zenon, <1>4, <1>13, <1>14, <2>1, <2>2, <2>3 DEF SumFrom
<1>18. k = 0 \/ k > 0 \/ k < 0
  OBVIOUS
<1> QED BY Zenon, <1>13, <1>15, <1>16, <1>17, <1>18

-----------------------------------------------------------------------------
(***************************************************************************)
(* The single path.                                                        *)
(***************************************************************************)
\* The distance given to the shifter is that of the exponents, or one that shifts out
\* everything but a sticky bit.
ShiftsBy(f, sv, D) ==
  /\ sv \in 0..Ones(SizeRightShift(f))
  /\ sv = D \/ (sv = f.wF + 3 /\ f.wF + 3 <= D)

\* The shifter takes the width of F + 3.
LEMMA ShifterReaches ==
  ASSUME NEW f, AdderFormat(f)
  PROVE  \E sz \in Nat \ {0}, p \in Nat \ {0} :
           sz = SizeRightShift(f) /\ p = Pow2[sz] /\ f.wF + 3 < p /\ Ones(SizeRightShift(f)) = p - 1 /\ sz <= f.wE
<1>1. PICK F \in Nat, D \in Nat : F = f.wF /\ D = f.wE
  BY DEF AdderFormat, NumberFormat
<1>2. F + 3 \in Nat /\ F + 3 # 0
  OBVIOUS
<1>3. IntLog2(F + 3) \in Nat /\ F + 3 < Pow2[IntLog2(F + 3)]
  BY ZenonT(40), <1>2, IntLog2Bounds
<1>4. IntLog2(F + 3) # 0
  BY ZenonT(40), <1>2, IntLog2Bounds
<1>5. PICK sz \in Nat \ {0} : sz = IntLog2(F + 3)
  BY <1>3, <1>4
<1>6. sz = SizeRightShift(f)
  BY Zenon, <1>1, <1>5 DEF SizeRightShift
<1>7. PICK p \in Nat \ {0} : p = Pow2[sz]
  BY Pow2Def
<1>8. F + 3 < p
  BY Zenon, <1>3, <1>5, <1>7
<1>9. sz <= f.wE
  <2>1. D >= sz
    BY Zenon, <1>1, <1>6 DEF AdderFormat
  <2>2. sz <= D
    BY <2>1
  <2> QED BY Zenon, <1>1, <2>2
<1> QED BY Zenon, <1>1, <1>6, <1>7, <1>8, <1>9 DEF Ones

\* When the exponent is no wider than the shifter, its difference is taken as it is.
LEMMA SingleShiftIs ==
  ASSUME NEW f, AdderFormat(f), NEW D \in 0..(Pow2[f.wE] - 1)
  PROVE  ShiftsBy(f, SingleShiftVal(f, D), D)
<1>1. PICK F \in Nat, e \in Nat : F = f.wF /\ e = f.wE
  BY DEF AdderFormat, NumberFormat
<1>2. PICK sz \in Nat \ {0}, p \in Nat \ {0} :
        sz = SizeRightShift(f) /\ p = Pow2[sz] /\ f.wF + 3 < p /\ Ones(SizeRightShift(f)) = p - 1 /\ sz <= f.wE
  BY ShifterReaches
<1>3. PICK G \in Nat \ {0} : G = Pow2[e]
  BY Pow2Def
<1>4. F + 3 < p /\ sz <= e /\ D \in 0..(G - 1)
  BY Zenon, <1>1, <1>2, <1>3
<1>5. CASE e > sz /\ D > F + 2
  <2>1. SingleShiftVal(f, D) = F + 3
    BY Zenon, <1>1, <1>2, <1>5 DEF SingleShiftVal
  <2>2. F + 3 \in 0..(p - 1) /\ F + 3 <= D
    BY <1>4, <1>5
  <2> QED BY Zenon, <1>1, <1>2, <2>1, <2>2 DEF ShiftsBy
<1>6. CASE ~(e > sz /\ D > F + 2)
  <2>1. SingleShiftVal(f, D) = Bits(D, sz - 1, 0)
    BY Zenon, <1>1, <1>2, <1>6 DEF SingleShiftVal
  <2>2. D \in 0..(p - 1)
    <3>1. CASE e > sz
      BY <1>4, <1>6, <3>1
    <3>2. CASE e = sz
      BY Zenon, <1>2, <1>3, <1>4, <3>2
    <3> QED BY <1>4, <3>1, <3>2
  <2>3. Bits(D, sz - 1, 0) = D
    <3>1. D \in Int /\ 0 \in Nat /\ sz \in Nat /\ (0 + sz) - 1 = sz - 1 /\ D \div 1 = D
      BY <2>2
    <3>2. Bits(D, (0 + sz) - 1, 0) = (D \div Pow2[0]) % Pow2[sz]
      BY ZenonT(40), <3>1, BitsDef
    <3>3. D % p = D
      BY <2>2
    <3> QED BY Zenon, <1>2, <3>1, <3>2, <3>3, SmallPowers
  <2> QED BY Zenon, <1>2, <2>1, <2>2, <2>3 DEF ShiftsBy
<1> QED BY Zenon, <1>5, <1>6

\* The slices of the rounded sum are an exponent, a fraction and two bits.
LEMMA SlicesExist ==
  ASSUME NEW f, NumberFormat(f), NEW r \in Int
  PROVE  \E top \in 0..3, h \in 0..(Pow2[f.wE] - 1), g \in 0..(Pow2[f.wF] - 1) : SingleSlices(f, r, top, h, g)
<1>1. PICK F \in Nat, e \in Nat : F = f.wF /\ e = f.wE
  BY DEF NumberFormat
<1>2. /\ (e + F) + 1 \in Nat /\ F + 1 \in Nat /\ 1 \in Nat /\ 2 \in Nat
      /\ (((e + F) + 1) + 2) - 1 = (e + F) + 2 /\ ((F + 1) + e) - 1 = e + F /\ (1 + F) - 1 = F
  OBVIOUS
<1>3. Bits(r, (((e + F) + 1) + 2) - 1, (e + F) + 1) \in 0..(Pow2[2] - 1)
  BY ZenonT(40), <1>2, BitsDef
<1>4. Bits(r, ((F + 1) + e) - 1, F + 1) \in 0..(Pow2[e] - 1)
  BY ZenonT(40), <1>2, BitsDef
<1>5. Bits(r, (1 + F) - 1, 1) \in 0..(Pow2[F] - 1)
  BY ZenonT(40), <1>2, BitsDef
<1>6. Bits(r, (e + F) + 2, (e + F) + 1) \in 0..3
  <2>1. 4 - 1 = 3
    OBVIOUS
  <2> QED BY Zenon, <1>2, <1>3, <2>1, SmallPowers
<1>7. Bits(r, f.wE + f.wF + 2, f.wE + f.wF + 1) \in 0..3
  BY Zenon, <1>1, <1>6
<1>8. Bits(r, f.wE + f.wF, f.wF + 1) \in 0..(Pow2[f.wE] - 1)
  BY Zenon, <1>1, <1>2, <1>4
<1>9. Bits(r, f.wF, 1) \in 0..(Pow2[f.wF] - 1)
  BY Zenon, <1>1, <1>2, <1>5
<1> QED BY Zenon, <1>7, <1>8, <1>9 DEF SingleSlices

\* The normalized sum.
SingleNorm(f, a, b, effSub, sv) ==
  Normalizer(f.wF + 5, f.wF + 5, f.wF + 5, 0,
             Cat(FracSum(f, a, Aligned(f, b, sv), effSub), 1, Aligned(f, b, sv).Sticky))

\* It is rounded to a vector, whatever the operands are.
LEMMA SingleRoundedType ==
  ASSUME NEW f, AdderFormat(f), NEW w \in Nat \ {0}, w = Pow2[f.wF],
         NEW a \in w..(2 * w - 1), NEW b \in 0..(2 * w - 1), NEW effSub \in 0..1,
         NEW sv \in 0..Ones(SizeRightShift(f)), NEW ex \in Nat
  PROVE  SingleRounded(f, ex, SingleNorm(f, a, b, effSub, sv)) \in Int
<1>1. PICK F \in Nat, e \in Nat : F = f.wF /\ e = f.wE
  BY DEF AdderFormat, NumberFormat
<1>2. sv \in Nat /\ b \in Nat /\ b < 2 * w
  <2>1. b \in Nat /\ b < 2 * w
    OBVIOUS
  <2>2. PICK sz \in Nat \ {0}, p \in Nat \ {0} :
          sz = SizeRightShift(f) /\ p = Pow2[sz] /\ f.wF + 3 < p /\ Ones(SizeRightShift(f)) = p - 1 /\ sz <= f.wE
    BY ShifterReaches
  <2>3. sv \in 0..(p - 1)
    BY Zenon, <2>2
  <2>4. sv \in Nat
    BY <2>3
  <2> QED BY Zenon, <2>1, <2>4
<1>3. PICK P \in Nat \ {0} : P = Pow2[sv]
  BY <1>2, Pow2Def
<1>4. PICK k \in Nat, l \in 0..(P - 1) : AlignedParts(f, b, sv, P, k, l)
  <2>1. Distance(f, b, sv, sv) /\ NumberFormat(f)
    BY Zenon DEF Distance, AdderFormat
  <2> QED BY ZenonT(60), <1>2, <1>3, <2>1, AlignedPartsAre
<1>5. PICK q \in Nat \ {0} : q = Pow2[F + 4] /\ Pow2[F + 5] = 2 * q
  <2>1. F + 4 \in Nat /\ (F + 4) + 1 = F + 5
    OBVIOUS
  <2>2. Pow2[(F + 4) + 1] = 2 * Pow2[F + 4] /\ Pow2[F + 4] \in Nat \ {0}
    BY Zenon, <2>1, Pow2Def
  <2> QED BY Zenon, <2>1, <2>2
<1>6. PICK al : al = Aligned(f, b, sv) /\ al.R = k /\ al.Sticky \in 0..1
  <2>1. Aligned(f, b, sv) = [R |-> k, Sticky |-> Flag(l # 0)]
    BY Zenon, <1>4 DEF AlignedParts
  <2>2. Flag(l # 0) \in 0..1
    BY DEF Flag
  <2> QED BY <2>1, <2>2
<1>7. FracSum(f, a, al, effSub) \in 0..(q - 1)
  <2>1. XorAll(F + 4, k, effSub) \in Int
    <3>1. (q - 1) - k \in Int /\ k \in Int
      OBVIOUS
    <3> QED BY Zenon, <1>5, <3>1 DEF XorAll, Not, Ones
  <2>2. Flag(effSub = 1 /\ al.Sticky = 0) \in Int
    BY DEF Flag
  <2>3. PICK i \in Int : i = a * 4 + XorAll(F + 4, k, effSub) + Flag(effSub = 1 /\ al.Sticky = 0)
    <3>1. a * 4 \in Int
      OBVIOUS
    <3> QED BY <2>1, <2>2, <3>1
  <2>4. FracSum(f, a, al, effSub) = i % q
    BY Zenon, <1>1, <1>5, <1>6, <2>3 DEF FracSum, IntAdder
  <2>5. i % q \in 0..(q - 1)
    OBVIOUS
  <2> QED BY Zenon, <2>4, <2>5
<1>8. PICK tot \in Nat : tot = Cat(FracSum(f, a, al, effSub), 1, al.Sticky) /\ tot < Pow2[F + 5]
  <2>1. PICK i \in 0..(q - 1), j \in 0..1 : i = FracSum(f, a, al, effSub) /\ j = al.Sticky
    BY Zenon, <1>6, <1>7
  <2>2. i * 2 + j \in Nat /\ i * 2 + j < 2 * q
    OBVIOUS
  <2> QED BY Zenon, <1>5, <2>1, <2>2, SmallPowers DEF Cat
<1>9. F + 5 \in Nat /\ 2 <= F + 5
  OBVIOUS
<1>10. PICK norm : norm = SingleNorm(f, a, b, effSub, sv) /\ norm.R \in Nat /\ norm.Count \in Int
  <2>1. SingleNorm(f, a, b, effSub, sv) = Normalizer(F + 5, F + 5, F + 5, 0, tot)
    BY Zenon, <1>1, <1>6, <1>8 DEF SingleNorm
  <2>2. CASE tot = 0
    <3>1. Normalizer(F + 5, F + 5, F + 5, 0, 0).Count = Ones(IntLog2(F + 5))
          /\ Normalizer(F + 5, F + 5, F + 5, 0, 0).R = 0
      BY ZenonT(40), <1>9, NothingNormalized
    <3>2. Ones(IntLog2(F + 5)) \in Int
      <4>1. IntLog2(F + 5) \in Nat
        BY ZenonT(40), <1>9, IntLog2Bounds
      <4>2. PICK i \in Nat : i = Pow2[IntLog2(F + 5)]
        BY <4>1, Pow2Def
      <4>3. i - 1 \in Int
        OBVIOUS
      <4> QED BY Zenon, <4>2, <4>3 DEF Ones
    <3>3. 0 \in Nat
      OBVIOUS
    <3> QED BY Zenon, <2>1, <2>2, <3>1, <3>2, <3>3
  <2>3. CASE tot # 0
    <3>1. tot \in Nat \ {0}
      BY <2>3
    <3>2. PICK z \in Nat, v \in Nat : NormalizedTo(F + 5, tot, z, v, Normalizer(F + 5, F + 5, F + 5, 0, tot))
      BY ZenonT(40), <1>8, <1>9, <3>1, NormalizedToIs
    <3>3. z \in Int
      OBVIOUS
    <3> QED BY Zenon, <2>1, <3>2, <3>3 DEF NormalizedTo
  <2> QED BY Zenon, <2>2, <2>3
<1>11. Bits(norm.R, F + 3, 3) \in Int
  <2>1. norm.R \in Int /\ 3 \in Nat /\ F + 1 \in Nat /\ (3 + (F + 1)) - 1 = F + 3
    BY <1>10
  <2>2. Bits(norm.R, (3 + (F + 1)) - 1, 3) \in 0..(Pow2[F + 1] - 1)
    BY ZenonT(40), <2>1, BitsDef
  <2>3. Bits(norm.R, F + 3, 3) \in 0..(Pow2[F + 1] - 1)
    BY Zenon, <2>1, <2>2
  <2> QED BY <2>3
<1>12. PICK c \in Nat \ {0}, m \in Nat \ {0}, b2 \in Nat \ {0} :
         c = Pow2[f.wE + 2] /\ m = Pow2[f.wE + f.wF + 3] /\ b2 = Pow2[f.wF + 1]
  <2>1. f.wE + 2 \in Nat /\ f.wE + f.wF + 3 \in Nat /\ f.wF + 1 \in Nat
    <3>1. e + 2 \in Nat /\ e + F + 3 \in Nat /\ F + 1 \in Nat
      OBVIOUS
    <3> QED BY Zenon, <1>1, <3>1
  <2> QED BY <2>1, Pow2Def
<1>13. PICK u \in Int : u = (ex + 1 - norm.Count) % c
  BY <1>10
<1>14. PICK i, n \in Int : /\ i = Bits(norm.R, f.wF + 3, 3)
                           /\ n = Flag(BitOf(norm.R, 3) = 1 /\ (Bits(norm.R, 2, 0) # 0 \/ BitOf(norm.R, 4) = 1))
  <2>1. Flag(BitOf(norm.R, 3) = 1 /\ (Bits(norm.R, 2, 0) # 0 \/ BitOf(norm.R, 4) = 1)) \in Int
    BY DEF Flag
  <2>2. Bits(norm.R, f.wF + 3, 3) \in Int
    BY Zenon, <1>1, <1>11
  <2> QED BY Zenon, <2>1, <2>2
<1>15. SingleRounded(f, ex, norm) = ((u * b2 + i) + 0 + n) % m
  BY Zenon, <1>12, <1>13, <1>14 DEF SingleRounded, IntAdder, Cat
<1>16. ((u * b2 + i) + 0 + n) % m \in Int
  <2>1. PICK i2 \in Int : i2 = u * b2
    OBVIOUS
  <2>2. ((i2 + i) + 0 + n) % m \in Int
    OBVIOUS
  <2> QED BY Zenon, <2>1, <2>2
<1> QED BY Zenon, <1>10, <1>15, <1>16

\* The single path, from the fields of its operands: a zero is added as no significand.
SingleIs(f, x, y, n1, s1, e1, n2, s2, a, b, sv, norm) ==
  SinglePath(f, x, y)
    = SingleResult(f, ExcRt(s1, s2, n1, n2),
                   IF n1 = ZeroExn /\ n2 = ZeroExn /\ XorBit(s1, s2) = 1 THEN 0 ELSE s1,
                   norm.Count = Ones(IntLog2(f.wF + 5)) /\ XorBit(s1, s2) = 1,
                   SingleRounded(f, e1, norm))
LEMMA SingleUnfolds ==
  ASSUME NEW f, NumberFormat(f), NEW x, NEW y, NEW n1, NEW s1, NEW e1, NEW fr1, NEW n2, NEW s2, NEW e2, NEW fr2,
         Fields(f, x, n1, s1, e1, fr1), Fields(f, y, n2, s2, e2, fr2),
         NEW a, a = Pow2[f.wF] + fr1, NEW b, b = IF n2 = ZeroExn THEN 0 ELSE Pow2[f.wF] + fr2,
         NEW sv, sv = SingleShiftVal(f, (e1 - e2) % Pow2[f.wE])
  PROVE  SingleIs(f, x, y, n1, s1, e1, n2, s2, a, b, sv, SingleNorm(f, a, b, XorBit(s1, s2), sv))
<1>1. /\ Exn(f, x) = n1 /\ Sign(f, x) = s1 /\ Exponent(f, x) = e1 /\ Significand(f, x) = a
      /\ Exn(f, y) = n2 /\ Sign(f, y) = s2 /\ Exponent(f, y) = e2 /\ Significand(f, y) = Pow2[f.wF] + fr2
  BY Zenon DEF Fields
<1>2. (IF Exn(f, y) = ZeroExn THEN 0 ELSE Significand(f, y)) = b
  BY Zenon, <1>1
<1>3. SingleShiftVal(f, (Exponent(f, x) - Exponent(f, y)) % Pow2[f.wE]) = sv
  BY Zenon, <1>1
<1> QED BY Zenon, <1>1, <1>2, <1>3 DEF SingleIs, SinglePath, SingleNorm

\* What the fields are when two numbers are in order.
OrderedParts(f, x, y, n1, s1, e1, fr1, n2, s2, e2, fr2) ==
  /\ Fields(f, x, n1, s1, e1, fr1) /\ Fields(f, y, n2, s2, e2, fr2)
  /\ Ordered(n1, e1, fr1, n2, e2, fr2)

\* A normal number in front: the alignment, the sum and its rounding.
LEMMA SingleNormal ==
  ASSUME NEW f, AdderFormat(f), NEW x, NEW y, NEW s1, NEW e1, NEW fr1, NEW n2, NEW s2, NEW e2, NEW fr2,
         OrderedParts(f, x, y, 1, s1, e1, fr1, n2, s2, e2, fr2), n2 \in 0..1
  PROVE  FPEqual(f, SinglePath(f, x, y), Sum(f, x, y))
<1>1. NumberFormat(f) /\ Fields(f, x, 1, s1, e1, fr1) /\ Fields(f, y, n2, s2, e2, fr2)
      /\ Ordered(1, e1, fr1, n2, e2, fr2)
  BY Zenon DEF AdderFormat, OrderedParts
<1>2. PICK w \in Nat \ {0}, G \in Nat \ {0} : w = Pow2[f.wF] /\ G = Pow2[f.wE]
  <2>1. f.wF \in Nat /\ f.wE \in Nat
    BY <1>1 DEF NumberFormat
  <2> QED BY <2>1, Pow2Def
<1>3. /\ e1 \in 0..(G - 1) /\ fr1 \in 0..(w - 1) /\ s1 \in 0..1 /\ e2 \in 0..(G - 1) /\ fr2 \in 0..(w - 1)
      /\ s2 \in 0..1
  BY Zenon, <1>1, <1>2 DEF Fields
<1>4. PICK a \in w..(2 * w - 1) : a = Pow2[f.wF] + fr1
  <2>1. w + fr1 \in w..(2 * w - 1)
    BY <1>3
  <2> QED BY Zenon, <1>2, <2>1
<1>5. PICK b \in 0..(2 * w - 1) : b = IF n2 = ZeroExn THEN 0 ELSE Pow2[f.wF] + fr2
  <2>1. w + fr2 \in 0..(2 * w - 1) /\ 0 \in 0..(2 * w - 1)
    BY <1>3
  <2> QED BY Zenon, <1>2, <2>1
<1>6. PICK effSub \in 0..1 : effSub = XorBit(s1, s2)
  <2>1. XorBit(s1, s2) \in 0..1
    BY <1>3 DEF XorBit
  <2> QED BY Zenon, <2>1
<1>7. PICK dg \in 0..(G - 1) : dg = (e1 - e2) % G /\ (e2 <= e1 => dg = e1 - e2)
  <2>1. (e1 - e2) % G \in 0..(G - 1) /\ (e2 <= e1 => (e1 - e2) % G = e1 - e2)
    BY <1>3
  <2> QED BY Zenon, <2>1
<1>8. PICK sv : sv = SingleShiftVal(f, (e1 - e2) % Pow2[f.wE]) /\ ShiftsBy(f, sv, dg)
  <2>1. dg \in 0..(Pow2[f.wE] - 1)
    BY Zenon, <1>2
  <2>2. ShiftsBy(f, SingleShiftVal(f, dg), dg)
    BY ZenonT(40), <2>1, SingleShiftIs
  <2> QED BY Zenon, <1>2, <1>7, <2>2
<1>9. PICK norm : norm = SingleNorm(f, a, b, effSub, sv)
  OBVIOUS
<1>10. SingleIs(f, x, y, 1, s1, e1, n2, s2, a, b, sv, norm)
  <2>1. SingleIs(f, x, y, 1, s1, e1, n2, s2, a, b, sv, SingleNorm(f, a, b, XorBit(s1, s2), sv))
    BY ZenonT(40), <1>1, <1>4, <1>5, <1>8, SingleUnfolds
  <2> QED BY Zenon, <1>6, <1>9, <2>1
<1>11. PICK D \in 0..e1 : Stands(f, n2, e2, fr2, e1, b, D) /\ Distance(f, b, sv, D)
                          /\ (n2 = 1 => D = e1 - e2)
  <2>1. CASE n2 = 1
    <3>1. e2 <= e1
      <4>1. ~(n2 < 1)
        BY <2>1
      <4> QED BY <1>1, <1>3, <2>1, <4>1 DEF Ordered
    <3>2. PICK D \in 0..e1 : D = e1 - e2 /\ D = dg
      <4>1. e1 - e2 \in 0..e1
        BY <1>3, <3>1
      <4> QED BY Zenon, <1>7, <3>1, <4>1
    <3>3. b = Pow2[f.wF] + fr2
      <4>1. n2 # 0
        BY <2>1
      <4> QED BY Zenon, <1>5, <4>1 DEF ZeroExn
    <3>4. Distance(f, b, sv, D)
      BY Zenon, <1>8, <3>2 DEF Distance, ShiftsBy
    <3>5. Stands(f, n2, e2, fr2, e1, b, D)
      BY Zenon, <2>1, <3>2, <3>3 DEF Stands
    <3> QED BY Zenon, <3>2, <3>4, <3>5
  <2>2. CASE n2 = 0
    <3>1. b = 0 /\ 0 \in 0..e1 /\ n2 # 1
      <4>1. 0 \in 0..e1 /\ n2 # 1
        BY <1>3, <2>2
      <4> QED BY Zenon, <1>5, <2>2, <4>1 DEF ZeroExn
    <3> QED BY Zenon, <2>2, <3>1 DEF Stands, Distance
  <2> QED BY <2>1, <2>2
<1>12. PICK P \in Nat \ {0} : P = Pow2[D] /\ (D # 0 => 2 <= P) /\ (D = 0 => P = 1)
  <2>1. D \in Nat
    BY <1>3
  <2>2. PICK P \in Nat \ {0} : P = Pow2[D]
    BY <2>1, Pow2Def
  <2>3. D # 0 => 2 <= P
    <3>1. SUFFICES ASSUME D # 0 PROVE 2 <= P
      OBVIOUS
    <3>2. 1 \in Nat /\ 1 <= D
      BY <2>1, <3>1
    <3>3. Pow2[1] <= Pow2[D]
      BY ZenonT(40), <2>1, <3>2, Pow2Monotone
    <3> QED BY Zenon, <2>2, <3>3, SmallPowers
  <2> QED BY Zenon, <2>2, <2>3, SmallPowers
<1>13. PICK K : K = ExactSumOf(a, b, P, effSub)
  OBVIOUS
<1>14. SumFrom(f, x, y, s1, Pow2[e1 - D], K) /\ K \in Int
  <2>1. K = ExactSumOf(Pow2[f.wF] + fr1, b, P, XorBit(s1, s2))
    BY Zenon, <1>4, <1>6, <1>13
  <2> QED BY ZenonT(60), <1>1, <1>11, <1>12, <2>1, SumFromIs
<1>15. K \in Nat /\ (effSub = 0 => K # 0)
  <2>1. CASE effSub = 0
    <3>1. a * P \in Nat \ {0}
      <4>1. a \in Nat \ {0}
        OBVIOUS
      <4> QED BY <4>1
    <3>2. PICK i \in Nat \ {0} : i = a * P
      BY Zenon, <3>1
    <3>3. K = i + b
      <4>1. effSub # 1
        BY <2>1
      <4> QED BY Zenon, <1>13, <3>2, <4>1 DEF ExactSumOf
    <3> QED BY <3>3
  <2>2. CASE effSub = 1
    <3>1. b <= a * P
      <4>1. CASE D # 0
        <5>1. PICK i \in Nat : P = 2 + i
          <6>1. P - 2 \in Nat /\ P = 2 + (P - 2)
            BY <1>12, <4>1
          <6> QED BY <6>1
        <5>2. a * P = a * 2 + a * i /\ a * i \in Nat
          BY <5>1
        <5>3. PICK i2, i3 \in Int : i2 = a * i /\ i3 = a * P
          OBVIOUS
        <5>4. i3 = a * 2 + i2 /\ i2 \in Nat
          BY Zenon, <5>2, <5>3
        <5>5. b <= i3
          BY <5>4
        <5> QED BY Zenon, <5>3, <5>5
      <4>2. CASE D = 0
        <5>1. P = 1 /\ a * 1 = a
          BY <1>12, <4>2
        <5>2. b <= a
          <6>1. CASE n2 = 0
            <7>1. b = 0
              BY Zenon, <1>5, <6>1 DEF ZeroExn
            <7> QED BY <7>1
          <6>2. CASE n2 = 1
            <7>1. e1 = e2 /\ ~(n2 < 1) /\ ~(e2 < e1)
              <8>1. 0 = e1 - e2
                BY Zenon, <1>11, <4>2, <6>2
              <8> QED BY <1>3, <6>2, <8>1
            <7>2. fr2 <= fr1
              BY Zenon, <1>1, <7>1 DEF Ordered
            <7>3. b = w + fr2
              <8>1. n2 # 0
                BY <6>2
              <8> QED BY Zenon, <1>2, <1>5, <8>1 DEF ZeroExn
            <7>4. a = w + fr1
              BY Zenon, <1>2, <1>4
            <7> QED BY <1>3, <7>2, <7>3, <7>4
          <6> QED BY <6>1, <6>2
        <5> QED BY Zenon, <5>1, <5>2
      <4> QED BY Zenon, <4>1, <4>2
    <3>2. PICK i \in Int : i = a * P
      OBVIOUS
    <3>3. b <= i /\ K = i - b
      BY Zenon, <1>13, <2>2, <3>1, <3>2 DEF ExactSumOf
    <3>4. effSub # 0
      BY <2>2
    <3> QED BY <3>3, <3>4
  <2> QED BY <2>1, <2>2
<1>16. PICK n \in Nat : n = Pow2[e1 - D] * K /\ (n = 0 <=> K = 0)
  <2>1. e1 - D \in Nat
    BY <1>3
  <2>2. PICK Q \in Nat \ {0} : Q = Pow2[e1 - D]
    BY <2>1, Pow2Def
  <2>3. PICK k \in Nat : k = K
    BY <1>15
  <2>4. Q * k \in Nat /\ (Q * k = 0 <=> k = 0)
    OBVIOUS
  <2> QED BY Zenon, <2>2, <2>3, <2>4
<1>17. SingleOutcome(f, e1, norm, s1, n)
  <2>1. sv \in 0..Ones(SizeRightShift(f)) /\ e1 \in 0..(Pow2[f.wE] - 1)
    BY Zenon, <1>2, <1>3, <1>8 DEF ShiftsBy
  <2>2. norm = Normalizer(f.wF + 5, f.wF + 5, f.wF + 5, 0,
                          Cat(FracSum(f, a, Aligned(f, b, sv), effSub), 1, Aligned(f, b, sv).Sticky))
    BY Zenon, <1>9 DEF SingleNorm
  <2>3. SingleOutcome(f, e1, norm, s1, Pow2[e1 - D] * K)
    BY ZenonT(90), <1>2, <1>3, <1>11, <1>12, <1>13, <1>15, <2>1, <2>2, SingleOutcomeIs
  <2> QED BY Zenon, <1>16, <2>3
<1>18. Sum(f, x, y) = IF n = 0 THEN Zero(f, 0) ELSE Rounded(f, s1, n, 1, -(f.wF + Bias(f)))
  <2>1. K = 0 \/ (K # 0 /\ K > 0 /\ AbsOf(K) = K)
    BY <1>15 DEF AbsOf
  <2>2. CASE K = 0
    <3>1. Sum(f, x, y) = Zero(f, 0)
      BY Zenon, <1>14, <2>2 DEF SumFrom
    <3> QED BY Zenon, <1>16, <2>2, <3>1
  <2>3. CASE K # 0 /\ K > 0 /\ AbsOf(K) = K
    <3>1. Sum(f, x, y) = Rounded(f, s1, Pow2[e1 - D] * K, 1, -(f.wF + Bias(f)))
      BY Zenon, <1>14, <2>3 DEF SumFrom
    <3> QED BY Zenon, <1>16, <2>3, <3>1
  <2> QED BY Zenon, <2>1, <2>2, <2>3
<1>19. ExcRt(s1, s2, 1, n2) = 1
  <2>1. 1 # 0 /\ (n2 = 0 \/ n2 = 1)
    OBVIOUS
  <2>2. {1, n2} \in {{1}, {0, 1}}
    <3>1. CASE n2 = 0
      <4>1. {1, n2} = {0, 1}
        BY <3>1
      <4> QED BY Zenon, <4>1
    <3>2. CASE n2 = 1
      <4>1. {1, n2} = {1}
        BY <3>2
      <4> QED BY Zenon, <4>1
    <3> QED BY Zenon, <2>1, <3>1, <3>2
  <2> QED BY Zenon, <2>1, <2>2 DEF ExcRt, ZeroExn, NormalExn
<1>20. PICK rounded : rounded = SingleRounded(f, e1, norm)
  OBVIOUS
<1>21. SinglePath(f, x, y)
         = SingleResult(f, 1, s1, norm.Count = Ones(IntLog2(f.wF + 5)) /\ effSub = 1, rounded)
  <2>1. 1 # 0
    OBVIOUS
  <2> QED BY Zenon, <1>6, <1>10, <1>19, <1>20, <2>1 DEF SingleIs, ZeroExn
<1>22. CASE n = 0
  <2>1. effSub = 1
    BY <1>15, <1>16, <1>22
  <2>2. norm.Count = Ones(IntLog2(f.wF + 5))
    BY Zenon, <1>17, <1>22 DEF SingleOutcome
  <2>3. PICK top \in 0..3, h \in 0..(Pow2[f.wE] - 1), g \in 0..(Pow2[f.wF] - 1) : SingleSlices(f, rounded, top, h, g)
    <3>1. rounded \in Int
      <4>1. sv \in 0..Ones(SizeRightShift(f)) /\ e1 \in Nat
        <5>1. e1 \in Nat
          BY <1>3
        <5> QED BY Zenon, <1>8, <5>1 DEF ShiftsBy
      <4> QED BY ZenonT(60), <1>2, <1>9, <1>20, <4>1, SingleRoundedType
    <3> QED BY ZenonT(40), <1>1, <3>1, SlicesExist
  <2>4. SinglePath(f, x, y) = Encode(f, 0, 0, h, g)
    <3>1. 1 # 3
      OBVIOUS
    <3> QED BY Zenon, <1>21, <2>1, <2>2, <2>3, <3>1 DEF SingleResult, SingleSlices, NaNExn, ZeroExn
  <2>5. Sum(f, x, y) = Encode(f, 0, 0, 0, 0)
    BY Zenon, <1>18, <1>22 DEF Zero, ZeroExn
  <2>6. OtherAgree(f, 0, 0, h, g, 0, 0)
    <3>1. 0 \in 0..1 /\ 0 \in {0, 2, 3} /\ 0 \in 0..(Pow2[f.wE] - 1) /\ 0 \in 0..(Pow2[f.wF] - 1)
      <4>1. 0 \in 0..(G - 1) /\ 0 \in 0..(w - 1) /\ 0 \in 0..1 /\ 0 \in {0, 2, 3}
        OBVIOUS
      <4> QED BY Zenon, <1>2, <4>1
    <3> QED BY ZenonT(40), <1>1, <3>1, EncodingsAgree
  <2> QED BY Zenon, <2>4, <2>5, <2>6 DEF OtherAgree
<1>23. CASE n # 0
  <2>1. norm.Count # Ones(IntLog2(f.wF + 5)) /\ Packs(f, rounded, s1, n)
    BY Zenon, <1>17, <1>20, <1>23 DEF SingleOutcome
  <2>2. PICK g \in 0..(Pow2[f.wF] - 1), top \in 0..3, h \in 0..(Pow2[f.wE] - 1) :
          /\ SingleSlices(f, rounded, top, h, g)
          /\ FPEqual(f, Encode(f, IF top = 0 THEN NormalExn ELSE IF top = 1 THEN InfExn ELSE ZeroExn, s1, h, g),
                     Rounded(f, s1, n, 1, -(f.wF + Bias(f))))
    BY Zenon, <2>1 DEF Packs
  <2>3. ExcRt2(top, 1) = IF top = 0 THEN NormalExn ELSE IF top = 1 THEN InfExn ELSE ZeroExn
    BY Zenon DEF ExcRt2, NormalExn
  <2>4. SinglePath(f, x, y) = Encode(f, ExcRt2(top, 1), s1, h, g)
    BY Zenon, <1>21, <2>1, <2>2 DEF SingleResult, SingleSlices
  <2> QED BY Zenon, <1>18, <1>23, <2>2, <2>3, <2>4
<1> QED BY Zenon, <1>22, <1>23

\* The encodings of no number agree.
LEMMA NaNsAgree ==
  ASSUME NEW f, NumberFormat(f), NEW s \in 0..1, NEW h \in 0..(Pow2[f.wE] - 1), NEW g \in 0..(Pow2[f.wF] - 1)
  PROVE  FPEqual(f, Encode(f, 3, s, h, g), NaN(f))
<1>1. 3 \in 0..3 /\ 0 \in 0..1 /\ 0 \in 0..(Pow2[f.wE] - 1) /\ 0 \in 0..(Pow2[f.wF] - 1)
  <2>1. PICK w \in Nat \ {0}, G \in Nat \ {0} : w = Pow2[f.wF] /\ G = Pow2[f.wE]
    <3>1. f.wF \in Nat /\ f.wE \in Nat
      BY DEF NumberFormat
    <3> QED BY <3>1, Pow2Def
  <2>2. 3 \in 0..3 /\ 0 \in 0..1 /\ 0 \in 0..(G - 1) /\ 0 \in 0..(w - 1)
    OBVIOUS
  <2> QED BY Zenon, <2>1, <2>2
<1>2. Exn(f, Encode(f, 3, s, h, g)) = 3 /\ Exn(f, Encode(f, 3, 0, 0, 0)) = 3
  BY ZenonT(40), <1>1, EncodedFields
<1>3. 3 # 1
  OBVIOUS
<1>4. PICK v, n : v = Encode(f, 3, s, h, g) /\ n = NaN(f) /\ Exn(f, v) = 3 /\ Exn(f, n) = 3
  BY Zenon, <1>2 DEF NaN, NaNExn
<1>5. FPEqual(f, v, n)
  BY Zenon, <1>3, <1>4 DEF FPEqual, NormalExn, NaNExn
<1> QED BY Zenon, <1>4, <1>5

\* The exceptions of two operands that are not both finite, or are both zero.
ExceptionsAre(s1, s2) ==
  /\ \A n \in 0..3 : ExcRt(s1, s2, 3, n) = 3
  /\ s1 # s2 => ExcRt(s1, s2, 2, 2) = 3
  /\ s1 = s2 => ExcRt(s1, s2, 2, 2) = 2
  /\ ExcRt(s1, s2, 2, 0) = 2
  /\ ExcRt(s1, s2, 0, 0) = 0
LEMMA ExceptionsOf ==
  ASSUME NEW s1 \in 0..1, NEW s2 \in 0..1
  PROVE  ExceptionsAre(s1, s2)
BY DEF ExceptionsAre, ExcRt, ZeroExn, NormalExn, InfExn, NaNExn

\* An exceptional number in front decides the exception of the sum.
LEMMA SingleExceptional ==
  ASSUME NEW f, AdderFormat(f), NEW x, NEW y,
         NEW n1, NEW s1, NEW e1, NEW fr1, NEW n2, NEW s2, NEW e2, NEW fr2,
         OrderedParts(f, x, y, n1, s1, e1, fr1, n2, s2, e2, fr2), n1 # 1, ~(n1 = 2 /\ n2 = 1)
  PROVE  FPEqual(f, SinglePath(f, x, y), Sum(f, x, y))
<1>1. NumberFormat(f) /\ Fields(f, x, n1, s1, e1, fr1) /\ Fields(f, y, n2, s2, e2, fr2)
      /\ Ordered(n1, e1, fr1, n2, e2, fr2)
  BY Zenon DEF AdderFormat, OrderedParts
<1>2. PICK w \in Nat \ {0}, G \in Nat \ {0} : w = Pow2[f.wF] /\ G = Pow2[f.wE]
  <2>1. f.wF \in Nat /\ f.wE \in Nat
    BY <1>1 DEF NumberFormat
  <2> QED BY <2>1, Pow2Def
<1>3. /\ e1 \in 0..(G - 1) /\ fr1 \in 0..(w - 1) /\ s1 \in 0..1 /\ e2 \in 0..(G - 1) /\ fr2 \in 0..(w - 1)
      /\ s2 \in 0..1 /\ n1 \in 0..3 /\ n2 \in 0..3
      /\ Exn(f, x) = n1 /\ Exn(f, y) = n2 /\ Sign(f, x) = s1 /\ Sign(f, y) = s2
  BY Zenon, <1>1, <1>2 DEF Fields
<1>4. PICK a \in w..(2 * w - 1) : a = Pow2[f.wF] + fr1
  <2>1. w + fr1 \in w..(2 * w - 1)
    BY <1>3
  <2> QED BY Zenon, <1>2, <2>1
<1>5. PICK b \in 0..(2 * w - 1) : b = IF n2 = ZeroExn THEN 0 ELSE Pow2[f.wF] + fr2
  <2>1. w + fr2 \in 0..(2 * w - 1) /\ 0 \in 0..(2 * w - 1)
    BY <1>3
  <2> QED BY Zenon, <1>2, <2>1
<1>6. PICK effSub \in 0..1 : effSub = XorBit(s1, s2) /\ (effSub = 1 <=> s1 # s2)
  <2>1. XorBit(s1, s2) \in 0..1 /\ (XorBit(s1, s2) = 1 <=> s1 # s2)
    BY <1>3 DEF XorBit
  <2> QED BY Zenon, <2>1
<1>7. PICK sv : sv = SingleShiftVal(f, (e1 - e2) % Pow2[f.wE]) /\ sv \in 0..Ones(SizeRightShift(f))
  <2>1. (e1 - e2) % G \in 0..(G - 1)
    BY <1>3
  <2>2. PICK dg \in 0..(Pow2[f.wE] - 1) : dg = (e1 - e2) % Pow2[f.wE]
    BY Zenon, <1>2, <2>1
  <2>3. ShiftsBy(f, SingleShiftVal(f, dg), dg)
    BY ZenonT(40), SingleShiftIs
  <2> QED BY Zenon, <2>2, <2>3 DEF ShiftsBy
<1>8. PICK norm : norm = SingleNorm(f, a, b, effSub, sv)
  OBVIOUS
<1>9. e1 \in Nat
  BY <1>3
<1>10. PICK rounded \in Int : rounded = SingleRounded(f, e1, norm)
  <2>1. SingleRounded(f, e1, norm) \in Int
    BY ZenonT(60), <1>2, <1>7, <1>8, <1>9, SingleRoundedType
  <2> QED BY Zenon, <2>1
<1>11. PICK top \in 0..3, h \in 0..(Pow2[f.wE] - 1), g \in 0..(Pow2[f.wF] - 1) : SingleSlices(f, rounded, top, h, g)
  BY ZenonT(40), <1>1, SlicesExist
<1>12. PICK cancelled \in BOOLEAN : cancelled = (norm.Count = Ones(IntLog2(f.wF + 5)) /\ XorBit(s1, s2) = 1)
  BY Zenon
<1>13. PICK signR \in 0..1 : signR = IF n1 = ZeroExn /\ n2 = ZeroExn /\ XorBit(s1, s2) = 1 THEN 0 ELSE s1
  <2>1. 0 \in 0..1
    OBVIOUS
  <2> QED BY Zenon, <1>3, <2>1
<1>14. SinglePath(f, x, y) =
         Encode(f, IF cancelled /\ ExcRt(s1, s2, n1, n2) # NaNExn THEN ZeroExn ELSE ExcRt2(top, ExcRt(s1, s2, n1, n2)),
                IF cancelled THEN 0 ELSE signR, h, g)
  <2>1. SingleIs(f, x, y, n1, s1, e1, n2, s2, a, b, sv, SingleNorm(f, a, b, XorBit(s1, s2), sv))
    BY ZenonT(40), <1>1, <1>4, <1>5, <1>7, SingleUnfolds
  <2>2. SingleIs(f, x, y, n1, s1, e1, n2, s2, a, b, sv, norm)
    BY Zenon, <1>6, <1>8, <2>1
  <2>3. SinglePath(f, x, y) = SingleResult(f, ExcRt(s1, s2, n1, n2), signR, cancelled, rounded)
    BY Zenon, <1>10, <1>12, <1>13, <2>2 DEF SingleIs
  <2> QED BY Zenon, <1>11, <2>3 DEF SingleResult, SingleSlices
<1>15. n2 = 0 => ~cancelled
  <2>1. SUFFICES ASSUME n2 = 0
                 PROVE  ~cancelled
    OBVIOUS
  <2>2. b = 0
    BY Zenon, <1>5, <2>1 DEF ZeroExn
  <2>3. PICK D \in 0..e1 : D = 0
    BY <1>9
  <2>4. PICK P \in Nat \ {0} : P = 1 /\ P = Pow2[D]
    <3>1. 1 \in Nat \ {0}
      OBVIOUS
    <3> QED BY Zenon, <2>3, <3>1, SmallPowers
  <2>5. PICK N \in Nat \ {0} : N = ExactSumOf(a, b, P, effSub)
    <3>1. a * 1 - 0 = a /\ a * 1 + 0 = a /\ a \in Nat \ {0}
      OBVIOUS
    <3> QED BY Zenon, <2>2, <2>4, <3>1 DEF ExactSumOf
  <2>6. Distance(f, b, sv, D)
    BY Zenon, <2>2 DEF Distance
  <2>7. N \in Nat /\ e1 \in 0..(Pow2[f.wE] - 1)
    BY <1>2, <1>3
  <2>8. norm = Normalizer(f.wF + 5, f.wF + 5, f.wF + 5, 0,
                          Cat(FracSum(f, a, Aligned(f, b, sv), effSub), 1, Aligned(f, b, sv).Sticky))
    BY Zenon, <1>8 DEF SingleNorm
  <2>9. SingleOutcome(f, e1, norm, s1, Pow2[e1 - D] * N)
    BY ZenonT(90), <1>2, <1>3, <1>7, <2>4, <2>5, <2>6, <2>7, <2>8, SingleOutcomeIs
  <2>10. Pow2[e1 - D] * N # 0
    <3>1. e1 - D \in Nat
      BY <1>9
    <3>2. PICK Q \in Nat \ {0} : Q = Pow2[e1 - D]
      BY <3>1, Pow2Def
    <3>3. Q * N # 0
      OBVIOUS
    <3> QED BY Zenon, <3>2, <3>3
  <2> QED BY Zenon, <1>12, <2>9, <2>10 DEF SingleOutcome
<1>16. PICK sg \in 0..1 : sg = IF cancelled THEN 0 ELSE signR
  <2>1. 0 \in 0..1
    OBVIOUS
  <2> QED BY Zenon, <2>1
<1>17. ASSUME ExcRt(s1, s2, n1, n2) = 3, Sum(f, x, y) = NaN(f)
       PROVE  FPEqual(f, SinglePath(f, x, y), Sum(f, x, y))
  <2>1. ExcRt2(top, 3) = 3
    BY DEF ExcRt2, NormalExn
  <2>2. SinglePath(f, x, y) = Encode(f, 3, sg, h, g)
    BY Zenon, <1>14, <1>16, <1>17, <2>1 DEF NaNExn
  <2>3. FPEqual(f, Encode(f, 3, sg, h, g), NaN(f))
    BY ZenonT(40), <1>1, NaNsAgree
  <2> QED BY Zenon, <1>17, <2>2, <2>3
<1>18. ASSUME NEW e \in {0, 2}, ExcRt(s1, s2, n1, n2) = e, ~cancelled, Sum(f, x, y) = Encode(f, e, signR, 0, 0)
       PROVE  FPEqual(f, SinglePath(f, x, y), Sum(f, x, y))
  <2>1. ExcRt2(top, e) = e /\ e \in {0, 2, 3}
    BY DEF ExcRt2, NormalExn
  <2>2. SinglePath(f, x, y) = Encode(f, e, signR, h, g)
    BY Zenon, <1>14, <1>18, <2>1
  <2>3. 0 \in 0..(Pow2[f.wE] - 1) /\ 0 \in 0..(Pow2[f.wF] - 1)
    <3>1. 0 \in 0..(G - 1) /\ 0 \in 0..(w - 1)
      OBVIOUS
    <3> QED BY Zenon, <1>2, <3>1
  <2>4. OtherAgree(f, signR, e, h, g, 0, 0)
    BY ZenonT(40), <1>1, <2>1, <2>3, EncodingsAgree
  <2> QED BY Zenon, <1>18, <2>2, <2>4 DEF OtherAgree
<1>19. /\ 0 \in {0, 2} /\ 2 \in {0, 2} /\ 0 # 1 /\ 0 # 2 /\ 0 # 3 /\ 1 # 2 /\ 1 # 3 /\ 2 # 3 /\ 2 # 0 /\ 3 # 0
  OBVIOUS
<1>26. ExceptionsAre(s1, s2)
  BY Zenon, <1>3, ExceptionsOf
<1>20. CASE n1 = 3
  <2>1. ExcRt(s1, s2, n1, n2) = 3
    BY Zenon, <1>3, <1>20, <1>26 DEF ExceptionsAre
  <2>2. Sum(f, x, y) = NaN(f)
    BY Zenon, <1>3, <1>20 DEF Sum, NaNExn
  <2> QED BY Zenon, <1>17, <2>1, <2>2
<1>21. CASE n1 = 2 /\ n2 = 2 /\ s1 # s2
  <2>1. ExcRt(s1, s2, n1, n2) = 3
    BY Zenon, <1>3, <1>21, <1>26 DEF ExceptionsAre
  <2>2. Sum(f, x, y) = NaN(f)
    BY Zenon, <1>3, <1>21 DEF Sum, NaNExn, InfExn
  <2> QED BY Zenon, <1>17, <2>1, <2>2
<1>22. CASE n1 = 2 /\ n2 = 2 /\ s1 = s2
  <2>1. ExcRt(s1, s2, n1, n2) = 2
    BY Zenon, <1>3, <1>22, <1>26 DEF ExceptionsAre
  <2>2. ~cancelled /\ signR = s1
    BY Zenon, <1>6, <1>12, <1>13, <1>19, <1>22 DEF ZeroExn
  <2>3. Sum(f, x, y) = Infinity(f, s1)
    BY Zenon, <1>3, <1>19, <1>22 DEF Sum, NaNExn, InfExn
  <2>4. Sum(f, x, y) = Encode(f, 2, signR, 0, 0)
    BY Zenon, <2>2, <2>3 DEF Infinity, InfExn
  <2> QED BY Zenon, <1>18, <1>19, <2>1, <2>2, <2>4
<1>23. CASE n1 = 2 /\ n2 = 0
  <2>1. ExcRt(s1, s2, n1, n2) = 2
    BY Zenon, <1>3, <1>23, <1>26 DEF ExceptionsAre
  <2>2. ~cancelled /\ signR = s1
    BY Zenon, <1>13, <1>15, <1>19, <1>23 DEF ZeroExn
  <2>3. Sum(f, x, y) = Infinity(f, s1)
    BY Zenon, <1>3, <1>19, <1>23 DEF Sum, NaNExn, InfExn
  <2>4. Sum(f, x, y) = Encode(f, 2, signR, 0, 0)
    BY Zenon, <2>2, <2>3 DEF Infinity, InfExn
  <2> QED BY Zenon, <1>18, <1>19, <2>1, <2>2, <2>4
<1>24. CASE n1 = 0 /\ n2 = 0
  <2>1. ExcRt(s1, s2, n1, n2) = 0
    BY Zenon, <1>3, <1>24, <1>26 DEF ExceptionsAre
  <2>2. ~cancelled
    BY Zenon, <1>15, <1>24
  <2>3. signR = SmallerOf(s1, s2)
    <3>1. signR = IF s1 # s2 THEN 0 ELSE s1
      BY Zenon, <1>6, <1>13, <1>24 DEF ZeroExn
    <3>2. s1 \in 0..1 /\ s2 \in 0..1
      BY Zenon, <1>3
    <3>3. SmallerOf(s1, s2) = IF s1 < s2 THEN s1 ELSE s2
      BY Zenon DEF SmallerOf
    <3>4. (IF s1 < s2 THEN s1 ELSE s2) = IF s1 # s2 THEN 0 ELSE s1
      BY <3>2
    <3> QED BY Zenon, <3>1, <3>3, <3>4
  <2>4. Sum(f, x, y) = Zero(f, SmallerOf(s1, s2))
    BY Zenon, <1>3, <1>19, <1>24 DEF Sum, NaNExn, InfExn, ZeroExn
  <2>5. Sum(f, x, y) = Encode(f, 0, signR, 0, 0)
    BY Zenon, <2>3, <2>4 DEF Zero, ZeroExn
  <2> QED BY Zenon, <1>18, <1>19, <2>1, <2>2, <2>5
<1>25. n1 = 3 \/ (n1 = 2 /\ n2 = 2) \/ (n1 = 2 /\ n2 = 0) \/ (n1 = 0 /\ n2 = 0)
  BY <1>1, <1>3 DEF Ordered
<1> QED BY Zenon, <1>20, <1>21, <1>22, <1>23, <1>24, <1>25

\* The single-path adder gives the correctly rounded sum, unless exactly one operand is
\* infinite and the other a normal number.
LEMMA SinglePathIs ==
  ASSUME NEW f, AdderFormat(f), NEW x \in Numbers(f), NEW y \in Numbers(f), NEW sub,
         {Exn(f, x), Exn(f, y)} # {2, 1}
  PROVE  FPEqual(f, FPAddSinglePath(f, sub, x, y), Sum(f, x, Operand(f, sub, y)))
<1>1. NumberFormat(f)
  BY Zenon DEF AdderFormat
<1>2. PICK n1 \in 0..3, s1 \in 0..1, e1 \in 0..(Pow2[f.wE] - 1), fr1 \in 0..(Pow2[f.wF] - 1) :
        Fields(f, x, n1, s1, e1, fr1)
  BY ZenonT(40), <1>1, NumberHasParts
<1>3. PICK n2 \in 0..3, s0 \in 0..1, e2 \in 0..(Pow2[f.wE] - 1), fr2 \in 0..(Pow2[f.wF] - 1) :
        Fields(f, y, n2, s0, e2, fr2)
  BY ZenonT(40), <1>1, NumberHasParts
<1>4. PICK s2 \in 0..1 : Fields(f, Operand(f, sub, y), n2, s2, e2, fr2)
  BY ZenonT(40), <1>1, <1>3, OperandHasParts
<1>5. ~(n1 = 2 /\ n2 = 1) /\ ~(n2 = 2 /\ n1 = 1)
  <2>1. Exn(f, x) = n1 /\ Exn(f, y) = n2
    BY Zenon, <1>2, <1>3 DEF Fields
  <2>2. {1, 2} = {2, 1}
    OBVIOUS
  <2> QED BY Zenon, <2>1, <2>2
<1>6. PICK z : z = Operand(f, sub, y) /\ Fields(f, z, n2, s2, e2, fr2)
  BY Zenon, <1>4
<1>7. ASSUME NEW u, NEW v, NEW m1, NEW r1, NEW i1, NEW j1, NEW m2, NEW r2, NEW i2, NEW j2,
             OrderedParts(f, u, v, m1, r1, i1, j1, m2, r2, i2, j2), ~(m1 = 2 /\ m2 = 1)
      PROVE  FPEqual(f, SinglePath(f, u, v), Sum(f, u, v))
  <2>1. CASE m1 # 1
    BY ZenonT(40), <1>7, <2>1, SingleExceptional
  <2>2. CASE m1 = 1
    <3>1. m2 \in 0..1
      <4>1. m2 \in 0..3 /\ Ordered(m1, i1, j1, m2, i2, j2)
        BY Zenon, <1>7 DEF OrderedParts, Fields
      <4> QED BY <2>2, <4>1 DEF Ordered
    <3> QED BY ZenonT(40), <1>7, <2>2, <3>1, SingleNormal
  <2> QED BY Zenon, <2>1, <2>2
<1>8. CASE Larger(f, x, z)
  <2>1. Larger(f, x, y)
    <3>1. Cat(Exn(f, z), f.wE + f.wF, Bits(z, f.wE + f.wF - 1, 0)) = Cat(Exn(f, y), f.wE + f.wF, Bits(y, f.wE + f.wF - 1, 0))
      BY Zenon, <1>3, <1>6 DEF Fields
    <3> QED BY Zenon, <1>8, <3>1 DEF Larger
  <2>2. Ordered(n1, e1, fr1, n2, e2, fr2)
    BY ZenonT(40), <1>1, <1>2, <1>6, <1>8, LargerIs
  <2>3. OrderedParts(f, x, z, n1, s1, e1, fr1, n2, s2, e2, fr2)
    BY Zenon, <1>2, <1>6, <2>2 DEF OrderedParts
  <2>4. FPEqual(f, SinglePath(f, x, z), Sum(f, x, z))
    BY Zenon, <1>5, <1>7, <2>3
  <2> QED BY Zenon, <1>6, <2>1, <2>4 DEF FPAddSinglePath
<1>9. CASE ~Larger(f, x, z)
  <2>1. ~Larger(f, x, y)
    <3>1. Cat(Exn(f, z), f.wE + f.wF, Bits(z, f.wE + f.wF - 1, 0)) = Cat(Exn(f, y), f.wE + f.wF, Bits(y, f.wE + f.wF - 1, 0))
      BY Zenon, <1>3, <1>6 DEF Fields
    <3> QED BY Zenon, <1>9, <3>1 DEF Larger
  <2>2. Ordered(n2, e2, fr2, n1, e1, fr1)
    BY ZenonT(40), <1>1, <1>2, <1>6, <1>9, LargerIs
  <2>3. OrderedParts(f, z, x, n2, s2, e2, fr2, n1, s1, e1, fr1)
    BY Zenon, <1>2, <1>6, <2>2 DEF OrderedParts
  <2>4. FPEqual(f, SinglePath(f, z, x), Sum(f, z, x))
    BY Zenon, <1>5, <1>7, <2>3
  <2>5. Sum(f, z, x) = Sum(f, x, z)
    BY ZenonT(40), <1>1, <1>2, <1>6, SumCommutes
  <2> QED BY Zenon, <1>6, <2>1, <2>4, <2>5 DEF FPAddSinglePath
<1> QED BY Zenon, <1>8, <1>9

-----------------------------------------------------------------------------
(***************************************************************************)
(* The dual path: what either path gives, and what becomes of it.          *)
(***************************************************************************)
\* The path gives the significand q in units 2^E, to be rounded up by u.
PathGives(f, path, sign, E, q, u) ==
  /\ path.sign = sign /\ path.isZero = FALSE /\ path.round = u
  /\ path.before = (E % Pow2[f.wE + 2]) * Pow2[f.wF] + (q - Pow2[f.wF])
DualOf(f, x, y, path) ==
  DualResult(f, x, y, path, IntAdder(f.wE + f.wF + 2, path.before, 0, path.round))

DualNormalIs(f, x, y, path, v) ==
  DualResult(f, x, y, path, v)
    = Encode(f, IF Bits(v, f.wE + f.wF + 1, f.wE + f.wF) > 1 \/ path.isZero THEN 0
                ELSE 1 + Bits(v, f.wE + f.wF + 1, f.wE + f.wF), path.sign, 0, 0)
        + Bits(v, f.wE + f.wF - 1, 0)
\* The result of two normal numbers is that of the path.
LEMMA DualNormal ==
  ASSUME NEW f, NEW x, NEW y, Exn(f, x) = 1, Exn(f, y) = 1, NEW path, NEW v
  PROVE  DualNormalIs(f, x, y, path, v)
<1>1. <<Exn(f, x), Exn(f, y)>> = <<1, 1>> /\ <<1, 1>> # <<2, 2>> /\ <<1, 1>> # <<0, 0>>
  OBVIOUS
<1>2. PICK flow, low : flow = Bits(v, f.wE + f.wF + 1, f.wE + f.wF) /\ low = Bits(v, f.wE + f.wF - 1, 0)
  OBVIOUS
<1>3. DualResult(f, x, y, path, v)
        = Encode(f, IF flow > 1 \/ path.isZero THEN 0 ELSE 1 + flow, path.sign, 0, 0) + low
  BY ZenonT(40), <1>1, <1>2 DEF DualResult, NormalExn, ZeroExn, InfExn
<1> QED BY Zenon, <1>2, <1>3 DEF DualNormalIs

DualOtherIs(f, x, y, n1, n2, path, v) ==
  DualResult(f, x, y, path, v)
    = Encode(f, IF n1 = 2 /\ n2 = 2 THEN IF Sign(f, x) = Sign(f, y) THEN 2 ELSE 3 ELSE n1,
             IF n1 = 0 /\ n2 = 0 THEN SmallerOf(Sign(f, x), Sign(f, y)) ELSE Sign(f, x), 0, 0)
        + Bits(x, f.wE + f.wF - 1, 0)
\* That of any others is decided by the exceptions.
LEMMA DualOther ==
  ASSUME NEW f, NEW x, NEW y, NEW n1 \in 0..3, NEW n2 \in 0..3, Exn(f, x) = n1, Exn(f, y) = n2,
         ~(n1 = 1 /\ n2 = 1), NEW path, NEW v
  PROVE  DualOtherIs(f, x, y, n1, n2, path, v)
<1>1. /\ <<n1, n2>> # <<1, 1>>
      /\ <<n1, n2>> = <<2, 2>> <=> n1 = 2 /\ n2 = 2
      /\ <<n1, n2>> = <<0, 0>> <=> n1 = 0 /\ n2 = 0
      /\ <<n1, n2>>[1] = n1
  OBVIOUS
<1>2. 0 # 2
  OBVIOUS
<1>3. CASE n1 = 2 /\ n2 = 2
  BY ZenonT(40), <1>1, <1>2, <1>3 DEF DualOtherIs, DualResult, NormalExn, ZeroExn, InfExn, NaNExn
<1>4. CASE n1 = 0 /\ n2 = 0
  BY ZenonT(40), <1>1, <1>2, <1>4 DEF DualOtherIs, DualResult, NormalExn, ZeroExn, InfExn, NaNExn
<1>5. CASE ~(n1 = 2 /\ n2 = 2) /\ ~(n1 = 0 /\ n2 = 0)
  BY ZenonT(40), <1>1, <1>2, <1>5 DEF DualOtherIs, DualResult, NormalExn, ZeroExn, InfExn, NaNExn
<1> QED BY Zenon, <1>3, <1>4, <1>5

\* The sum of two normal numbers, packed.
LEMMA DualPacks ==
  ASSUME NEW f, AdderFormat(f), NEW x, NEW y, Exn(f, x) = 1, Exn(f, y) = 1,
         NEW sign \in 0..1, NEW w, w = Pow2[f.wF],
         NEW q \in w..(2 * w - 1), NEW r \in Int, NEW u \in 0..1, NEW n \in Nat, NEW E \in Int,
         InUnits(n, E, q, r, u), SumExponent(f, E),
         NEW path, PathGives(f, path, sign, E, q, u)
  PROVE  FPEqual(f, DualOf(f, x, y, path), Rounded(f, sign, n, 1, -(f.wF + Bias(f))))
<1>1. NumberFormat(f)
  BY Zenon DEF AdderFormat
<1>2. w \in Nat \ {0} /\ Pow2[f.wE] \in Nat \ {0}
  BY <1>1, Pow2Def DEF NumberFormat
<1>3. PICK fr \in 0..(w - 1) : fr = q - w
  BY <1>2
<1>4. PICK v : v = ((E % Pow2[f.wE + 2]) * Pow2[f.wF] + fr + u) % Pow2[f.wE + f.wF + 2]
  OBVIOUS
<1>5. PICK c \in Int, g \in 0..(Pow2[f.wF] - 1), top \in 0..3, h \in 0..(Pow2[f.wE] - 1) :
        RoundedBits(f, E, fr, u, v, c, g, top, h)
  <2>1. -(2 * Pow2[f.wE]) <= E /\ E < 2 * Pow2[f.wE] /\ (fr + u = Pow2[f.wF] => E + 1 < 2 * Pow2[f.wE])
    BY Zenon DEF SumExponent
  <2>2. fr \in 0..(Pow2[f.wF] - 1)
    BY Zenon, <1>3
  <2> QED BY ZenonT(90), <1>1, <1>4, <2>1, <2>2, RoundedBitsAre
<1>6. IntAdder(f.wE + f.wF + 2, path.before, 0, path.round) = v
  <2>1. PICK a \in Nat : a = E % Pow2[f.wE + 2]
    <3>1. f.wE + 2 \in Nat
      BY <1>1 DEF NumberFormat
    <3>2. PICK p \in Nat \ {0} : p = Pow2[f.wE + 2]
      BY <3>1, Pow2Def
    <3>3. E % p \in Nat
      OBVIOUS
    <3> QED BY Zenon, <3>2, <3>3
  <2>2. PICK i \in Nat : i = a * w
    BY <1>2
  <2>3. i + fr + 0 + u = i + fr + u
    BY <1>3
  <2>4. path.before = i + fr /\ path.round = u
    BY Zenon, <1>3, <2>1, <2>2 DEF PathGives
  <2>5. v = (i + fr + u) % Pow2[f.wE + f.wF + 2]
    BY Zenon, <1>4, <2>1, <2>2
  <2> QED BY Zenon, <2>3, <2>4, <2>5 DEF IntAdder
<1>7. /\ Bits(v, f.wE + f.wF + 1, f.wE + f.wF) = top
      /\ Bits(v, f.wE + f.wF - 1, 0) = h * Pow2[f.wF] + g
  BY Zenon, <1>5 DEF RoundedBits, ResultBits
<1>8. PICK exn \in 0..3 : /\ exn = IF top = 0 THEN NormalExn ELSE IF top = 1 THEN InfExn ELSE ZeroExn
                          /\ exn = IF top > 1 THEN 0 ELSE 1 + top
  <2>1. (top = 0 \/ top = 1 \/ top = 2 \/ top = 3) /\ 0 \in 0..3 /\ 1 \in 0..3 /\ 2 \in 0..3
    OBVIOUS
  <2> QED BY <2>1 DEF NormalExn, InfExn, ZeroExn
<1>9. DualOf(f, x, y, path) = Encode(f, exn, sign, h, g)
  <2>1. DualNormalIs(f, x, y, path, v)
    BY Zenon, DualNormal
  <2>2. path.isZero = FALSE /\ path.sign = sign
    BY Zenon DEF PathGives
  <2>3. (IF Bits(v, f.wE + f.wF + 1, f.wE + f.wF) > 1 \/ path.isZero THEN 0
         ELSE 1 + Bits(v, f.wE + f.wF + 1, f.wE + f.wF)) = exn
    BY Zenon, <1>7, <1>8, <2>2
  <2>4. DualOf(f, x, y, path) = Encode(f, exn, sign, 0, 0) + (h * Pow2[f.wF] + g)
    BY Zenon, <1>6, <1>7, <2>1, <2>2, <2>3 DEF DualNormalIs, DualOf
  <2>5. Encode(f, exn, sign, 0, 0) + (h * Pow2[f.wF] + g) = Encode(f, exn, sign, h, g)
    BY ZenonT(40), <1>1, EncodedParts
  <2> QED BY Zenon, <2>4, <2>5
<1>10. FPEqual(f, Encode(f, IF top = 0 THEN NormalExn ELSE IF top = 1 THEN InfExn ELSE ZeroExn, sign, h, g),
               Rounded(f, sign, n, 1, -(f.wF + Bias(f))))
  <2>1. RoundedBits(f, E, q - w, u, v, c, g, top, h)
    BY Zenon, <1>3, <1>5
  <2> QED BY ZenonT(90), <1>1, <2>1, PackedSumIs
<1> QED BY Zenon, <1>8, <1>9, <1>10

\* A distance that the shifter of the far path can make.
LEMMA FarShiftIs ==
  ASSUME NEW f, AdderFormat(f), NEW D \in 0..(Pow2[f.wE] - 1)
  PROVE  ShiftsBy(f, FarShiftVal(f, D), D)
<1>1. PICK sz \in Nat \ {0}, p \in Nat \ {0} :
        sz = SizeRightShift(f) /\ p = Pow2[sz] /\ f.wF + 3 < p /\ Ones(SizeRightShift(f)) = p - 1 /\ sz <= f.wE
  BY ShifterReaches
<1>2. PICK F \in Nat : F = f.wF
  BY DEF AdderFormat, NumberFormat
<1>3. F + 3 < p /\ D \in Nat
  <2>1. PICK G \in Nat \ {0} : G = Pow2[f.wE]
    BY Pow2Def DEF AdderFormat, NumberFormat
  <2>2. D \in 0..(G - 1)
    BY Zenon, <2>1
  <2> QED BY <1>1, <1>2, <2>2
<1>4. PICK q \in Nat, r \in 0..(p - 1) : D = p * q + r /\ q = D \div p /\ r <= D /\ p * q <= D
  BY ZenonT(40), <1>3, NaturalDivision
<1>5. CASE q # 0
  <2>1. FarShiftVal(f, D) = F + 3
    BY Zenon, <1>1, <1>2, <1>4, <1>5 DEF FarShiftVal
  <2>2. F + 3 <= D /\ F + 3 \in 0..(p - 1)
    <3>1. PICK i \in Nat : q = 1 + i
      <4>1. q - 1 \in Nat /\ q = 1 + (q - 1)
        BY <1>5
      <4> QED BY <4>1
    <3>2. p * q = p + p * i /\ p * i \in Nat
      BY <3>1
    <3>3. PICK k \in Nat : k = p * i
      BY <3>2
    <3>4. p + k <= D
      BY Zenon, <1>4, <3>2, <3>3
    <3> QED BY <1>3, <3>4
  <2> QED BY Zenon, <1>1, <1>2, <2>1, <2>2 DEF ShiftsBy
<1>6. CASE q = 0
  <2>1. FarShiftVal(f, D) = D
    BY Zenon, <1>1, <1>4, <1>6 DEF FarShiftVal
  <2>2. D \in 0..(p - 1)
    <3>1. p * 0 = 0
      OBVIOUS
    <3>2. PICK i \in Nat : i = p * q /\ i = 0
      BY Zenon, <1>6, <3>1, <1>4
    <3> QED BY <1>4, <3>2
  <2> QED BY Zenon, <1>1, <2>1, <2>2 DEF ShiftsBy
<1> QED BY Zenon, <1>5, <1>6

\* The sum t of the far path: its significand q, above below bits of value k.
FarDigits(w, t, below, q, k) ==
  /\ t = Pow2[below] * q + k /\ k < Pow2[below]
  /\ SmallerOf(t \div (4 * w), 2) + 1 = below
\* It has one to three bits below the significand.
LEMMA FarDigitsAre ==
  ASSUME NEW w \in Nat \ {0}, NEW t \in Nat, 2 * w <= t, t < 16 * w
  PROVE  \E below \in 1..3, q \in w..(2 * w - 1), k \in 0..7 : FarDigits(w, t, below, q, k)
<1>1. PICK dg \in 0..3, l \in 0..(4 * w - 1) : t = (4 * w) * dg + l /\ dg = t \div (4 * w)
  <2>1. PICK p \in Nat \ {0} : p = 4 * w
    OBVIOUS
  <2>2. PICK dg \in Nat, l \in 0..(p - 1) : t = p * dg + l /\ dg = t \div p /\ p * dg <= t
    <3>1. \E dg \in Nat, l \in 0..(p - 1) : t = p * dg + l /\ dg = t \div p /\ l = t % p /\ l <= t /\ p * dg <= t
      BY ZenonT(40), NaturalDivision
    <3> QED BY Zenon, <3>1
  <2>3. dg < 4
    <3>1. p * dg < p * 4
      <4>1. p * dg \in Int /\ t < p * 4
        BY <2>1
      <4> QED BY <2>2, <4>1
    <3> QED BY <3>1, ProductOrder
  <2>4. dg \in 0..3
    BY <2>3
  <2> QED BY Zenon, <2>1, <2>2, <2>4
<1>2. Pow2[1] = 2 /\ Pow2[2] = 4 /\ Pow2[3] = 8
  BY Zenon, SmallPowers
<1>3. (dg = 0 => SmallerOf(dg, 2) + 1 = 1) /\ (dg = 1 => SmallerOf(dg, 2) + 1 = 2) /\ (dg >= 2 => SmallerOf(dg, 2) + 1 = 3)
  BY DEF SmallerOf
<1>4. CASE dg = 0
  <2>1. t < 4 * w
    <3>1. (4 * w) * 0 = 0
      OBVIOUS
    <3>2. PICK i \in Nat : i = (4 * w) * dg /\ i = 0
      BY Zenon, <1>4, <3>1
    <3> QED BY <1>1, <3>2
  <2>2. PICK q \in w..(2 * w - 1), k \in 0..7 : t = 2 * q + k /\ k < 2
    <3>1. t \div 2 \in w..(2 * w - 1) /\ t % 2 \in 0..7 /\ t = (2 * (t \div 2)) + (t % 2) /\ t % 2 < 2
      BY <2>1
    <3> QED BY Zenon, <3>1
  <2>3. FarDigits(w, t, 1, q, k)
    BY Zenon, <1>1, <1>2, <1>3, <1>4, <2>2 DEF FarDigits
  <2>4. 1 \in 1..3
    OBVIOUS
  <2> QED BY Zenon, <2>3, <2>4
<1>5. CASE dg = 1
  <2>1. 4 * w <= t /\ t < 8 * w
    <3>1. (4 * w) * 1 = 4 * w /\ 4 * w \in Nat
      OBVIOUS
    <3>2. PICK i \in Nat : i = (4 * w) * dg /\ i = 4 * w
      BY Zenon, <1>5, <3>1
    <3>3. t = i + l
      BY Zenon, <1>1, <3>2
    <3>4. l \in 0..(4 * w - 1)
      OBVIOUS
    <3> QED BY <3>2, <3>3, <3>4
  <2>2. PICK q \in w..(2 * w - 1), k \in 0..7 : t = 4 * q + k /\ k < 4
    <3>1. t \div 4 \in w..(2 * w - 1) /\ t % 4 \in 0..7 /\ t = (4 * (t \div 4)) + (t % 4) /\ t % 4 < 4
      BY <2>1
    <3> QED BY Zenon, <3>1
  <2>3. FarDigits(w, t, 2, q, k)
    BY Zenon, <1>1, <1>2, <1>3, <1>5, <2>2 DEF FarDigits
  <2>4. 2 \in 1..3
    OBVIOUS
  <2> QED BY Zenon, <2>3, <2>4
<1>6. CASE dg >= 2
  <2>1. 8 * w <= t /\ t < 16 * w
    <3>1. dg = 2 \/ dg = 3
      BY <1>6
    <3> QED BY <1>1, <3>1
  <2>2. PICK q \in w..(2 * w - 1), k \in 0..7 : t = 8 * q + k /\ k < 8
    <3>1. t \div 8 \in w..(2 * w - 1) /\ t % 8 \in 0..7 /\ t = (8 * (t \div 8)) + (t % 8) /\ t % 8 < 8
      BY <2>1
    <3> QED BY Zenon, <3>1
  <2>3. FarDigits(w, t, 3, q, k)
    BY Zenon, <1>1, <1>2, <1>3, <1>6, <2>2 DEF FarDigits
  <2>4. 3 \in 1..3
    OBVIOUS
  <2> QED BY Zenon, <2>3, <2>4
<1>7. dg = 0 \/ dg = 1 \/ dg >= 2
  OBVIOUS
<1> QED BY Zenon, <1>4, <1>5, <1>6, <1>7

\* The rounding bit of the far path.
FarRound(t, below, sticky) ==
  Flag(/\ BitOf(t, below - 1) = 1
       /\ sticky = 1 \/ Bits(t, below - 2, 0) # 0 \/ BitOf(t, below) = 1)
\* It rounds to nearest, ties to even.
FarRounds(q, k, below, t, sticky) ==
  \E s \in 0..15, u \in 0..1 :
    /\ (2 * t + sticky) * Pow2[3 - below] = 16 * q + s /\ NearestUp(q, s, 16, u)
    /\ FarRound(t, below, sticky) = u
LEMMA FarRoundsAre ==
  ASSUME NEW w \in Nat \ {0}, NEW t \in Nat, NEW below \in 1..3, NEW q \in Nat, NEW k \in 0..7,
         FarDigits(w, t, below, q, k), NEW sticky \in 0..1
  PROVE  FarRounds(q, k, below, t, sticky)
<1>1. Pow2[0] = 1 /\ Pow2[1] = 2 /\ Pow2[2] = 4 /\ Pow2[3] = 8
  BY Zenon, SmallPowers
<1>2. PICK s \in 0..15 : (2 * t + sticky) * Pow2[3 - below] = 16 * q + s /\ s = (2 * k + sticky) * Pow2[3 - below]
  <2>1. CASE below = 1
    <3>1. t = 2 * q + k /\ k < 2 /\ 3 - below = 2
      BY <1>1, <2>1 DEF FarDigits
    <3>2. (2 * t + sticky) * 4 = 16 * q + (2 * k + sticky) * 4 /\ (2 * k + sticky) * 4 \in 0..15
      BY <3>1
    <3> QED BY Zenon, <1>1, <3>1, <3>2
  <2>2. CASE below = 2
    <3>1. t = 4 * q + k /\ k < 4 /\ 3 - below = 1
      BY <1>1, <2>2 DEF FarDigits
    <3>2. (2 * t + sticky) * 2 = 16 * q + (2 * k + sticky) * 2 /\ (2 * k + sticky) * 2 \in 0..15
      BY <3>1
    <3> QED BY Zenon, <1>1, <3>1, <3>2
  <2>3. CASE below = 3
    <3>1. t = 8 * q + k /\ k < 8 /\ 3 - below = 0
      BY <1>1, <2>3 DEF FarDigits
    <3>2. (2 * t + sticky) * 1 = 16 * q + (2 * k + sticky) * 1 /\ (2 * k + sticky) * 1 \in 0..15
      BY <3>1
    <3> QED BY Zenon, <1>1, <3>1, <3>2
  <2>4. below = 1 \/ below = 2 \/ below = 3
    OBVIOUS
  <2> QED BY Zenon, <2>1, <2>2, <2>3, <2>4
<1>3. PICK u \in 0..1 : NearestUp(q, s, 16, u)
  <2>1. 0 \in 0..1 /\ 1 \in 0..1 /\ 0 # 1
    OBVIOUS
  <2>2. CASE 2 * s > 16 \/ (2 * s = 16 /\ q % 2 = 1)
    BY Zenon, <2>1, <2>2 DEF NearestUp
  <2>3. CASE ~(2 * s > 16 \/ (2 * s = 16 /\ q % 2 = 1))
    BY Zenon, <2>1, <2>3 DEF NearestUp
  <2> QED BY Zenon, <2>2, <2>3
<1>4. BitOf(t, below - 1) = 1 /\ (sticky = 1 \/ Bits(t, below - 2, 0) # 0 \/ BitOf(t, below) = 1)
        <=> 2 * s > 16 \/ (2 * s = 16 /\ q % 2 = 1)
  <2>1. CASE below = 1
    <3>1. t = 2 * q + k /\ k < 2 /\ 3 - below = 2 /\ below - 1 = 0 /\ below - 2 < 0
      BY <1>1, <2>1 DEF FarDigits
    <3>2. s = (2 * k + sticky) * 4
      BY Zenon, <1>1, <1>2, <3>1
    <3>3. Bits(t, below - 2, 0) = 0
      BY Zenon, <3>1 DEF Bits
    <3>4. BitOf(t, below - 1) = (t \div 1) % 2 /\ BitOf(t, below) = (t \div 2) % 2
      BY Zenon, <1>1, <2>1, <3>1 DEF BitOf
    <3>5. (t \div 1) % 2 = k /\ (t \div 2) % 2 = q % 2
      BY <3>1
    <3>6. BitOf(t, below - 1) = k /\ BitOf(t, below) = q % 2
      BY Zenon, <3>4, <3>5
    <3> QED BY <3>1, <3>2, <3>3, <3>6
  <2>2. CASE below = 2
    <3>1. t = 4 * q + k /\ k < 4 /\ 3 - below = 1 /\ below - 1 = 1 /\ below - 2 = 0
      BY <1>1, <2>2 DEF FarDigits
    <3>2. s = (2 * k + sticky) * 2
      BY Zenon, <1>1, <1>2, <3>1
    <3>3. Bits(t, below - 2, 0) = (t \div 1) % 2
      <4>1. ~(0 < 0) /\ (0 - 0) + 1 = 1
        OBVIOUS
      <4> QED BY Zenon, <1>1, <3>1, <4>1 DEF Bits
    <3>4. BitOf(t, below - 1) = (t \div 2) % 2 /\ BitOf(t, below) = (t \div 4) % 2
      BY Zenon, <1>1, <2>2, <3>1 DEF BitOf
    <3>5. (t \div 2) % 2 = k \div 2 /\ (t \div 4) % 2 = q % 2 /\ (t \div 1) % 2 = k % 2
      BY <3>1
    <3>6. BitOf(t, below - 1) = k \div 2 /\ BitOf(t, below) = q % 2 /\ Bits(t, below - 2, 0) = k % 2
      BY Zenon, <3>3, <3>4, <3>5
    <3> QED BY <3>1, <3>2, <3>6
  <2>3. CASE below = 3
    <3>1. t = 8 * q + k /\ k < 8 /\ 3 - below = 0 /\ below - 1 = 2 /\ below - 2 = 1
      BY <1>1, <2>3 DEF FarDigits
    <3>2. s = (2 * k + sticky) * 1
      BY Zenon, <1>1, <1>2, <3>1
    <3>3. Bits(t, below - 2, 0) = (t \div 1) % 4
      <4>1. ~(1 < 0) /\ (1 - 0) + 1 = 2
        OBVIOUS
      <4> QED BY Zenon, <1>1, <3>1, <4>1 DEF Bits
    <3>4. BitOf(t, below - 1) = (t \div 4) % 2 /\ BitOf(t, below) = (t \div 8) % 2
      BY Zenon, <1>1, <2>3, <3>1 DEF BitOf
    <3>5. (t \div 4) % 2 = k \div 4 /\ (t \div 8) % 2 = q % 2 /\ (t \div 1) % 4 = k % 4
      BY <3>1
    <3>6. BitOf(t, below - 1) = k \div 4 /\ BitOf(t, below) = q % 2 /\ Bits(t, below - 2, 0) = k % 4
      BY Zenon, <3>3, <3>4, <3>5
    <3> QED BY <3>1, <3>2, <3>6
  <2>4. below = 1 \/ below = 2 \/ below = 3
    OBVIOUS
  <2> QED BY Zenon, <2>1, <2>2, <2>3, <2>4
<1>5. FarRound(t, below, sticky) = u
  <2>1. (u = 0 \/ u = 1) /\ 0 # 1
    OBVIOUS
  <2>2. u = 1 <=> BitOf(t, below - 1) = 1 /\ (sticky = 1 \/ Bits(t, below - 2, 0) # 0 \/ BitOf(t, below) = 1)
    BY Zenon, <1>3, <1>4 DEF NearestUp
  <2> QED BY Zenon, <2>1, <2>2 DEF FarRound, Flag
<1> QED BY Zenon, <1>2, <1>3, <1>5 DEF FarRounds

\* What the far path reads in the sum t.
FarSees(f, w, t, below, q) ==
  /\ SmallerOf(Bits(t, f.wF + 3, f.wF + 2), 2) + 1 = below
  /\ Bits(t, (below + f.wF) - 1, below) = q - w
\* It reads the number of bits below the significand, and the fraction.
LEMMA FarSeesIs ==
  ASSUME NEW f, NumberFormat(f), NEW w \in Nat \ {0}, w = Pow2[f.wF], NEW t \in Nat, t < 16 * w,
         NEW below \in 1..3, NEW q \in w..(2 * w - 1), NEW k \in 0..7, FarDigits(w, t, below, q, k)
  PROVE  FarSees(f, w, t, below, q)
<1>1. PICK F \in Nat : F = f.wF
  BY DEF NumberFormat
<1>2. Pow2[F + 2] = 4 * w
  <2>1. 2 \in Nat
    OBVIOUS
  <2>2. Pow2[F + 2] = Pow2[F] * Pow2[2]
    BY ZenonT(40), <2>1, Pow2Sum
  <2>3. Pow2[F + 2] = w * 4
    BY Zenon, <1>1, <2>2, SmallPowers
  <2>4. w * 4 = 4 * w
    OBVIOUS
  <2> QED BY Zenon, <2>3, <2>4
<1>3. Bits(t, f.wF + 3, f.wF + 2) = t \div (4 * w)
  <2>1. t \in Int /\ F + 2 \in Nat /\ 2 \in Nat /\ ((F + 2) + 2) - 1 = F + 3
    OBVIOUS
  <2>2. Bits(t, ((F + 2) + 2) - 1, F + 2) = (t \div Pow2[F + 2]) % Pow2[2]
    BY ZenonT(40), <2>1, BitsDef
  <2>3. (t \div (4 * w)) % 4 = t \div (4 * w)
    <3>1. PICK p \in Nat \ {0} : p = 4 * w
      OBVIOUS
    <3>2. \E j \in Nat, l \in 0..(p - 1) : t = p * j + l /\ j = t \div p /\ l = t % p /\ l <= t /\ p * j <= t
      BY ZenonT(40), NaturalDivision
    <3>3. PICK j \in Nat, l \in 0..(p - 1) : t = p * j + l /\ j = t \div p /\ p * j <= t
      BY Zenon, <3>2
    <3>4. j < 4
      <4>1. p * j < p * 4
        <5>1. PICK i \in Int : i = p * j
          BY <3>1
        <5>2. i <= t /\ t < p * 4
          <6>1. t < p * 4
            BY <3>1
          <6> QED BY Zenon, <3>3, <5>1, <6>1
        <5>3. PICK o \in Int : o = p * 4
          BY <3>1
        <5>4. i <= t /\ t < o
          BY Zenon, <5>2, <5>3
        <5>5. i < o
          BY <5>4
        <5> QED BY Zenon, <5>1, <5>3, <5>5
      <4>2. p \in Nat /\ j \in Int /\ 4 \in Int
        BY <3>1
      <4> QED BY <4>1, <4>2, ProductOrder
    <3>5. j % 4 = j
      BY <3>4
    <3> QED BY Zenon, <3>1, <3>3, <3>5
  <2> QED BY Zenon, <1>1, <1>2, <2>1, <2>2, <2>3, SmallPowers
<1>4. Bits(t, (below + f.wF) - 1, below) = q - w
  <2>1. t \in Int /\ below \in Nat
    OBVIOUS
  <2>2. Bits(t, (below + F) - 1, below) = (t \div Pow2[below]) % Pow2[F]
    BY ZenonT(40), <2>1, BitsDef
  <2>3. PICK p \in Nat \ {0} : p = Pow2[below]
    BY <2>1, Pow2Def
  <2>4. t \div p = q
    <3>1. t = p * q + k /\ k < p
      BY Zenon, <2>3 DEF FarDigits
    <3>2. q \in Int /\ k \in 0..(p - 1)
      BY <3>1
    <3> QED BY ZenonT(40), <2>3, <3>1, <3>2, DivisionUnique
  <2>5. q % w = q - w
    <3>1. PICK r \in 0..(w - 1) : q = w * 1 + r /\ r = q - w
      <4>1. q - w \in 0..(w - 1) /\ q = w * 1 + (q - w)
        OBVIOUS
      <4> QED BY Zenon, <4>1
    <3>2. 1 \in Int
      OBVIOUS
    <3> QED BY ZenonT(40), <3>1, <3>2, DivisionUnique
  <2> QED BY Zenon, <1>1, <2>2, <2>3, <2>4, <2>5
<1> QED BY Zenon, <1>3, <1>4 DEF FarSees, FarDigits

-----------------------------------------------------------------------------
(***************************************************************************)
(* Two normal operands, the larger exponent first.                         *)
(***************************************************************************)
NormalPair(f, x, y, s1, e1, fr1, s2, e2, fr2, w, a, b, D, P, effSub, K) ==
  /\ Fields(f, x, 1, s1, e1, fr1) /\ Fields(f, y, 1, s2, e2, fr2)
  /\ w = Pow2[f.wF] /\ a = w + fr1 /\ b = w + fr2
  /\ e1 \in 0..(Pow2[f.wE] - 1) /\ s1 \in 0..1
  /\ D = e1 - e2 /\ P = Pow2[D] /\ effSub = XorBit(s1, s2)
  /\ K = ExactSumOf(a, b, P, effSub)
  /\ SumFrom(f, x, y, s1, Pow2[e1 - D], K)
\* Their exact sum is K, in units of the smaller exponent.
LEMMA NormalPairIs ==
  ASSUME NEW f, NumberFormat(f), NEW x, NEW y, NEW s1, NEW e1, NEW fr1, NEW s2, NEW e2, NEW fr2,
         Fields(f, x, 1, s1, e1, fr1), Fields(f, y, 1, s2, e2, fr2), e2 <= e1
  PROVE  \E w \in Nat \ {0} : \E a \in w..(2 * w - 1), b \in w..(2 * w - 1), D \in 0..e1, P \in Nat \ {0},
           effSub \in 0..1, K \in Int :
           NormalPair(f, x, y, s1, e1, fr1, s2, e2, fr2, w, a, b, D, P, effSub, K)
<1>1. PICK w \in Nat \ {0}, G \in Nat \ {0} : w = Pow2[f.wF] /\ G = Pow2[f.wE]
  <2>1. f.wF \in Nat /\ f.wE \in Nat
    BY DEF NumberFormat
  <2> QED BY <2>1, Pow2Def
<1>2. /\ e1 \in 0..(G - 1) /\ fr1 \in 0..(w - 1) /\ s1 \in 0..1 /\ e2 \in 0..(G - 1) /\ fr2 \in 0..(w - 1)
      /\ s2 \in 0..1
  BY Zenon, <1>1 DEF Fields
<1>3. PICK a \in w..(2 * w - 1), b \in w..(2 * w - 1) : a = w + fr1 /\ b = w + fr2
  <2>1. w + fr1 \in w..(2 * w - 1) /\ w + fr2 \in w..(2 * w - 1)
    BY <1>2
  <2> QED BY Zenon, <2>1
<1>4. PICK effSub \in 0..1 : effSub = XorBit(s1, s2)
  <2>1. XorBit(s1, s2) \in 0..1
    BY <1>2 DEF XorBit
  <2> QED BY Zenon, <2>1
<1>5. PICK D \in 0..e1 : D = e1 - e2
  <2>1. e1 - e2 \in 0..e1
    BY <1>2
  <2> QED BY Zenon, <2>1
<1>6. PICK P \in Nat \ {0} : P = Pow2[D]
  <2>1. D \in Nat
    BY <1>2
  <2> QED BY <2>1, Pow2Def
<1>7. PICK K : K = ExactSumOf(a, b, P, effSub)
  OBVIOUS
<1>8. SumFrom(f, x, y, s1, Pow2[e1 - D], K) /\ K \in Int
  <2>1. K = ExactSumOf(Pow2[f.wF] + fr1, b, P, XorBit(s1, s2)) /\ Stands(f, 1, e2, fr2, e1, b, D)
    BY Zenon, <1>1, <1>3, <1>4, <1>5, <1>7 DEF Stands
  <2> QED BY ZenonT(60), <1>6, <2>1, SumFromIs
<1>9. e1 \in 0..(Pow2[f.wE] - 1)
  BY Zenon, <1>1, <1>2
<1>10. NormalPair(f, x, y, s1, e1, fr1, s2, e2, fr2, w, a, b, D, P, effSub, K)
  BY Zenon, <1>1, <1>2, <1>3, <1>4, <1>5, <1>6, <1>7, <1>8, <1>9 DEF NormalPair
<1> QED BY Zenon, <1>8, <1>10

\* A path that gives the sum, in units that its shifts leave, gives the result.
LEMMA PathSums ==
  ASSUME NEW f, AdderFormat(f), NEW x, NEW y, NEW s1, NEW e1, NEW fr1, NEW s2, NEW e2, NEW fr2,
         NEW w \in Nat \ {0}, NEW a, NEW b, NEW D \in 0..e1, NEW P \in Nat \ {0}, NEW effSub, NEW K \in Int,
         NormalPair(f, x, y, s1, e1, fr1, s2, e2, fr2, w, a, b, D, P, effSub, K),
         NEW N \in Nat \ {0}, N = AbsOf(K),
         NEW t \in Nat, NEW l \in 0..(P - 1), 4 * N = P * t + l,
         NEW z \in 0..(f.wF + 4), l # 0 => z <= 2,
         NEW q \in w..(2 * w - 1), NEW s \in 0..15, (2 * t + Flag(l # 0)) * Pow2[z] = 16 * q + s,
         NEW u \in 0..1, NearestUp(q, s, 16, u),
         NEW path, PathGives(f, path, IF K > 0 THEN s1 ELSE 1 - s1, (e1 + 1) - z, q, u)
  PROVE  FPEqual(f, DualOf(f, x, y, path), Sum(f, x, y))
<1>1. /\ Fields(f, x, 1, s1, e1, fr1) /\ Fields(f, y, 1, s2, e2, fr2)
      /\ w = Pow2[f.wF] /\ e1 \in 0..(Pow2[f.wE] - 1) /\ s1 \in 0..1
      /\ P = Pow2[D] /\ SumFrom(f, x, y, s1, Pow2[e1 - D], K)
  BY Zenon DEF NormalPair
<1>2. PICK sign \in 0..1 : sign = IF K > 0 THEN s1 ELSE 1 - s1
  <2>1. s1 \in 0..1 /\ 1 - s1 \in 0..1
    BY <1>1
  <2> QED BY Zenon, <2>1
<1>3. e1 \in Nat /\ q \in Nat /\ z \in Nat /\ K # 0
  <2>1. PICK G \in Nat \ {0} : G = Pow2[f.wE]
    BY Pow2Def DEF AdderFormat, NumberFormat
  <2>2. e1 \in 0..(G - 1)
    BY Zenon, <1>1, <2>1
  <2>3. K # 0
    BY DEF AbsOf
  <2>4. PICK F \in Nat : F = f.wF
    BY DEF AdderFormat, NumberFormat
  <2>5. z \in 0..(F + 4)
    BY Zenon, <2>4
  <2> QED BY <2>2, <2>3, <2>5
<1>4. PICK r \in Int : InUnits(Pow2[e1 - D] * N, (e1 + 1) - z, q, r, u)
  BY ZenonT(90), <1>1, <1>3, AlignedUnits
<1>5. PICK n \in Nat : n = Pow2[e1 - D] * N
  <2>1. e1 - D \in Nat
    BY <1>3
  <2>2. PICK Q \in Nat \ {0} : Q = Pow2[e1 - D]
    BY <2>1, Pow2Def
  <2>3. Q * N \in Nat
    OBVIOUS
  <2> QED BY Zenon, <2>2, <2>3
<1>6. PICK E \in Int : E = (e1 + 1) - z
  <2>1. (e1 + 1) - z \in Int
    BY <1>3
  <2> QED BY Zenon, <2>1
<1>7. SumExponent(f, E)
  BY ZenonT(40), <1>1, <1>6, SumExponentIs
<1>8. FPEqual(f, DualOf(f, x, y, path), Rounded(f, sign, n, 1, -(f.wF + Bias(f))))
  <2>1. Exn(f, x) = 1 /\ Exn(f, y) = 1
    BY Zenon, <1>1 DEF Fields
  <2>2. InUnits(n, E, q, r, u) /\ PathGives(f, path, sign, E, q, u)
    BY Zenon, <1>2, <1>4, <1>5, <1>6
  <2> QED BY ZenonT(90), <1>1, <1>7, <2>1, <2>2, DualPacks
<1>9. Sum(f, x, y) = Rounded(f, sign, n, 1, -(f.wF + Bias(f)))
  BY Zenon, <1>1, <1>2, <1>3, <1>5 DEF SumFrom
<1> QED BY Zenon, <1>8, <1>9

\* The far path, once the sum t and its sticky bit are known.
FarIs(f, path, s1, e1, t, below, sticky) ==
  path = [ sign |-> s1, isZero |-> FALSE, round |-> FarRound(t, below, sticky),
           before |-> Cat((e1 + below - 2) % Pow2[f.wE + 2], f.wF, Bits(t, f.wF + below - 1, below)) ]
LEMMA FarUnfolds ==
  ASSUME NEW f, NEW x, NEW y, NEW s1, NEW e1, Sign(f, x) = s1, Exponent(f, x) = e1,
         NEW a, a = Significand(f, x), NEW b, b = Significand(f, y), NEW D, NEW effSub,
         NEW sv, sv = FarShiftVal(f, D),
         NEW t, t = FracSum(f, a, Aligned(f, b, sv), effSub),
         NEW sticky, sticky = Aligned(f, b, sv).Sticky,
         NEW below, SmallerOf(Bits(t, f.wF + 3, f.wF + 2), 2) + 1 = below
  PROVE  FarIs(f, FarPath(f, x, y, D, effSub), s1, e1, t, below, sticky)
  BY ZenonT(60) DEF FarPath, FarIs, FarRound

\* The exact sum of the far path is that of the larger operand's sign.
LEMMA FarPositive ==
  ASSUME NEW w \in Nat \ {0}, NEW a \in w..(2 * w - 1), NEW b \in w..(2 * w - 1), NEW D \in Nat,
         NEW P \in Nat \ {0}, P = Pow2[D], NEW effSub \in 0..1, effSub = 0 \/ D >= 2,
         NEW K, K = ExactSumOf(a, b, P, effSub)
  PROVE  K \in Nat \ {0}
<1>1. PICK i \in Nat : i = a * P /\ (2 <= P => 2 * a <= i)
  <2>1. a \in Nat /\ a * P \in Nat
    OBVIOUS
  <2>2. PICK i \in Nat : i = a * P
    BY <2>1
  <2>3. 2 <= P => 2 * a <= i
    <3>1. SUFFICES ASSUME 2 <= P PROVE 2 * a <= i
      OBVIOUS
    <3>2. PICK j \in Nat : P = 2 + j
      <4>1. P - 2 \in Nat /\ P = 2 + (P - 2)
        BY <3>1
      <4> QED BY <4>1
    <3>3. a * P = 2 * a + a * j /\ a * j \in Nat
      BY <2>1, <3>2
    <3>4. PICK h \in Nat : h = a * j
      BY <3>3
    <3>5. i = 2 * a + h
      BY Zenon, <2>2, <3>3, <3>4
    <3> QED BY <3>5
  <2> QED BY Zenon, <2>2, <2>3
<1>2. i # 0
  <2>1. a \in Nat \ {0}
    OBVIOUS
  <2> QED BY <1>1, <2>1
<1>3. CASE effSub = 0
  <2>1. effSub # 1
    BY <1>3
  <2>2. K = i + b
    BY Zenon, <1>1, <2>1 DEF ExactSumOf
  <2> QED BY <1>2, <2>2
<1>4. CASE effSub = 1
  <2>1. 2 <= P
    <3>1. 1 \in Nat /\ 1 <= D
      BY <1>4
    <3>2. Pow2[1] <= Pow2[D]
      BY ZenonT(40), <3>1, Pow2Monotone
    <3> QED BY Zenon, <3>2, SmallPowers
  <2>2. K = i - b
    BY Zenon, <1>1, <1>4 DEF ExactSumOf
  <2>3. 2 * a <= i
    BY Zenon, <1>1, <2>1
  <2> QED BY <2>2, <2>3
<1> QED BY <1>3, <1>4

\* The far path gives the sum: at most one position is lost by cancellation.
LEMMA FarPathIs ==
  ASSUME NEW f, AdderFormat(f), NEW x, NEW y, NEW s1, NEW e1, NEW fr1, NEW s2, NEW e2, NEW fr2,
         NEW w \in Nat \ {0}, NEW a \in w..(2 * w - 1), NEW b \in w..(2 * w - 1), NEW D \in 0..e1,
         NEW P \in Nat \ {0}, NEW effSub \in 0..1, NEW K \in Int,
         NormalPair(f, x, y, s1, e1, fr1, s2, e2, fr2, w, a, b, D, P, effSub, K),
         effSub = 0 \/ D >= 2
  PROVE  FPEqual(f, DualOf(f, x, y, FarPath(f, x, y, D, effSub)), Sum(f, x, y))
<1>1. /\ Fields(f, x, 1, s1, e1, fr1) /\ Fields(f, y, 1, s2, e2, fr2)
      /\ w = Pow2[f.wF] /\ e1 \in 0..(Pow2[f.wE] - 1) /\ a = w + fr1 /\ b = w + fr2
      /\ P = Pow2[D] /\ K = ExactSumOf(a, b, P, effSub) /\ D = e1 - e2
  BY Zenon DEF NormalPair
<1>2. NumberFormat(f)
  BY Zenon DEF AdderFormat
<1>3. PICK G \in Nat \ {0} : G = Pow2[f.wE]
  BY Pow2Def DEF AdderFormat, NumberFormat
<1>4. e1 \in 0..(G - 1) /\ e2 \in 0..(G - 1)
  BY Zenon, <1>1, <1>3 DEF Fields
<1>5. D \in Nat /\ D \in 0..(G - 1)
  BY <1>1, <1>4
<1>6. K \in Nat \ {0} /\ K > 0 /\ K = AbsOf(K)
  <2>1. K \in Nat \ {0}
    BY ZenonT(40), <1>1, <1>5, FarPositive
  <2> QED BY <2>1 DEF AbsOf
<1>7. PICK sv : sv = FarShiftVal(f, D) /\ ShiftsBy(f, sv, D)
  <2>1. D \in 0..(Pow2[f.wE] - 1)
    BY Zenon, <1>3, <1>5
  <2> QED BY ZenonT(40), <2>1, FarShiftIs
<1>8. sv \in 0..Ones(SizeRightShift(f)) /\ Distance(f, b, sv, D)
  BY Zenon, <1>7 DEF ShiftsBy, Distance
<1>9. PICK t \in Nat, l \in 0..(P - 1) : AlignedSum(f, a, b, sv, effSub, w, D, P, K, t, l)
  <2>1. b \in 0..(2 * w - 1) /\ K \in Nat
    BY <1>6
  <2> QED BY ZenonT(90), <1>1, <1>2, <1>5, <1>8, <2>1, AlignedSumIs
<1>10. /\ 4 * K = P * t + l /\ t < 16 * w /\ 2 * w <= t
       /\ FracSum(f, a, Aligned(f, b, sv), effSub) = t /\ Aligned(f, b, sv).Sticky = Flag(l # 0)
  BY Zenon, <1>9 DEF AlignedSum, SumParts
<1>11. PICK sticky \in 0..1 : sticky = Flag(l # 0)
  <2>1. 0 \in 0..1 /\ 1 \in 0..1
    OBVIOUS
  <2> QED BY Zenon, <2>1 DEF Flag
<1>12. PICK below \in 1..3, q \in w..(2 * w - 1), k \in 0..7 : FarDigits(w, t, below, q, k)
  BY ZenonT(40), <1>10, FarDigitsAre
<1>13. FarSees(f, w, t, below, q)
  BY ZenonT(40), <1>1, <1>2, <1>10, <1>12, FarSeesIs
<1>14. PICK s \in 0..15, u \in 0..1 :
         /\ (2 * t + sticky) * Pow2[3 - below] = 16 * q + s /\ NearestUp(q, s, 16, u)
         /\ FarRound(t, below, sticky) = u
  <2>1. q \in Nat
    OBVIOUS
  <2>2. FarRounds(q, k, below, t, sticky)
    BY ZenonT(40), <1>12, <2>1, FarRoundsAre
  <2> QED BY Zenon, <2>2 DEF FarRounds
<1>15. PICK F \in Nat : F = f.wF
  BY DEF AdderFormat, NumberFormat
<1>16. PICK z \in 0..(f.wF + 4) : z = 3 - below /\ z <= 2 /\ (e1 + below - 2) = (e1 + 1) - z
                                  /\ F + below - 1 = (below + F) - 1
  <2>1. 3 - below \in 0..(F + 4) /\ 3 - below <= 2 /\ (e1 + below - 2) = (e1 + 1) - (3 - below)
        /\ F + below - 1 = (below + F) - 1
    BY <1>4
  <2> QED BY Zenon, <1>15, <2>1
<1>17. PICK path : path = FarPath(f, x, y, D, effSub)
  OBVIOUS
<1>18. FarIs(f, path, s1, e1, t, below, sticky)
  <2>1. a = Significand(f, x) /\ b = Significand(f, y) /\ Sign(f, x) = s1 /\ Exponent(f, x) = e1
    BY Zenon, <1>1 DEF Fields
  <2>2. t = FracSum(f, a, Aligned(f, b, sv), effSub) /\ sticky = Aligned(f, b, sv).Sticky
    BY Zenon, <1>10, <1>11
  <2>3. SmallerOf(Bits(t, f.wF + 3, f.wF + 2), 2) + 1 = below
    BY Zenon, <1>13 DEF FarSees
  <2> QED BY ZenonT(60), <1>7, <1>17, <2>1, <2>2, <2>3, FarUnfolds
<1>19. PathGives(f, path, IF K > 0 THEN s1 ELSE 1 - s1, (e1 + 1) - z, q, u)
  <2>1. Bits(t, f.wF + below - 1, below) = q - w
    BY Zenon, <1>13, <1>15, <1>16 DEF FarSees
  <2>2. path = [ sign |-> s1, isZero |-> FALSE, round |-> u,
                 before |-> (((e1 + 1) - z) % Pow2[f.wE + 2]) * Pow2[f.wF] + (q - Pow2[f.wF]) ]
    BY Zenon, <1>1, <1>14, <1>16, <1>18, <2>1 DEF FarIs, Cat
  <2>3. /\ path.sign = s1 /\ path.isZero = FALSE /\ path.round = u
        /\ path.before = (((e1 + 1) - z) % Pow2[f.wE + 2]) * Pow2[f.wF] + (q - Pow2[f.wF])
    BY <2>2
  <2> QED BY Zenon, <1>6, <2>3 DEF PathGives
<1>20. (2 * t + Flag(l # 0)) * Pow2[z] = 16 * q + s
  BY Zenon, <1>11, <1>14, <1>16
<1>21. PICK N \in Nat \ {0} : N = AbsOf(K) /\ 4 * N = P * t + l
  BY Zenon, <1>6, <1>10
<1>22. l # 0 => z <= 2
  BY Zenon, <1>16
<1>23. NearestUp(q, s, 16, u)
  BY Zenon, <1>14
<1>24. FPEqual(f, DualOf(f, x, y, path), Sum(f, x, y))
  BY ZenonT(90), <1>19, <1>20, <1>21, <1>22, <1>23, PathSums
<1> QED BY Zenon, <1>17, <1>24

\* The difference of the close path is exact: its sign and its absolute value.
CloseGives(f, i, j, k) ==
  CloseDifference(f, i, j) = [negative |-> Flag(k < 0), frac |-> AbsOf(k)]
LEMMA CloseDifferenceIs ==
  ASSUME NEW f, NumberFormat(f), NEW w \in Nat \ {0}, w = Pow2[f.wF],
         NEW i \in 0..(4 * w - 1), NEW j \in 0..(4 * w - 1), NEW k \in Int, k = i - j
  PROVE  CloseGives(f, i, j, k)
<1>1. PICK F \in Nat : F = f.wF
  BY DEF NumberFormat
<1>2. Pow2[F + 2] = 4 * w /\ Pow2[F + 3] = 8 * w
  <2>1. 2 \in Nat /\ 3 \in Nat
    OBVIOUS
  <2>2. Pow2[F + 2] = Pow2[F] * Pow2[2] /\ Pow2[F + 3] = Pow2[F] * Pow2[3]
    BY ZenonT(40), <2>1, Pow2Sum
  <2>3. Pow2[F + 2] = w * 4 /\ Pow2[F + 3] = w * 8
    BY Zenon, <1>1, <2>2, SmallPowers
  <2>4. w * 4 = 4 * w /\ w * 8 = 8 * w
    OBVIOUS
  <2> QED BY Zenon, <2>3, <2>4
<1>3. PICK p \in Nat \ {0} : p = 4 * w /\ 2 * p = 8 * w
  OBVIOUS
<1>4. k < p /\ -k < p /\ j - i = -k
  BY <1>3
<1>5. \A n \in 0..(p - 1) : n % (2 * p) = n /\ n % p = n /\ (n \div p) % 2 = 0
  <2>1. SUFFICES ASSUME NEW n \in 0..(p - 1)
                 PROVE  n % (2 * p) = n /\ n % p = n /\ (n \div p) % 2 = 0
    BY Zenon
  <2>2. PICK o \in Nat \ {0} : o = 2 * p
    OBVIOUS
  <2>3. n = p * 0 + n /\ n = o * 0 + n /\ n \in 0..(o - 1) /\ 0 \in Int /\ 0 % 2 = 0
    BY <2>2
  <2>4. (p * 0 + n) \div p = 0 /\ (p * 0 + n) % p = n
    BY ZenonT(40), <2>3, DivisionUnique
  <2>5. (o * 0 + n) % o = n
    BY ZenonT(40), <2>3, DivisionUnique
  <2> QED BY Zenon, <2>2, <2>3, <2>4, <2>5
<1>6. PICK m : m = k % Pow2[f.wF + 3]
  OBVIOUS
<1>7. m = k % (2 * p)
  BY Zenon, <1>1, <1>2, <1>3, <1>6
<1>8. BitOf(m, f.wF + 2) = (m \div p) % 2
  BY Zenon, <1>1, <1>2, <1>3 DEF BitOf
<1>9. \A n \in Int : Bits(n, f.wF + 1, 0) = n % p
  <2>1. SUFFICES ASSUME NEW n \in Int
                 PROVE  Bits(n, f.wF + 1, 0) = n % p
    BY Zenon
  <2>2. 0 \in Nat /\ F + 2 \in Nat /\ (0 + (F + 2)) - 1 = F + 1 /\ n \div 1 = n
    OBVIOUS
  <2>3. Bits(n, (0 + (F + 2)) - 1, 0) = (n \div Pow2[0]) % Pow2[F + 2]
    BY ZenonT(40), <2>2, BitsDef
  <2> QED BY Zenon, <1>1, <1>2, <1>3, <2>2, <2>3, SmallPowers
<1>10. CASE k >= 0
  <2>1. k \in 0..(p - 1) /\ ~(k < 0) /\ 0 # 1
    BY <1>4, <1>10
  <2>2. m = k /\ BitOf(m, f.wF + 2) = 0 /\ Bits(m, f.wF + 1, 0) = k
    BY Zenon, <1>5, <1>7, <1>8, <1>9, <2>1
  <2>3. AbsOf(k) = k /\ Flag(k < 0) = 0
    BY Zenon, <2>1 DEF AbsOf, Flag
  <2>4. CloseDifference(f, i, j) = [negative |-> 0, frac |-> k]
    BY Zenon, <1>6, <2>1, <2>2 DEF CloseDifference
  <2> QED BY Zenon, <2>3, <2>4 DEF CloseGives
<1>11. CASE k < 0
  <2>1. PICK n \in 0..(p - 1) : n = -k
    <3>1. -k \in 0..(p - 1)
      BY <1>4, <1>11
    <3> QED BY Zenon, <3>1
  <2>2. m = 2 * p + k
    <3>1. PICK o \in Nat \ {0}, r \in Nat : o = 2 * p /\ r = 2 * p + k
      <4>1. 2 * p \in Nat \ {0} /\ 2 * p + k \in Nat
        BY <1>4
      <4> QED BY Zenon, <4>1
    <3>2. k = o * (-1) + r /\ r \in 0..(o - 1) /\ -1 \in Int
      BY <1>11, <3>1
    <3>3. (o * (-1) + r) % o = r
      BY ZenonT(40), <3>2, DivisionUnique
    <3> QED BY Zenon, <1>7, <3>1, <3>2, <3>3
  <2>3. BitOf(m, f.wF + 2) = 1
    <3>1. PICK r \in 0..(p - 1) : m = p * 1 + r
      <4>1. p + k \in 0..(p - 1) /\ m = p * 1 + (p + k)
        BY <1>4, <1>11, <2>2
      <4> QED BY Zenon, <4>1
    <3>2. 1 \in Int /\ 1 % 2 = 1
      OBVIOUS
    <3>3. (p * 1 + r) \div p = 1
      BY ZenonT(40), <3>2, DivisionUnique
    <3> QED BY Zenon, <1>8, <3>1, <3>2, <3>3
  <2>4. (j - i) % Pow2[f.wF + 3] = n
    BY Zenon, <1>1, <1>2, <1>3, <1>4, <1>5, <2>1
  <2>5. Bits(n, f.wF + 1, 0) = n
    <3>1. n \in Int
      OBVIOUS
    <3> QED BY Zenon, <1>5, <1>9, <3>1
  <2>6. AbsOf(k) = n /\ Flag(k < 0) = 1
    BY Zenon, <1>11, <2>1 DEF AbsOf, Flag
  <2>7. CloseDifference(f, i, j) = [negative |-> 1, frac |-> n]
    BY Zenon, <1>6, <2>3, <2>4, <2>5 DEF CloseDifference
  <2> QED BY Zenon, <2>6, <2>7 DEF CloseGives
<1> QED BY <1>10, <1>11

\* The close path, once the difference is normalized.
CloseIs(f, path, s1, e1, negative, frac, norm) ==
  path = [ sign |-> IF frac = 0 THEN 0 ELSE XorBit(s1, negative),
           isZero |-> norm.Count = Ones(IntLog2(f.wF + 2)),
           round |-> Flag(BitOf(norm.R, 0) = 1 /\ BitOf(norm.R, 1) = 1),
           before |-> Cat((e1 - norm.Count) % Pow2[f.wE + 2], f.wF, Bits(norm.R, f.wF, 1)) ]
LEMMA CloseUnfolds ==
  ASSUME NEW f, NEW x, NEW y, NEW s1, NEW e1, Sign(f, x) = s1, Exponent(f, x) = e1, NEW D,
         NEW i, i = Significand(f, x) * 2,
         NEW j, j = Significand(f, y) * (IF BitOf(D, 0) = 0 THEN 2 ELSE 1),
         NEW negative, NEW frac, CloseDifference(f, i, j) = [negative |-> negative, frac |-> frac],
         NEW norm, norm = Normalizer(f.wF + 2, f.wF + 2, f.wF + 2, 0, frac)
  PROVE  CloseIs(f, ClosePath(f, x, y, D), s1, e1, negative, frac, norm)
<1>1. PICK diff : diff = CloseDifference(f, i, j) /\ diff.negative = negative /\ diff.frac = frac
  <2>1. [negative |-> negative, frac |-> frac].negative = negative
        /\ [negative |-> negative, frac |-> frac].frac = frac
    OBVIOUS
  <2> QED BY Zenon, <2>1
<1> QED BY ZenonT(60), <1>1 DEF ClosePath, CloseIs

\* What the close path reads in the normalized difference v.
CloseSees(f, w, v, q, s, u) ==
  /\ 8 * v = 16 * q + s /\ NearestUp(q, s, 16, u)
  /\ Flag(BitOf(v, 0) = 1 /\ BitOf(v, 1) = 1) = u
  /\ Bits(v, f.wF, 1) = q - w
\* One bit below the significand, that rounds it.
LEMMA CloseSeesIs ==
  ASSUME NEW f, NumberFormat(f), NEW w \in Nat \ {0}, w = Pow2[f.wF], NEW v \in Nat, 2 * w <= v, v < 4 * w
  PROVE  \E q \in w..(2 * w - 1), s \in 0..15, u \in 0..1 : CloseSees(f, w, v, q, s, u)
<1>1. PICK F \in Nat : F = f.wF
  BY DEF NumberFormat
<1>2. PICK q \in w..(2 * w - 1), n \in 0..1 : v = 2 * q + n
  <2>1. v \div 2 \in w..(2 * w - 1) /\ v % 2 \in 0..1 /\ v = 2 * (v \div 2) + (v % 2)
    OBVIOUS
  <2> QED BY Zenon, <2>1
<1>3. PICK s \in 0..15 : s = 8 * n /\ 8 * v = 16 * q + s
  <2>1. 8 * n \in 0..15 /\ 8 * v = 16 * q + 8 * n
    BY <1>2
  <2> QED BY Zenon, <2>1
<1>4. PICK u \in 0..1 : NearestUp(q, s, 16, u)
  <2>1. 0 \in 0..1 /\ 1 \in 0..1 /\ 0 # 1
    OBVIOUS
  <2> QED BY Zenon, <2>1 DEF NearestUp
<1>5. BitOf(v, 0) = n /\ BitOf(v, 1) = q % 2
  <2>1. (v \div 1) % 2 = n /\ (v \div 2) % 2 = q % 2
    BY <1>2
  <2> QED BY Zenon, <2>1, SmallPowers DEF BitOf
<1>6. Flag(BitOf(v, 0) = 1 /\ BitOf(v, 1) = 1) = u
  <2>1. (u = 0 \/ u = 1) /\ 0 # 1
    OBVIOUS
  <2>2. n = 1 /\ q % 2 = 1 <=> 2 * s > 16 \/ (2 * s = 16 /\ q % 2 = 1)
    BY <1>3
  <2>3. u = 1 <=> BitOf(v, 0) = 1 /\ BitOf(v, 1) = 1
    BY Zenon, <1>4, <1>5, <2>2 DEF NearestUp
  <2> QED BY Zenon, <2>1, <2>3 DEF Flag
<1>7. Bits(v, f.wF, 1) = q - w
  <2>1. v \in Int /\ 1 \in Nat /\ (1 + F) - 1 = F /\ v \div 2 = q
    BY <1>2
  <2>2. Bits(v, (1 + F) - 1, 1) = (v \div Pow2[1]) % Pow2[F]
    BY ZenonT(40), <2>1, BitsDef
  <2>3. q % w = q - w
    <3>1. PICK r \in 0..(w - 1) : q = w * 1 + r /\ r = q - w
      <4>1. q - w \in 0..(w - 1) /\ q = w * 1 + (q - w)
        OBVIOUS
      <4> QED BY Zenon, <4>1
    <3>2. 1 \in Int
      OBVIOUS
    <3> QED BY ZenonT(40), <3>1, <3>2, DivisionUnique
  <2> QED BY Zenon, <1>1, <2>1, <2>2, <2>3, SmallPowers
<1> QED BY Zenon, <1>3, <1>4, <1>6, <1>7 DEF CloseSees

\* The difference k that the close path computes, for the exact sum K.
CloseScales(w, P, K, i, j, k) ==
  /\ i \in 0..(4 * w - 1) /\ j \in 0..(4 * w - 1) /\ k = i - j /\ k \in Int
  /\ K \in Int /\ (K > 0 <=> k > 0) /\ (K = 0 <=> k = 0)
  /\ 4 * AbsOf(K) = P * (2 * AbsOf(k))
\* It is K or 2K.
LEMMA CloseScalesIs ==
  ASSUME NEW w \in Nat \ {0}, NEW a \in w..(2 * w - 1), NEW b \in w..(2 * w - 1), NEW D \in 0..1,
         NEW P, P = Pow2[D], NEW K, K = ExactSumOf(a, b, P, 1)
  PROVE  CloseScales(w, P, K, a * 2, b * (IF BitOf(D, 0) = 0 THEN 2 ELSE 1),
                     a * 2 - b * (IF BitOf(D, 0) = 0 THEN 2 ELSE 1))
<1>1. PICK m : m = IF BitOf(D, 0) = 0 THEN 2 ELSE 1
  OBVIOUS
<1>2. (D = 0 /\ P = 1 /\ m = 2) \/ (D = 1 /\ P = 2 /\ m = 1)
  <2>1. (0 \div 1) % 2 = 0 /\ (1 \div 1) % 2 = 1 /\ 1 # 0 /\ (D = 0 \/ D = 1)
    OBVIOUS
  <2>2. CASE D = 0
    <3>1. BitOf(D, 0) = 0
      BY Zenon, <2>1, <2>2, SmallPowers DEF BitOf
    <3> QED BY Zenon, <1>1, <2>2, <3>1, SmallPowers
  <2>3. CASE D = 1
    <3>1. BitOf(D, 0) # 0
      BY Zenon, <2>1, <2>3, SmallPowers DEF BitOf
    <3> QED BY Zenon, <1>1, <2>3, <3>1, SmallPowers
  <2> QED BY Zenon, <2>1, <2>2, <2>3
<1>3. K = a * P - b
  BY Zenon DEF ExactSumOf
<1>4. PICK k : k = a * 2 - b * m
  OBVIOUS
<1>5. CASE D = 0 /\ P = 1 /\ m = 2
  <2>1. K = a - b /\ k = 2 * (a - b)
    BY <1>3, <1>4, <1>5
  <2>2. a * 2 \in 0..(4 * w - 1) /\ b * m \in 0..(4 * w - 1) /\ k \in Int /\ K \in Int
    BY <1>5, <2>1
  <2>3. (K > 0 <=> k > 0) /\ (K = 0 <=> k = 0)
    BY <2>1
  <2>4. 4 * AbsOf(K) = P * (2 * AbsOf(k))
    <3>1. CASE K >= 0
      <4>1. AbsOf(K) = K /\ AbsOf(k) = k
        BY <2>1, <3>1 DEF AbsOf
      <4> QED BY <1>5, <2>1, <4>1
    <3>2. CASE K < 0
      <4>1. AbsOf(K) = -K /\ AbsOf(k) = -k
        BY <2>1, <3>2 DEF AbsOf
      <4> QED BY <1>5, <2>1, <4>1
    <3> QED BY <2>2, <3>1, <3>2
  <2> QED BY Zenon, <1>1, <1>4, <2>2, <2>3, <2>4 DEF CloseScales
<1>6. CASE D = 1 /\ P = 2 /\ m = 1
  <2>1. K = 2 * a - b /\ k = K
    BY <1>3, <1>4, <1>6
  <2>2. a * 2 \in 0..(4 * w - 1) /\ b * m \in 0..(4 * w - 1) /\ k \in Int /\ K \in Int
    BY <1>6, <2>1
  <2>3. (K > 0 <=> k > 0) /\ (K = 0 <=> k = 0)
    BY <2>1
  <2>4. 4 * AbsOf(K) = P * (2 * AbsOf(k))
    <3>1. PICK n \in Int : n = AbsOf(K)
      BY <2>2 DEF AbsOf
    <3>2. 4 * n = 2 * (2 * n)
      OBVIOUS
    <3> QED BY Zenon, <1>6, <2>1, <3>1, <3>2
  <2> QED BY Zenon, <1>1, <1>4, <2>2, <2>3, <2>4 DEF CloseScales
<1> QED BY Zenon, <1>2, <1>5, <1>6

FieldsAdded(f, exn, sign, h, g) ==
  Encode(f, exn, sign, 0, 0) + (h * Pow2[f.wF] + g) = Encode(f, exn, sign, h, g)
\* The exponent and the fraction added to the encoding of an exception and a sign.
LEMMA FieldsAddedIs ==
  ASSUME NEW f, NumberFormat(f), NEW exn \in 0..3, NEW sign \in 0..1,
         NEW h \in 0..(Pow2[f.wE] - 1), NEW g \in 0..(Pow2[f.wF] - 1)
  PROVE  FieldsAdded(f, exn, sign, h, g)
  BY ZenonT(40), EncodedParts DEF FieldsAdded

\* A path whose result is zero gives a zero, whatever the bits below it.
LEMMA DualCancels ==
  ASSUME NEW f, NumberFormat(f), NEW x, NEW y, Exn(f, x) = 1, Exn(f, y) = 1,
         NEW path, path.sign = 0, path.isZero, path.before \in Int, path.round \in Int
  PROVE  FPEqual(f, DualOf(f, x, y, path), Zero(f, 0))
<1>1. PICK v \in Int : v = IntAdder(f.wE + f.wF + 2, path.before, 0, path.round)
  <2>1. PICK p \in Nat \ {0} : p = Pow2[f.wE + f.wF + 2]
    <3>1. f.wE + f.wF + 2 \in Nat
      BY DEF NumberFormat
    <3> QED BY <3>1, Pow2Def
  <2>2. PICK i \in Int, u \in Int : i = path.before /\ u = path.round
    BY Zenon
  <2>3. (i + 0 + u) % p \in Int
    OBVIOUS
  <2> QED BY Zenon, <2>1, <2>2, <2>3 DEF IntAdder
<1>2. PICK h \in 0..(Pow2[f.wE] - 1), g \in 0..(Pow2[f.wF] - 1) : Bits(v, f.wE + f.wF - 1, 0) = h * Pow2[f.wF] + g
  BY ZenonT(40), FreeVector
<1>3. DualOf(f, x, y, path) = Encode(f, 0, 0, h, g)
  <2>1. DualNormalIs(f, x, y, path, v)
    BY Zenon, DualNormal
  <2>2. DualOf(f, x, y, path) = Encode(f, 0, 0, 0, 0) + (h * Pow2[f.wF] + g)
    BY Zenon, <1>1, <1>2, <2>1 DEF DualNormalIs, DualOf
  <2>3. PICK exn \in 0..3, sign \in 0..1 : exn = 0 /\ sign = 0
    OBVIOUS
  <2>4. FieldsAdded(f, exn, sign, h, g)
    BY ZenonT(40), FieldsAddedIs
  <2> QED BY Zenon, <2>2, <2>3, <2>4 DEF FieldsAdded
<1>4. OtherAgree(f, 0, 0, h, g, 0, 0)
  <2>1. PICK w \in Nat \ {0}, G \in Nat \ {0} : w = Pow2[f.wF] /\ G = Pow2[f.wE]
    BY Pow2Def DEF NumberFormat
  <2>2. 0 \in 0..(G - 1) /\ 0 \in 0..(w - 1) /\ 0 \in 0..1 /\ 0 \in {0, 2, 3}
    OBVIOUS
  <2>3. 0 \in 0..(Pow2[f.wE] - 1) /\ 0 \in 0..(Pow2[f.wF] - 1)
    BY Zenon, <2>1, <2>2
  <2> QED BY ZenonT(40), <2>2, <2>3, EncodingsAgree
<1> QED BY Zenon, <1>3, <1>4 DEF OtherAgree, Zero, ZeroExn

\* The close path gives the difference, exactly unless one bit is below it.
LEMMA ClosePathIs ==
  ASSUME NEW f, AdderFormat(f), NEW x, NEW y, NEW s1, NEW e1, NEW fr1, NEW s2, NEW e2, NEW fr2,
         NEW w \in Nat \ {0}, NEW a \in w..(2 * w - 1), NEW b \in w..(2 * w - 1), NEW D \in 0..e1,
         NEW P \in Nat \ {0}, NEW K \in Int,
         NormalPair(f, x, y, s1, e1, fr1, s2, e2, fr2, w, a, b, D, P, 1, K), D \in 0..1
  PROVE  FPEqual(f, DualOf(f, x, y, ClosePath(f, x, y, D)), Sum(f, x, y))
<1>1. /\ Fields(f, x, 1, s1, e1, fr1) /\ Fields(f, y, 1, s2, e2, fr2)
      /\ w = Pow2[f.wF] /\ e1 \in 0..(Pow2[f.wE] - 1) /\ a = w + fr1 /\ b = w + fr2 /\ s1 \in 0..1
      /\ P = Pow2[D] /\ K = ExactSumOf(a, b, P, 1) /\ SumFrom(f, x, y, s1, Pow2[e1 - D], K)
  BY Zenon DEF NormalPair
<1>2. NumberFormat(f)
  BY Zenon DEF AdderFormat
<1>3. PICK G \in Nat \ {0}, F \in Nat \ {0} : G = Pow2[f.wE] /\ F = f.wF
  <2>1. PICK F \in Nat \ {0} : F = f.wF
    BY DEF AdderFormat, NumberFormat
  <2>2. PICK G \in Nat \ {0} : G = Pow2[f.wE]
    BY Pow2Def DEF AdderFormat, NumberFormat
  <2> QED BY Zenon, <2>1, <2>2
<1>4. e1 \in 0..(G - 1) /\ Exn(f, x) = 1 /\ Exn(f, y) = 1 /\ Sign(f, x) = s1 /\ Exponent(f, x) = e1
      /\ Significand(f, x) = a /\ Significand(f, y) = b
  BY Zenon, <1>1, <1>3 DEF Fields
<1>5. PICK i, j, k : i = a * 2 /\ j = b * (IF BitOf(D, 0) = 0 THEN 2 ELSE 1) /\ k = i - j
  OBVIOUS
<1>6. CloseScales(w, P, K, i, j, k)
  BY ZenonT(40), <1>1, <1>5, CloseScalesIs
<1>7. /\ i \in 0..(4 * w - 1) /\ j \in 0..(4 * w - 1) /\ k = i - j /\ k \in Int
      /\ (K > 0 <=> k > 0) /\ (K = 0 <=> k = 0) /\ 4 * AbsOf(K) = P * (2 * AbsOf(k))
  BY Zenon, <1>6 DEF CloseScales
<1>8. PICK tot \in Nat, negative \in 0..1 :
        /\ tot = AbsOf(k) /\ negative = Flag(k < 0) /\ tot < 4 * w
        /\ (tot = 0 <=> k = 0) /\ (negative = 1 <=> k < 0)
  <2>1. AbsOf(k) \in Nat /\ AbsOf(k) < 4 * w /\ (AbsOf(k) = 0 <=> k = 0)
    BY <1>7 DEF AbsOf
  <2>2. Flag(k < 0) \in 0..1 /\ (Flag(k < 0) = 1 <=> k < 0)
    BY <1>7 DEF Flag
  <2> QED BY Zenon, <2>1, <2>2
<1>9. PICK norm : norm = Normalizer(F + 2, F + 2, F + 2, 0, tot)
  OBVIOUS
<1>10. PICK path : path = ClosePath(f, x, y, D)
  OBVIOUS
<1>11. CloseIs(f, path, s1, e1, negative, tot, norm)
  <2>1. CloseGives(f, i, j, k)
    BY ZenonT(40), <1>1, <1>2, <1>7, CloseDifferenceIs
  <2>2. CloseDifference(f, i, j) = [negative |-> negative, frac |-> tot]
    BY Zenon, <1>8, <2>1 DEF CloseGives
  <2>3. i = Significand(f, x) * 2 /\ j = Significand(f, y) * (IF BitOf(D, 0) = 0 THEN 2 ELSE 1)
    BY Zenon, <1>4, <1>5
  <2>4. norm = Normalizer(f.wF + 2, f.wF + 2, f.wF + 2, 0, tot)
    BY Zenon, <1>3, <1>9
  <2> QED BY ZenonT(60), <1>4, <1>10, <2>2, <2>3, <2>4, CloseUnfolds
<1>12. PICK sign, isZero, round, before :
         /\ path.sign = sign /\ path.isZero = isZero /\ path.round = round /\ path.before = before
         /\ sign = IF tot = 0 THEN 0 ELSE XorBit(s1, negative)
         /\ isZero = (norm.Count = Ones(IntLog2(f.wF + 2)))
         /\ round = Flag(BitOf(norm.R, 0) = 1 /\ BitOf(norm.R, 1) = 1)
         /\ before = Cat((e1 - norm.Count) % Pow2[f.wE + 2], f.wF, Bits(norm.R, f.wF, 1))
  <2>1. PICK sign, isZero, round, before :
         /\ path = [sign |-> sign, isZero |-> isZero, round |-> round, before |-> before]
         /\ sign = IF tot = 0 THEN 0 ELSE XorBit(s1, negative)
         /\ isZero = (norm.Count = Ones(IntLog2(f.wF + 2)))
         /\ round = Flag(BitOf(norm.R, 0) = 1 /\ BitOf(norm.R, 1) = 1)
         /\ before = Cat((e1 - norm.Count) % Pow2[f.wE + 2], f.wF, Bits(norm.R, f.wF, 1))
    BY Zenon, <1>11 DEF CloseIs
  <2>2. path.sign = sign /\ path.isZero = isZero /\ path.round = round /\ path.before = before
    BY <2>1
  <2> QED BY Zenon, <2>1, <2>2
<1>13. F + 2 \in Nat /\ 2 <= F + 2
  OBVIOUS
<1>14. CASE tot = 0
  <2>1. norm.Count = Ones(IntLog2(F + 2)) /\ norm.R = 0
    BY ZenonT(40), <1>9, <1>13, <1>14, NothingNormalized
  <2>2. path.isZero
    BY Zenon, <1>3, <1>12, <2>1
  <2>3. path.sign = 0
    BY Zenon, <1>12, <1>14
  <2>4. path.round \in Int
    <3>1. 0 \in Int /\ 1 \in Int
      OBVIOUS
    <3> QED BY Zenon, <1>12, <3>1 DEF Flag
  <2>5. path.before \in Int
    <3>1. PICK c \in Int : c = norm.Count
      <4>1. IntLog2(F + 2) \in Nat
        BY ZenonT(40), <1>13, IntLog2Bounds
      <4>2. PICK p \in Nat \ {0} : p = Pow2[IntLog2(F + 2)]
        BY <4>1, Pow2Def
      <4>3. p - 1 \in Int
        OBVIOUS
      <4> QED BY Zenon, <2>1, <4>2, <4>3 DEF Ones
    <3>2. PICK p \in Nat \ {0} : p = Pow2[f.wE + 2]
      <4>1. f.wE + 2 \in Nat
        BY <1>2 DEF NumberFormat
      <4> QED BY <4>1, Pow2Def
    <3>3. PICK m \in Int : m = (e1 - c) % p
      <4>1. (e1 - c) % p \in Int
        BY <1>4
      <4> QED BY Zenon, <4>1
    <3>4. Bits(norm.R, f.wF, 1) = 0
      <4>1. F \in Int /\ 1 \in Nat
        OBVIOUS
      <4> QED BY Zenon, <1>3, <2>1, <4>1, BitsOfZero
    <3>5. m * w + 0 \in Int
      OBVIOUS
    <3> QED BY Zenon, <1>1, <1>12, <3>1, <3>2, <3>3, <3>4, <3>5 DEF Cat
  <2>6. FPEqual(f, DualOf(f, x, y, path), Zero(f, 0))
    BY ZenonT(40), <1>2, <1>4, <2>2, <2>3, <2>4, <2>5, DualCancels
  <2>7. Sum(f, x, y) = Zero(f, 0)
    BY Zenon, <1>1, <1>7, <1>8, <1>14 DEF SumFrom
  <2> QED BY Zenon, <1>10, <2>6, <2>7
<1>15. CASE tot # 0
  <2>1. Pow2[F + 2] = 4 * w /\ Pow2[(F + 2) - 1] = 2 * w
    <3>1. 2 \in Nat /\ 1 \in Nat /\ (F + 2) - 1 = F + 1 /\ F \in Nat
      OBVIOUS
    <3>2. Pow2[F + 2] = Pow2[F] * Pow2[2] /\ Pow2[F + 1] = Pow2[F] * Pow2[1]
      BY ZenonT(40), <3>1, Pow2Sum
    <3>3. Pow2[F + 2] = w * 4 /\ Pow2[F + 1] = w * 2
      BY Zenon, <1>1, <1>3, <3>2, SmallPowers
    <3>4. w * 4 = 4 * w /\ w * 2 = 2 * w
      OBVIOUS
    <3> QED BY Zenon, <3>1, <3>3, <3>4
  <2>2. PICK z1 \in Nat, v \in Nat : NormalizedTo(F + 2, tot, z1, v, norm)
    <3>1. tot \in Nat \ {0} /\ tot < Pow2[F + 2]
      BY <1>8, <1>15, <2>1
    <3>2. \E z1 \in Nat, v \in Nat : NormalizedTo(F + 2, tot, z1, v, Normalizer(F + 2, F + 2, F + 2, 0, tot))
      BY ZenonT(40), <1>13, <3>1, NormalizedToIs
    <3> QED BY Zenon, <1>9, <3>2
  <2>3. /\ v = tot * Pow2[z1] /\ 2 * w <= v /\ v < 4 * w /\ norm.R = v /\ norm.Count = z1 /\ z1 < F + 2
        /\ norm.Count # Ones(IntLog2(F + 2))
    BY Zenon, <2>1, <2>2 DEF NormalizedTo
  <2>4. PICK q \in w..(2 * w - 1), s \in 0..15, u \in 0..1 : CloseSees(f, w, v, q, s, u)
    BY ZenonT(40), <1>1, <1>2, <2>3, CloseSeesIs
  <2>5. PICK z \in 0..(f.wF + 4) : z = z1 + 1 /\ (e1 + 1) - z = e1 - z1
    <3>1. z1 + 1 \in 0..(F + 4) /\ (e1 + 1) - (z1 + 1) = e1 - z1
      BY <1>4, <2>3
    <3> QED BY Zenon, <1>3, <3>1
  <2>6. PICK t \in Nat, l \in 0..(P - 1) : t = 2 * tot /\ l = 0
    <3>1. 2 * tot \in Nat /\ 0 \in 0..(P - 1)
      OBVIOUS
    <3> QED BY Zenon, <3>1
  <2>7. PICK N \in Nat \ {0} : N = AbsOf(K) /\ 4 * N = P * t + l
    <3>1. AbsOf(K) \in Nat \ {0}
      BY <1>7, <1>8, <1>15 DEF AbsOf
    <3>2. PICK n \in Int : n = P * t
      OBVIOUS
    <3>3. n = n + l
      BY <2>6
    <3>4. 4 * AbsOf(K) = n
      BY Zenon, <1>7, <1>8, <2>6, <3>2
    <3> QED BY Zenon, <3>1, <3>2, <3>3, <3>4
  <2>8. (2 * t + Flag(l # 0)) * Pow2[z] = 16 * q + s
    <3>1. Flag(l # 0) = 0
      BY Zenon, <2>6 DEF Flag
    <3>2. PICK g \in Nat : g = Pow2[z1] /\ Pow2[z1 + 1] = 2 * g
      BY Pow2Def
    <3>3. (2 * t + 0) * (2 * g) = 8 * (tot * g)
      BY <2>6
    <3>4. 8 * v = 16 * q + s
      BY Zenon, <2>4 DEF CloseSees
    <3> QED BY Zenon, <2>3, <2>5, <3>1, <3>2, <3>3, <3>4
  <2>9. (IF K > 0 THEN s1 ELSE 1 - s1) = XorBit(s1, negative)
    <3>1. (K > 0 <=> negative = 0)
      <4>1. K > 0 <=> ~(k < 0)
        BY <1>7, <1>8, <1>15
      <4> QED BY <1>8, <4>1
    <3>2. s1 \in 0..1
      BY <1>1
    <3>3. CASE negative = 0
      <4>1. XorBit(s1, negative) = s1
        BY <3>2, <3>3 DEF XorBit
      <4> QED BY Zenon, <3>1, <3>3, <4>1
    <3>4. CASE negative # 0
      <4>1. XorBit(s1, negative) = 1 - s1
        BY <3>2, <3>4 DEF XorBit
      <4> QED BY Zenon, <3>1, <3>4, <4>1
    <3> QED BY Zenon, <3>3, <3>4
  <2>10. PathGives(f, path, IF K > 0 THEN s1 ELSE 1 - s1, (e1 + 1) - z, q, u)
    <3>1. path.sign = XorBit(s1, negative)
      BY Zenon, <1>12, <1>15
    <3>2. path.isZero = FALSE
      BY Zenon, <1>3, <1>12, <2>3
    <3>3. path.round = u /\ Bits(norm.R, f.wF, 1) = q - w
      BY Zenon, <1>12, <2>3, <2>4 DEF CloseSees
    <3>4. path.before = (((e1 + 1) - z) % Pow2[f.wE + 2]) * Pow2[f.wF] + (q - Pow2[f.wF])
      BY Zenon, <1>1, <1>12, <2>3, <2>5, <3>3 DEF Cat
    <3> QED BY Zenon, <2>9, <3>1, <3>2, <3>3, <3>4 DEF PathGives
  <2>11. (l # 0 => z <= 2) /\ NearestUp(q, s, 16, u)
    BY Zenon, <2>4, <2>6 DEF CloseSees
  <2>12. FPEqual(f, DualOf(f, x, y, path), Sum(f, x, y))
    BY ZenonT(90), <2>7, <2>8, <2>10, <2>11, PathSums
  <2> QED BY Zenon, <1>10, <2>12
<1> QED BY Zenon, <1>14, <1>15

-----------------------------------------------------------------------------
(***************************************************************************)
(* The choice of a path, and the operands that take none.                  *)
(***************************************************************************)
DualIs(f, x, y, effSub, D) ==
  DualPath(f, x, y) = DualOf(f, x, y, IF effSub = 1 /\ Bits(D, f.wE - 1, 1) = 0 THEN ClosePath(f, x, y, D)
                                      ELSE FarPath(f, x, y, D, effSub))
LEMMA DualUnfolds ==
  ASSUME NEW f, NEW x, NEW y, NEW effSub, effSub = XorBit(Sign(f, x), Sign(f, y)),
         NEW D, D = (Exponent(f, x) - Exponent(f, y)) % Pow2[f.wE]
  PROVE  DualIs(f, x, y, effSub, D)
  BY ZenonT(60) DEF DualPath, DualIs, DualOf

\* A distance is close when it has no bit but the last one.
LEMMA CloseDistance ==
  ASSUME NEW f, NumberFormat(f), NEW D \in 0..(Pow2[f.wE] - 1)
  PROVE  Bits(D, f.wE - 1, 1) = 0 <=> D < 2
<1>1. PICK m \in Nat : f.wE = m + 1 /\ f.wE - 1 = (1 + m) - 1
  <2>1. f.wE - 1 \in Nat /\ f.wE = (f.wE - 1) + 1 /\ f.wE - 1 = (1 + (f.wE - 1)) - 1
    BY DEF NumberFormat
  <2> QED BY <2>1
<1>2. PICK p \in Nat \ {0} : p = Pow2[m] /\ Pow2[f.wE] = 2 * p
  BY Zenon, <1>1, Pow2Def
<1>3. D \in 0..(2 * p - 1)
  BY Zenon, <1>2
<1>4. Bits(D, f.wE - 1, 1) = D \div 2
  <2>1. D \in Int /\ 1 \in Nat
    BY <1>3
  <2>2. Bits(D, (1 + m) - 1, 1) = (D \div Pow2[1]) % Pow2[m]
    BY ZenonT(40), <2>1, BitsDef
  <2>3. PICK i \in 0..(p - 1) : i = D \div 2
    <3>1. D \div 2 \in 0..(p - 1)
      BY <1>3
    <3> QED BY Zenon, <3>1
  <2>4. i % p = i
    OBVIOUS
  <2> QED BY Zenon, <1>1, <1>2, <2>2, <2>3, <2>4, SmallPowers
<1>5. D \div 2 = 0 <=> D < 2
  BY <1>3
<1> QED BY Zenon, <1>4, <1>5

\* The sum of two normal numbers, by either path.
LEMMA DualBothNormal ==
  ASSUME NEW f, AdderFormat(f), NEW x, NEW y, NEW s1, NEW e1, NEW fr1, NEW s2, NEW e2, NEW fr2,
         Fields(f, x, 1, s1, e1, fr1), Fields(f, y, 1, s2, e2, fr2), e2 <= e1
  PROVE  FPEqual(f, DualPath(f, x, y), Sum(f, x, y))
<1>1. NumberFormat(f)
  BY Zenon DEF AdderFormat
<1>2. PICK w \in Nat \ {0}, a \in Int, b \in Int, D \in 0..e1, P \in Nat \ {0}, effSub \in 0..1, K \in Int :
        /\ a \in w..(2 * w - 1) /\ b \in w..(2 * w - 1)
        /\ NormalPair(f, x, y, s1, e1, fr1, s2, e2, fr2, w, a, b, D, P, effSub, K)
  <2>1. PICK w \in Nat \ {0} : \E a \in w..(2 * w - 1), b \in w..(2 * w - 1), D \in 0..e1, P \in Nat \ {0},
           effSub \in 0..1, K \in Int :
           NormalPair(f, x, y, s1, e1, fr1, s2, e2, fr2, w, a, b, D, P, effSub, K)
    BY ZenonT(40), <1>1, NormalPairIs
  <2>2. PICK a \in w..(2 * w - 1), b \in w..(2 * w - 1), D \in 0..e1, P \in Nat \ {0}, effSub \in 0..1, K \in Int :
           NormalPair(f, x, y, s1, e1, fr1, s2, e2, fr2, w, a, b, D, P, effSub, K)
    BY Zenon, <2>1
  <2>3. a \in Int /\ b \in Int
    OBVIOUS
  <2> QED BY Zenon, <2>2, <2>3
<1>3. PICK G \in Nat \ {0} : G = Pow2[f.wE]
  BY <1>1, Pow2Def DEF NumberFormat
<1>4. /\ e1 \in 0..(G - 1) /\ e2 \in 0..(G - 1) /\ D = e1 - e2 /\ effSub = XorBit(s1, s2)
      /\ Sign(f, x) = s1 /\ Sign(f, y) = s2 /\ Exponent(f, x) = e1 /\ Exponent(f, y) = e2
  BY Zenon, <1>2, <1>3 DEF NormalPair, Fields
<1>5. D \in 0..(G - 1) /\ D = (e1 - e2) % G
  BY <1>4
<1>6. DualIs(f, x, y, effSub, D)
  <2>1. effSub = XorBit(Sign(f, x), Sign(f, y)) /\ D = (Exponent(f, x) - Exponent(f, y)) % Pow2[f.wE]
    BY Zenon, <1>3, <1>4, <1>5
  <2> QED BY ZenonT(40), <2>1, DualUnfolds
<1>7. Bits(D, f.wE - 1, 1) = 0 <=> D < 2
  <2>1. D \in 0..(Pow2[f.wE] - 1)
    BY Zenon, <1>3, <1>5
  <2> QED BY ZenonT(40), <1>1, <2>1, CloseDistance
<1>8. CASE effSub = 1 /\ D < 2
  <2>1. D \in 0..1
    BY <1>5, <1>8
  <2>2. NormalPair(f, x, y, s1, e1, fr1, s2, e2, fr2, w, a, b, D, P, 1, K)
    BY Zenon, <1>2, <1>8
  <2>3. FPEqual(f, DualOf(f, x, y, ClosePath(f, x, y, D)), Sum(f, x, y))
    BY ZenonT(60), <1>2, <2>1, <2>2, ClosePathIs
  <2> QED BY Zenon, <1>6, <1>7, <1>8, <2>3 DEF DualIs
<1>9. CASE ~(effSub = 1 /\ D < 2)
  <2>1. effSub = 0 \/ D >= 2
    BY <1>5, <1>9
  <2>2. FPEqual(f, DualOf(f, x, y, FarPath(f, x, y, D, effSub)), Sum(f, x, y))
    BY ZenonT(60), <1>2, <2>1, FarPathIs
  <2> QED BY Zenon, <1>6, <1>7, <1>9, <2>2 DEF DualIs
<1> QED BY Zenon, <1>8, <1>9

\* The sum of a normal number and a zero is that number.
LEMMA NormalAndZero ==
  ASSUME NEW f, NumberFormat(f), NEW x, NEW y, NEW s1, NEW e1, NEW fr1, NEW s2, NEW e2, NEW fr2,
         Fields(f, x, 1, s1, e1, fr1), Fields(f, y, 0, s2, e2, fr2)
  PROVE  Sum(f, x, y) = x
<1>1. PICK F \in Nat, w \in Nat \ {0}, G \in Nat \ {0} : F = f.wF /\ w = Pow2[f.wF] /\ G = Pow2[f.wE]
  <2>1. f.wF \in Nat /\ f.wE \in Nat
    BY DEF NumberFormat
  <2> QED BY <2>1, Pow2Def
<1>2. /\ e1 \in 0..(G - 1) /\ fr1 \in 0..(w - 1) /\ s1 \in 0..1 /\ x = Encode(f, 1, s1, e1, fr1)
      /\ s2 \in 0..1
  BY Zenon, <1>1 DEF Fields
<1>3. PICK a \in w..(2 * w - 1) : a = w + fr1 /\ a - w = fr1 /\ a + 0 # 2 * w /\ (a + 0) - w = fr1
  <2>1. w + fr1 \in w..(2 * w - 1) /\ (w + fr1) - w = fr1 /\ (w + fr1) + 0 # 2 * w /\ ((w + fr1) + 0) - w = fr1
    BY <1>2
  <2> QED BY Zenon, <2>1
<1>4. PICK effSub \in 0..1 : effSub = XorBit(s1, s2)
  <2>1. XorBit(s1, s2) \in 0..1
    BY <1>2 DEF XorBit
  <2> QED BY Zenon, <2>1
<1>5. PICK E \in Nat : E = e1 /\ e1 - 0 = E
  <2>1. e1 \in Nat /\ e1 - 0 = e1
    BY <1>2
  <2> QED BY Zenon, <2>1
<1>6. a = ExactSumOf(a, 0, 1, effSub) /\ a > 0 /\ a # 0 /\ a \in Int
  <2>1. a * 1 - 0 = a /\ a * 1 + 0 = a /\ a > 0 /\ a # 0 /\ a \in Int
    OBVIOUS
  <2> QED BY Zenon, <2>1 DEF ExactSumOf
<1>7. SumFrom(f, x, y, s1, Pow2[e1 - 0], a)
  <2>1. Stands(f, 0, e2, fr2, e1, 0, 0)
    BY Zenon DEF Stands
  <2>2. a = ExactSumOf(Pow2[f.wF] + fr1, 0, 1, XorBit(s1, s2))
    BY Zenon, <1>1, <1>3, <1>4, <1>6
  <2>3. 0 \in 0..e1
    BY <1>5
  <2>4. PICK b, D, P, K : D \in 0..e1 /\ b = 0 /\ D = 0 /\ P = 1 /\ K = a /\ P = Pow2[D]
    BY Zenon, <2>3, SmallPowers
  <2>5. SumFrom(f, x, y, s1, Pow2[e1 - D], K) /\ K \in Int
    <3>1. Stands(f, 0, e2, fr2, e1, b, D) /\ K = ExactSumOf(Pow2[f.wF] + fr1, b, P, XorBit(s1, s2))
      BY Zenon, <2>1, <2>2, <2>4
    <3> QED BY ZenonT(60), <2>4, <3>1, SumFromIs
  <2> QED BY Zenon, <2>4, <2>5
<1>8. PICK n \in Nat : n = Pow2[E] * a
  <2>1. PICK p \in Nat \ {0} : p = Pow2[E]
    BY Pow2Def
  <2>2. p * a \in Nat
    OBVIOUS
  <2> QED BY Zenon, <2>1, <2>2
<1>9. Sum(f, x, y) = Rounded(f, s1, n, 1, -(f.wF + Bias(f)))
  <2>1. AbsOf(a) = a
    BY <1>6 DEF AbsOf
  <2> QED BY Zenon, <1>5, <1>6, <1>7, <1>8, <2>1 DEF SumFrom
<1>10. InUnits(n, E, a, 0, 0)
  <2>1. PICK p \in Nat \ {0} : p = Pow2[E]
    BY Pow2Def
  <2>2. p * a + 0 = p * a /\ 0 \in 0..(p - 1) /\ ~(2 * 0 > p) /\ 2 * 0 # p /\ 0 # 1
    OBVIOUS
  <2>3. NearestUp(a, 0, p, 0)
    BY Zenon, <2>2 DEF NearestUp
  <2>4. n = p * a + 0
    BY Zenon, <1>8, <2>1, <2>2
  <2> QED BY Zenon, <2>1, <2>2, <2>3, <2>4 DEF InUnits
<1>11. PICK e \in Int, bias \in Int : bias = Bias(f) /\ e = -(f.wF + Bias(f)) /\ (e + f.wF) + E = E - bias
  <2>1. PICK m \in Nat : f.wE - 1 = m
    BY DEF NumberFormat
  <2>2. PICK p \in Nat \ {0} : p = Pow2[f.wE - 1]
    BY Zenon, <2>1, Pow2Def
  <2>3. PICK bias \in Int : bias = p - 1
    OBVIOUS
  <2>4. -(F + bias) \in Int /\ (-(F + bias) + F) + E = E - bias
    OBVIOUS
  <2>5. bias = Bias(f)
    BY Zenon, <2>2, <2>3 DEF Bias
  <2> QED BY Zenon, <1>1, <2>4, <2>5
<1>12. WholeRounds(f, s1, n, e, E, a, 0)
  <2>1. PICK r \in Int, u \in 0..1 : r = 0 /\ u = 0
    OBVIOUS
  <2>2. InUnits(n, E, a, r, u)
    BY Zenon, <1>5, <1>10, <2>1
  <2>3. E \in Int
    OBVIOUS
  <2>4. WholeRounds(f, s1, n, e, E, a, u)
    BY ZenonT(60), <1>1, <2>2, <2>3, WholeRoundsIs
  <2> QED BY Zenon, <2>1, <2>4
<1>13. Rounded(f, s1, n, 1, e) = Packed(f, s1, E - bias, fr1)
  BY Zenon, <1>1, <1>3, <1>11, <1>12 DEF WholeRounds
<1>14. Packed(f, s1, E - bias, fr1) = Encode(f, 1, s1, E, fr1)
  <2>1. (E - bias) + bias = E /\ ~(E < 0)
    OBVIOUS
  <2>2. ~(E > Ones(f.wE))
    <3>1. ~(E > G - 1)
      BY <1>2, <1>5
    <3> QED BY Zenon, <1>1, <3>1 DEF Ones
  <2> QED BY Zenon, <1>11, <2>1, <2>2 DEF Packed, NormalExn
<1> QED BY Zenon, <1>2, <1>5, <1>9, <1>11, <1>13, <1>14

\* Operands that are not both normal: the exceptions decide.
LEMMA DualExceptional ==
  ASSUME NEW f, NumberFormat(f), NEW x, NEW y,
         NEW n1, NEW s1, NEW e1, NEW fr1, NEW n2, NEW s2, NEW e2, NEW fr2,
         Fields(f, x, n1, s1, e1, fr1), Fields(f, y, n2, s2, e2, fr2), n2 <= n1, ~(n1 = 1 /\ n2 = 1)
  PROVE  FPEqual(f, DualPath(f, x, y), Sum(f, x, y))
<1>1. /\ n1 \in 0..3 /\ n2 \in 0..3 /\ s1 \in 0..1 /\ s2 \in 0..1
      /\ e1 \in 0..(Pow2[f.wE] - 1) /\ fr1 \in 0..(Pow2[f.wF] - 1) /\ x = Encode(f, n1, s1, e1, fr1)
      /\ Bits(x, f.wE + f.wF - 1, 0) = e1 * Pow2[f.wF] + fr1
      /\ Exn(f, x) = n1 /\ Exn(f, y) = n2 /\ Sign(f, x) = s1 /\ Sign(f, y) = s2
  BY Zenon DEF Fields
<1>2. PICK effSub, D : effSub = XorBit(Sign(f, x), Sign(f, y)) /\ D = (Exponent(f, x) - Exponent(f, y)) % Pow2[f.wE]
  OBVIOUS
<1>3. PICK path : DualPath(f, x, y) = DualOf(f, x, y, path)
  <2>1. DualIs(f, x, y, effSub, D)
    BY ZenonT(40), <1>2, DualUnfolds
  <2> QED BY Zenon, <2>1 DEF DualIs
<1>4. PICK exn, sign :
        /\ exn = IF n1 = 2 /\ n2 = 2 THEN IF s1 = s2 THEN 2 ELSE 3 ELSE n1
        /\ sign = IF n1 = 0 /\ n2 = 0 THEN SmallerOf(s1, s2) ELSE s1
  OBVIOUS
<1>5. exn \in 0..3 /\ sign \in 0..1
  <2>1. SmallerOf(s1, s2) \in 0..1
    BY <1>1 DEF SmallerOf
  <2>2. 2 \in 0..3 /\ 3 \in 0..3
    OBVIOUS
  <2> QED BY Zenon, <1>1, <1>4, <2>1, <2>2
<1>6. DualPath(f, x, y) = Encode(f, exn, sign, e1, fr1)
  <2>1. PICK v : v = IntAdder(f.wE + f.wF + 2, path.before, 0, path.round)
    OBVIOUS
  <2>2. DualOtherIs(f, x, y, n1, n2, path, v)
    BY ZenonT(40), <1>1, DualOther
  <2>3. DualOf(f, x, y, path) = Encode(f, exn, sign, 0, 0) + (e1 * Pow2[f.wF] + fr1)
    BY Zenon, <1>1, <1>4, <2>1, <2>2 DEF DualOtherIs, DualOf
  <2>4. FieldsAdded(f, exn, sign, e1, fr1)
    BY ZenonT(40), <1>1, <1>5, FieldsAddedIs
  <2> QED BY Zenon, <1>3, <2>3, <2>4 DEF FieldsAdded
<1>7. ASSUME exn = 3, Sum(f, x, y) = NaN(f)
      PROVE  FPEqual(f, DualPath(f, x, y), Sum(f, x, y))
  <2>1. FPEqual(f, Encode(f, 3, sign, e1, fr1), NaN(f))
    BY ZenonT(40), <1>1, <1>5, NaNsAgree
  <2> QED BY Zenon, <1>6, <1>7, <2>1
<1>8. ASSUME NEW e \in {0, 2}, exn = e, Sum(f, x, y) = Encode(f, e, sign, 0, 0)
      PROVE  FPEqual(f, DualPath(f, x, y), Sum(f, x, y))
  <2>1. PICK w \in Nat \ {0}, G \in Nat \ {0} : w = Pow2[f.wF] /\ G = Pow2[f.wE]
    BY Pow2Def DEF NumberFormat
  <2>2. 0 \in 0..(G - 1) /\ 0 \in 0..(w - 1) /\ e \in {0, 2, 3}
    OBVIOUS
  <2>3. 0 \in 0..(Pow2[f.wE] - 1) /\ 0 \in 0..(Pow2[f.wF] - 1)
    BY Zenon, <2>1, <2>2
  <2>4. OtherAgree(f, sign, e, e1, fr1, 0, 0)
    BY ZenonT(40), <1>1, <1>5, <2>2, <2>3, EncodingsAgree
  <2> QED BY Zenon, <1>6, <1>8, <2>4 DEF OtherAgree
<1>9. 0 \in {0, 2} /\ 2 \in {0, 2} /\ 0 # 1 /\ 0 # 2 /\ 0 # 3 /\ 1 # 2 /\ 1 # 3 /\ 2 # 3 /\ 2 # 0 /\ 3 # 0 /\ 3 # 2 /\ 2 # 1 /\ 1 # 0
  OBVIOUS
<1>10. CASE n1 = 3
  <2>1. exn = 3
    BY Zenon, <1>4, <1>9, <1>10
  <2>2. Sum(f, x, y) = NaN(f)
    BY Zenon, <1>1, <1>10 DEF Sum, NaNExn
  <2> QED BY Zenon, <1>7, <2>1, <2>2
<1>11. CASE n1 = 2 /\ n2 = 2 /\ s1 # s2
  <2>1. exn = 3
    BY Zenon, <1>4, <1>11
  <2>2. Sum(f, x, y) = NaN(f)
    BY Zenon, <1>1, <1>11 DEF Sum, NaNExn, InfExn
  <2> QED BY Zenon, <1>7, <2>1, <2>2
<1>12. CASE n1 = 2 /\ (n2 = 2 => s1 = s2) /\ n2 # 3
  <2>1. exn = 2 /\ sign = s1
    BY Zenon, <1>4, <1>9, <1>12
  <2>2. Sum(f, x, y) = Infinity(f, s1)
    BY Zenon, <1>1, <1>9, <1>12 DEF Sum, NaNExn, InfExn
  <2>3. Sum(f, x, y) = Encode(f, 2, sign, 0, 0)
    BY Zenon, <2>1, <2>2 DEF Infinity, InfExn
  <2> QED BY Zenon, <1>8, <1>9, <2>1, <2>3
<1>13. CASE n1 = 1 /\ n2 = 0
  <2>1. exn = 1 /\ sign = s1
    BY Zenon, <1>4, <1>9, <1>13
  <2>2. Fields(f, x, 1, s1, e1, fr1) /\ Fields(f, y, 0, s2, e2, fr2)
    BY Zenon, <1>13
  <2>3. Sum(f, x, y) = x
    BY ZenonT(40), <2>2, NormalAndZero
  <2>4. DualPath(f, x, y) = x
    BY Zenon, <1>1, <1>6, <1>13, <2>1
  <2> QED BY Zenon, <1>1, <1>13, <2>3, <2>4 DEF FPEqual, NormalExn
<1>14. CASE n1 = 0 /\ n2 = 0
  <2>1. exn = 0 /\ sign = SmallerOf(s1, s2)
    BY Zenon, <1>4, <1>9, <1>14
  <2>2. Sum(f, x, y) = Zero(f, SmallerOf(s1, s2))
    BY Zenon, <1>1, <1>9, <1>14 DEF Sum, NaNExn, InfExn, ZeroExn
  <2>3. Sum(f, x, y) = Encode(f, 0, sign, 0, 0)
    BY Zenon, <2>1, <2>2 DEF Zero, ZeroExn
  <2> QED BY Zenon, <1>8, <1>9, <2>1, <2>3
<1>15. n1 = 3 \/ (n1 = 2 /\ n2 = 2 /\ s1 # s2) \/ (n1 = 2 /\ (n2 = 2 => s1 = s2) /\ n2 # 3)
       \/ (n1 = 1 /\ n2 = 0) \/ (n1 = 0 /\ n2 = 0)
  <2>1. (n1 = 2 => n2 # 3) /\ (n1 = 1 => n2 = 0) /\ (n1 = 0 => n2 = 0) /\ (n1 = 0 \/ n1 = 1 \/ n1 = 2 \/ n1 = 3)
    BY <1>1
  <2> QED BY Zenon, <2>1
<1> QED BY Zenon, <1>10, <1>11, <1>12, <1>13, <1>14, <1>15

\* The dual-path adder gives the correctly rounded sum, of all operands.
LEMMA DualPathIs ==
  ASSUME NEW f, AdderFormat(f), NEW x \in Numbers(f), NEW y \in Numbers(f), NEW sub
  PROVE  FPEqual(f, FPAddDualPath(f, sub, x, y), Sum(f, x, Operand(f, sub, y)))
<1>1. NumberFormat(f)
  BY Zenon DEF AdderFormat
<1>2. PICK n1 \in 0..3, s1 \in 0..1, e1 \in 0..(Pow2[f.wE] - 1), fr1 \in 0..(Pow2[f.wF] - 1) :
        Fields(f, x, n1, s1, e1, fr1)
  BY ZenonT(40), <1>1, NumberHasParts
<1>3. PICK n2 \in 0..3, s0 \in 0..1, e2 \in 0..(Pow2[f.wE] - 1), fr2 \in 0..(Pow2[f.wF] - 1) :
        Fields(f, y, n2, s0, e2, fr2)
  BY ZenonT(40), <1>1, NumberHasParts
<1>4. PICK z, s2 : z = Operand(f, sub, y) /\ Fields(f, z, n2, s2, e2, fr2)
  <2>1. PICK s2 \in 0..1 : Fields(f, Operand(f, sub, y), n2, s2, e2, fr2)
    BY ZenonT(40), <1>1, <1>3, OperandHasParts
  <2> QED BY Zenon, <2>1
<1>5. ASSUME NEW u, NEW v, NEW m1, NEW r1, NEW i1, NEW j1, NEW m2, NEW r2, NEW i2, NEW j2,
             Fields(f, u, m1, r1, i1, j1), Fields(f, v, m2, r2, i2, j2), m2 <= m1,
             m1 = 1 /\ m2 = 1 => i2 <= i1
      PROVE  FPEqual(f, DualPath(f, u, v), Sum(f, u, v))
  <2>1. CASE m1 = 1 /\ m2 = 1
    <3>1. Fields(f, u, 1, r1, i1, j1) /\ Fields(f, v, 1, r2, i2, j2) /\ i2 <= i1
      BY Zenon, <1>5, <2>1
    <3> QED BY ZenonT(40), <3>1, DualBothNormal
  <2>2. CASE ~(m1 = 1 /\ m2 = 1)
    BY ZenonT(40), <1>1, <1>5, <2>2, DualExceptional
  <2> QED BY Zenon, <2>1, <2>2
<1>6. PICK g \in Nat \ {0} : g = Pow2[f.wE]
  BY <1>1, Pow2Def DEF NumberFormat
<1>7. e1 \in 0..(g - 1) /\ e2 \in 0..(g - 1)
  BY Zenon, <1>6
<1>8. Exn(f, x) = n1 /\ Exponent(f, x) = e1 /\ Exn(f, y) = n2 /\ Exponent(f, y) = e2
  BY Zenon, <1>2, <1>3 DEF Fields
<1>9. CASE (n1 = n2 /\ e1 < e2) \/ n1 < n2
  <2>1. n1 <= n2 /\ (n2 = 1 /\ n1 = 1 => e1 <= e2)
    BY <1>7, <1>9
  <2>2. FPEqual(f, DualPath(f, z, x), Sum(f, z, x))
    BY Zenon, <1>2, <1>4, <1>5, <2>1
  <2>3. Sum(f, z, x) = Sum(f, x, z)
    BY ZenonT(40), <1>1, <1>2, <1>4, SumCommutes
  <2>4. FPAddDualPath(f, sub, x, y) = DualPath(f, z, x)
    BY Zenon, <1>4, <1>8, <1>9 DEF FPAddDualPath
  <2> QED BY Zenon, <1>4, <2>2, <2>3, <2>4
<1>10. CASE ~((n1 = n2 /\ e1 < e2) \/ n1 < n2)
  <2>1. n2 <= n1 /\ (n1 = 1 /\ n2 = 1 => e2 <= e1)
    BY <1>7, <1>10
  <2>2. FPEqual(f, DualPath(f, x, z), Sum(f, x, z))
    BY Zenon, <1>2, <1>4, <1>5, <2>1
  <2>3. FPAddDualPath(f, sub, x, y) = DualPath(f, x, z)
    BY Zenon, <1>4, <1>8, <1>10 DEF FPAddDualPath
  <2> QED BY Zenon, <1>4, <2>2, <2>3
<1> QED BY Zenon, <1>9, <1>10

AdderOps == {"FPAddSinglePath", "FPAddDualPath"}

\* The operator under test is an adder, and its inputs are numbers of its format.
AdderInv ==
  /\ unit.op = "none" => inputs = <<>>
  /\ unit.op \in AdderOps => /\ unit.c \in AdderFormats
                             /\ inputs \in Seq(CanonicalNumbers(unit.c)) /\ Len(inputs) <= 2

\* The operands of the adder under test are numbers of a format it is generated for.
AdderOperands == AdderFormat(unit.c) /\ X \in Numbers(unit.c) /\ Y \in Numbers(unit.c)
LEMMA AdderOperandsAre ==
  ASSUME AdderInv, NEW op \in AdderOps, Tested(op)
  PROVE  AdderOperands
<1>1. unit.op = op /\ Len(inputs) = Operands(op)
  BY Zenon DEF Tested
<1>2. Operands(op) = 2
  BY DEF Operands, AdderOps
<1>3. unit.c \in AdderFormats /\ inputs \in Seq(CanonicalNumbers(unit.c)) /\ Len(inputs) = 2
  BY Zenon, <1>1, <1>2 DEF AdderInv
<1>4. AdderFormat(unit.c)
  BY <1>3, DatapathsAssumption DEF DatapathsAssumption, AdderFormat, NumberFormat
<1>5. X \in CanonicalNumbers(unit.c) /\ Y \in CanonicalNumbers(unit.c)
  <2>1. ASSUME NEW U, inputs \in Seq(U), Len(inputs) = 2
        PROVE  inputs[1] \in U /\ inputs[2] \in U
    BY <2>1
  <2> QED BY Zenon, <1>3, <2>1 DEF X, Y
<1> QED BY <1>4, <1>5 DEF AdderOperands, CanonicalNumbers

\* What the invariant says of the operands suffices.
LEMMA SumsAre ==
  ASSUME AdderInv
  PROVE  FPAddIsCorrect
<1>1. DualPathIsCorrect
  <2> SUFFICES ASSUME Tested("FPAddDualPath")
               PROVE  FPEqual(unit.c, FPAddDualPath(unit.c, unit.sub, X, Y), ExactSum)
    BY Zenon DEF DualPathIsCorrect
  <2>1. "FPAddDualPath" \in AdderOps
    BY DEF AdderOps
  <2>2. AdderOperands
    BY Zenon, <2>1, AdderOperandsAre
  <2>3. PICK f, x, y : /\ f = unit.c /\ x = X /\ y = Y
                       /\ AdderFormat(f) /\ x \in Numbers(f) /\ y \in Numbers(f)
    BY Zenon, <2>2 DEF AdderOperands
  <2>4. FPEqual(f, FPAddDualPath(f, unit.sub, x, y), Sum(f, x, Operand(f, unit.sub, y)))
    BY ZenonT(40), <2>3, DualPathIs
  <2> QED BY Zenon, <2>3, <2>4 DEF ExactSum
<1>2. SinglePathIsCorrect
  <2> SUFFICES ASSUME Tested("FPAddSinglePath"), ~InfinityAndNormal
               PROVE  FPEqual(unit.c, FPAddSinglePath(unit.c, unit.sub, X, Y), ExactSum)
    BY Zenon DEF SinglePathIsCorrect
  <2>1. "FPAddSinglePath" \in AdderOps
    BY DEF AdderOps
  <2>2. AdderOperands
    BY Zenon, <2>1, AdderOperandsAre
  <2>3. {Exn(unit.c, X), Exn(unit.c, Y)} # {2, 1}
    BY Zenon DEF InfinityAndNormal, InfExn, NormalExn
  <2>4. PICK f, x, y : /\ f = unit.c /\ x = X /\ y = Y
                       /\ AdderFormat(f) /\ x \in Numbers(f) /\ y \in Numbers(f)
    BY Zenon, <2>2 DEF AdderOperands
  <2>5. {Exn(f, x), Exn(f, y)} # {2, 1}
    BY Zenon, <2>3, <2>4
  <2>6. FPEqual(f, FPAddSinglePath(f, unit.sub, x, y), Sum(f, x, Operand(f, unit.sub, y)))
    BY ZenonT(40), <2>4, <2>5, SinglePathIs
  <2> QED BY Zenon, <2>4, <2>6 DEF ExactSum
<1> QED BY Zenon, <1>1, <1>2 DEF FPAddIsCorrect

\* Both floating-point adders are right, for every format and all operands: the
\* aligned sum with its sticky bit, the position of its leading bit that the normalizer
\* or the far path finds, the rounding to nearest, ties to even, the carry into the
\* exponent and the two bits above it give the sum that emulate() rounds, close and far
\* paths meet, and only an infinity and a normal number, in the single-path adder, do not.
THEOREM AddersAreRight == Spec => []FPAddIsCorrect
<1>1. Init => AdderInv
  BY DEF Init, UnitInit, AdderInv, AdderOps
<1>2. ASSUME AdderInv, [Next]_vars PROVE AdderInv'
  <2>1. CASE UNCHANGED unitVars
    BY <1>2, <2>1 DEF unitVars, AdderInv
  <2>2. CASE UnitNext
    <3>1. ASSUME NEW units, Generate(units), \A v \in units : v.op # "none",
                 \A v \in units : v.op \in AdderOps => v.c \in AdderFormats
          PROVE  AdderInv'
      <4>1. unit.op = "none" /\ unit' \in units /\ inputs' = <<>>
        BY <1>2, <3>1 DEF Generate, AdderInv
      <4> QED BY <3>1, <4>1 DEF AdderInv
    <3>2. CASE Generate(ShifterUnits)
      <4>1. \A v \in ShifterUnits : v.op # "none" /\ v.op \notin AdderOps
        BY DEF ShifterUnits, AdderOps
      <4> QED BY <3>1, <3>2, <4>1
    <3>3. CASE Generate(CounterUnits)
      <4>1. \A v \in CounterUnits : v.op # "none" /\ v.op \notin AdderOps
        BY DEF CounterUnits, AdderOps
      <4> QED BY <3>1, <3>3, <4>1
    <3>4. CASE Generate(FPUnits)
      <4>1. \A v \in FPUnits : v.op # "none" /\ (v.op \in AdderOps => v.c \in AdderFormats)
        BY DEF FPUnits, AdderOps
      <4> QED BY <3>1, <3>4, <4>1
    <3>5. CASE Generate(IEEEUnits)
      <4>1. \A v \in IEEEUnits : v.op # "none" /\ v.op \notin AdderOps
        BY DEF IEEEUnits, AdderOps
      <4> QED BY <3>1, <3>5, <4>1
    <3>6. CASE Generate(PositUnits)
      <4>1. \A v \in PositUnits : v.op # "none" /\ v.op \notin AdderOps
        BY DEF PositUnits, AdderOps
      <4> QED BY <3>1, <3>6, <4>1
    <3>7. CASE SetFirstInput
      <4>1. unit.op # "none" /\ inputs = <<>> /\ unit' = unit
        BY <3>7 DEF SetFirstInput
      <4>2. PICK x \in FirstInputs(unit) : inputs' = <<x>>
        BY <3>7 DEF SetFirstInput
      <4>3. unit.op \in AdderOps => FirstInputs(unit) = CanonicalNumbers(unit.c)
        BY DEF FirstInputs, AdderOps
      <4> QED BY <1>2, <4>1, <4>2, <4>3 DEF AdderInv
    <3>8. CASE SetSecondInput
      <4>1. Len(inputs) = 1 /\ unit' = unit
        BY <3>8 DEF SetSecondInput
      <4>2. PICK y \in SecondInputs(unit) : inputs' = Append(inputs, y)
        BY <3>8 DEF SetSecondInput
      <4>3. unit.op \in AdderOps => SecondInputs(unit) = CanonicalNumbers(unit.c)
        BY DEF SecondInputs, AdderOps
      <4>4. unit.op # "none"
        BY <1>2, <4>1 DEF AdderInv
      <4>5. ASSUME NEW U, inputs \in Seq(U), y \in U
            PROVE  Append(inputs, y) \in Seq(U) /\ Len(Append(inputs, y)) <= 2
        <5>1. Len(Append(inputs, y)) = Len(inputs) + 1 /\ Append(inputs, y) \in Seq(U)
          BY <4>5
        <5>2. Len(Append(inputs, y)) = 1 + 1
          BY Zenon, <4>1, <5>1
        <5>3. 1 + 1 <= 2
          OBVIOUS
        <5> QED BY Zenon, <5>1, <5>2, <5>3
      <4>6. unit.op \in AdderOps => inputs' \in Seq(CanonicalNumbers(unit.c)) /\ Len(inputs') <= 2
        BY Zenon, <1>2, <4>2, <4>3, <4>5 DEF AdderInv
      <4> QED BY Zenon, <1>2, <4>1, <4>4, <4>6 DEF AdderInv
    <3>9. CASE SetThirdInput
      <4>1. Operands(unit.op) = 3 /\ Len(inputs) = 2 /\ unit' = unit
        BY <3>9 DEF SetThirdInput
      <4>2. unit.op \notin AdderOps
        BY <4>1 DEF Operands, AdderOps
      <4>3. unit.op # "none"
        BY <1>2, <4>1 DEF AdderInv
      <4> QED BY <4>1, <4>2, <4>3 DEF AdderInv
    <3> QED BY <2>2, <3>2, <3>3, <3>4, <3>5, <3>6, <3>7, <3>8, <3>9 DEF UnitNext
  <2>3. CASE Combinational
    BY <2>2, <2>3 DEF Combinational
  <2>4. CASE StartDivision \/ DivisionStep
    BY <2>1, <2>4 DEF StartDivision, DivisionStep
  <2>5. CASE StartRoot \/ RootStep
    BY <2>1, <2>5 DEF StartRoot, RootStep
  <2>6. CASE StartConstantDivision \/ ConstantDivisionStep
    BY <2>1, <2>6 DEF StartConstantDivision, ConstantDivisionStep
  <2>7. CASE StartMultiplier \/ MultiplierStep
    BY <2>1, <2>7 DEF StartMultiplier, MultiplierStep
  <2>8. CASE UNCHANGED vars
    BY <2>1, <2>8 DEF vars
  <2> QED BY <1>2, <2>3, <2>4, <2>5, <2>6, <2>7, <2>8 DEF Next
<1>3. Spec => []AdderInv
  BY <1>1, <1>2, PTL DEF Spec
<1>4. AdderInv => FPAddIsCorrect
  BY SumsAre
<1> QED BY <1>3, <1>4, PTL
=============================================================================
