---------------------------- MODULE IntConstDiv ----------------------------
(***************************************************************************)
(* Division of an integer by a small odd constant                          *)
(* (src/src/ConstMult/IntConstDiv.cpp), in its three architectures: a row  *)
(* of small tables that divides one digit of radix 2^alpha after the       *)
(* other, a tree of tables that merges two neighbours at each level, and a *)
(* multiplication by a rounded reciprocal.                                 *)
(***************************************************************************)
EXTENDS BitVector, Sequences

CONSTANT
  ConstDividers  \* records [arch, wIn, d, alpha]: "linear", "log" or "reciprocal"

\* Nothing is divided when the quotient has no bits, the tree needs two digits, and
\* the reciprocal takes a slice of the product, which is no quotient of one bit.
ASSUME IntConstDivAssumption ==
  \A c \in ConstDividers :
    /\ c.arch \in {"linear", "log", "reciprocal"}
    /\ c.wIn \in Nat \ {0} /\ c.alpha \in Nat \ {0}
    /\ c.d \in Nat \ {0, 1, 2} /\ c.d % 2 = 1 /\ c.d < Pow2[c.wIn]
    /\ c.arch = "log" => c.alpha < c.wIn
    /\ c.arch = "reciprocal" => 2 * c.d <= Pow2[c.wIn]

VARIABLES
  constDiv,   \* the generated operator, with its input X
  digit,      \* linear: the digits still to be divided; log: the level reached
  quotients,  \* the sub-quotients of the chunks of X, from the right
  remainders, \* their remainders
  constDivOut \* [Q, R] at the end, before that <<>>

constDivVars == <<constDiv, digit, quotients, remainders, constDivOut>>

CDIdle == constDiv = <<>>
d == constDiv.d
alpha == constDiv.alpha

RSize == IntLog2(d - 1)
QuotientSize == IntLog2(Ones(constDiv.wIn) \div d)
CeilDiv(a, b) == (a + b - 1) \div b
XDigits == CeilDiv(constDiv.wIn, alpha)
QDigits == CeilDiv(QuotientSize, alpha)
XDigit(i) == Bits(constDiv.X, (i + 1) * alpha - 1, i * alpha)

CDInit ==
  /\ constDiv = <<>> /\ digit = 0
  /\ quotients = <<>> /\ remainders = <<>> /\ constDivOut = <<>>

\* What a level keeps of the quotient of chunk i: the leftmost one has the bits
\* that are left of the output, and those beyond it have none.
QuotientOf(level, i, q) ==
  LET chunk == alpha * Pow2[level]
  IN q % Pow2[LargerOf(0, SmallerOf(chunk, QuotientSize - (i - 1) * chunk))]

\* The tables of the first level, firstLevelCBLKTable(), divide each digit.
Divided(arch) ==
  CASE arch = "linear" -> /\ digit' = XDigits'
                          /\ quotients' = <<0>> /\ remainders' = <<0>>
    [] arch = "log" -> /\ digit' = 0
                       /\ quotients' = [i \in 1..XDigits' |-> QuotientOf(0, i, XDigit(i - 1) \div d)']
                       /\ remainders' = [i \in 1..XDigits' |-> (XDigit(i - 1) % d)']
    [] OTHER -> UNCHANGED <<digit, quotients, remainders>>

\* A number enters the operator.
DivideByConstant(c, x) ==
  /\ CDIdle
  /\ constDiv' = [arch |-> c.arch, wIn |-> c.wIn, d |-> c.d, alpha |-> c.alpha, X |-> x]
  /\ Divided(c.arch)
  /\ UNCHANGED constDivOut

-----------------------------------------------------------------------------
\* euclideanDivTable(), addressed by the remainder so far and a digit.
EuclideanDivTable(x) == [q |-> x \div d, r |-> x % d]

LinearDigit ==
  /\ ~CDIdle /\ constDiv.arch = "linear" /\ digit > 0
  /\ LET out == EuclideanDivTable(Cat(remainders[1], alpha, XDigit(digit - 1)))
     IN /\ remainders' = <<out.r>>
        /\ quotients' = <<Cat(quotients[1], alpha, out.q)>>
  /\ digit' = digit - 1
  /\ UNCHANGED <<constDiv, constDivOut>>

\* otherLevelCBLKTable(): two neighbouring remainders are divided together,
\* and the quotient is added to the concatenated quotients.
MergeLevel ==
  /\ ~CDIdle /\ constDiv.arch = "log" /\ digit < IntLog2(2 * XDigits - 1) - 1
  /\ LET chunk == alpha * Pow2[digit]
         right(s, i) == s[2 * i - 1]
         left(s, i) == IF 2 * i <= Len(s) THEN s[2 * i] ELSE 0
         y(i) == Cat(left(remainders, i), chunk, right(remainders, i))
         merged == 1..CeilDiv(Len(remainders), 2)
     IN /\ remainders' = [i \in merged |-> y(i) % d]
        /\ quotients' = [i \in merged |->
             QuotientOf(digit + 1, i, y(i) \div d + Cat(left(quotients, i), chunk, right(quotients, i)))]
  /\ digit' = digit + 1
  /\ UNCHANGED <<constDiv, constDivOut>>

-----------------------------------------------------------------------------
\* The smallest k for which the product by 2^k/d, rounded up, or down and then
\* corrected by an addition, has the quotient above its k low bits.
LeastK(Found(_)) == CHOOSE k \in 1..(2 * constDiv.wIn + 2) : Found(k) /\ \A j \in 1..(k - 1) : ~Found(j)
T0 == Pow2[constDiv.wIn] \div d
OptKP == LET Found(k) == (((d - 1) * Pow2[k]) % d) * (d * T0 - 1) < Pow2[k] IN LeastK(Found)
OptKM == LET Found(k) == (Pow2[k] % d) * (d * T0 - d + 1) < Pow2[k] IN LeastK(Found)

\* A wrong variant of Reciprocal, for a mutation run: one bit less.
ReciprocalShort(rounded) ==
  IF rounded = "up" THEN [n |-> CeilDiv(Pow2[OptKP - 1], d), b |-> 0]
  ELSE LET am == Pow2[OptKM] \div d IN [n |-> am, b |-> (Pow2[OptKM] - am * d) * T0]

Reciprocal(rounded) ==
  IF rounded = "up" THEN [n |-> CeilDiv(Pow2[OptKP], d), b |-> 0]
  ELSE LET am == Pow2[OptKM] \div d IN [n |-> am, b |-> (Pow2[OptKM] - am * d) * T0]

\* The cheaper of the two multipliers is taken.
Multiply ==
  /\ ~CDIdle /\ constDiv.arch = "reciprocal" /\ constDivOut = <<>>
  /\ \E rounded \in {"up", "down"} :
       LET c == Reciprocal(rounded)
           pSize == IntLog2(c.n * Ones(constDiv.wIn))
           Q0 == (c.n * constDiv.X + c.b) % Pow2[pSize]
           Q1 == Bits(Q0, pSize - 1, pSize - QuotientSize)
       IN constDivOut' = [Q |-> Q1,
                          R |-> Bits((constDiv.X - Q1 * d) % Pow2[constDiv.wIn], RSize - 1, 0)]
  /\ UNCHANGED <<constDiv, digit, quotients, remainders>>

\* The outputs of the other two architectures.
Output ==
  /\ ~CDIdle /\ constDivOut = <<>>
  /\ \/ constDiv.arch = "linear" /\ digit = 0
     \/ constDiv.arch = "log" /\ Len(remainders) = 1
  /\ constDivOut' = [Q |-> Bits(quotients[1], QuotientSize - 1, 0), R |-> remainders[1]]
  /\ UNCHANGED <<constDiv, digit, quotients, remainders>>

-----------------------------------------------------------------------------
(***************************************************************************)
(* What the tables promise.                                                *)
(***************************************************************************)
\* At every step each chunk of X that has been divided is the divisor times
\* its sub-quotient plus its remainder: no bit dropped from a sub-quotient was one.
ChunksAreDivided ==
  ~CDIdle =>
    \A i \in 1..Len(remainders) :
      LET chunk == IF constDiv.arch = "linear" THEN constDiv.X \div Pow2[alpha * digit]
                   ELSE Bits(constDiv.X, i * alpha * Pow2[digit] - 1, (i - 1) * alpha * Pow2[digit])
      IN chunk = d * quotients[i] + remainders[i] /\ remainders[i] < d

\* The outputs are the quotient and the remainder, in every architecture.
ConstantDivisionIsCorrect ==
  constDivOut # <<>> => constDivOut = [Q |-> constDiv.X \div d, R |-> constDiv.X % d]
=============================================================================
