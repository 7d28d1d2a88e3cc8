------------------------------ MODULE Shifters ------------------------------
(***************************************************************************)
(* The shifters and leading-digit counters (src/src/ShiftersEtc) that the  *)
(* floating-point and posit operators are built with: rows of multiplexers *)
(* that move the data by one power of two each.  An operator gives the     *)
(* value of the outputs for values of the inputs.                          *)
(***************************************************************************)
EXTENDS BitVector

-----------------------------------------------------------------------------
(***************************************************************************)
(* Shifter.  Without a sticky bit the levels go from the smallest shift to *)
(* the largest, the data grows by 2^i bits at level i, and the output      *)
(* takes its wR bits at one end of it.                                     *)
(***************************************************************************)
ShiftWidth(maxShift) == IntLog2(maxShift)
LevelWidth(wX, i) == wX + Pow2[i] - 1

RightShifter(wX, maxShift, wR, pad, x, s) ==
  LET w == ShiftWidth(maxShift)
      level[i \in 0..w] ==
        IF i = 0 THEN x
        ELSE LET before == level[i - 1] IN
             IF BitOf(s, i - 1) = 1
             THEN Cat(Fill(Pow2[i - 1], pad), LevelWidth(wX, i - 1), before)
             ELSE Cat(before, Pow2[i - 1], 0)
  IN Bits(level[w], LevelWidth(wX, w) - 1, LevelWidth(wX, w) - wR)

LeftShifter(wX, maxShift, wR, pad, x, s) ==
  LET w == ShiftWidth(maxShift)
      level[i \in 0..w] ==
        IF i = 0 THEN x
        ELSE LET before == level[i - 1] IN
             IF BitOf(s, i - 1) = 1
             THEN Cat(before, Pow2[i - 1], 0)
             ELSE Cat(Fill(Pow2[i - 1], pad), LevelWidth(wX, i - 1), before)
  IN Bits(level[w], wR - 1, 0)

\* A wrong variant of StickyShifter, for a mutation run: a level forgets the
\* bits that the levels above it shifted out.
ForgetfulShifter(wX, maxShift, wR, pad, x, s) ==
  LET w == ShiftWidth(maxShift)
      level[i \in 0..w] ==
        IF i = w THEN [R |-> Cat(x, wR - wX, Fill(wR - wX, pad)), Sticky |-> 0]
        ELSE LET above == level[i + 1] IN
             IF BitOf(s, i) = 0 THEN above
             ELSE [R |-> Cat(Fill(Pow2[i], pad), wR - Pow2[i], Bits(above.R, wR - 1, Pow2[i])),
                   Sticky |-> Flag(Bits(above.R, Pow2[i] - 1, 0) # 0)]
  IN level[0]

\* With a sticky bit the largest shift comes first, on data of constant width.
StickyShifter(wX, maxShift, wR, pad, x, s) ==
  LET w == ShiftWidth(maxShift)
      level[i \in 0..w] ==
        IF i = w THEN [R |-> Cat(x, wR - wX, Fill(wR - wX, pad)), Sticky |-> 0]
        ELSE LET above == level[i + 1] IN
             IF BitOf(s, i) = 0 THEN above
             ELSE [R |-> Cat(Fill(Pow2[i], pad), wR - Pow2[i], Bits(above.R, wR - 1, Pow2[i])),
                   Sticky |-> LargerOf(above.Sticky, Flag(Bits(above.R, Pow2[i] - 1, 0) # 0))]
  IN level[0]

-----------------------------------------------------------------------------
(***************************************************************************)
(* Normalizer: counts the leading bits equal to counted and shifts them    *)
(* out.  Level i keeps the bits that the output and the levels below need. *)
(***************************************************************************)
LevelSize(wX, wR, i) == SmallerOf(LargerOf(wR, Pow2[i]) + Pow2[i] - 1, wX)

Normalizer(wX, wR, maxShift, counted, x) ==
  LET w == IntLog2(maxShift)
      size(i) == IF i = w THEN wX ELSE LevelSize(wX, wR, i)
      level[i \in 0..w] ==
        IF i = w THEN [data |-> x, Count |-> 0, Sticky |-> 0]
        ELSE LET above == level[i + 1]
                 wide == size(i + 1)
                 all == Bits(above.data, wide - 1, wide - Pow2[i]) = Fill(Pow2[i], counted)
                 left == IF all THEN wide - Pow2[i] ELSE wide
                 dropped == LargerOf(left - size(i), 0)
             IN [data |-> Cat(Bits(above.data, left - 1, dropped),
                              LargerOf(size(i) - left, 0), 0),
                 Count |-> Cat(above.Count, 1, Flag(all)),
                 Sticky |-> LargerOf(above.Sticky, Flag(Bits(above.data, dropped - 1, 0) # 0))]
  IN [R |-> level[0].data, Count |-> level[0].Count, Sticky |-> level[0].Sticky]

(***************************************************************************)
(* LZOC: the input, padded with the other bit to one less than a power of  *)
(* two, is halved by each digit of the count; the last two digits come     *)
(* from a table of three bits.                                             *)
(***************************************************************************)
LastDigits(counted, z) == LET zeros == XorAll(3, z, counted)
                          IN IF zeros < 4 THEN 3 - IntLog2(zeros) ELSE 0

LZOC(wIn, counted, x) ==
  LET w == IntLog2(wIn)
      level[i \in 2..w] ==
        IF i = w THEN [data |-> Cat(x, Pow2[w] - 1 - wIn, Fill(Pow2[w] - 1 - wIn, 1 - counted)), O |-> 0]
        ELSE LET above == level[i + 1]
                 all == Bits(above.data, Pow2[i + 1] - 2, Pow2[i] - 1) = Fill(Pow2[i], counted)
             IN [data |-> IF all THEN Bits(above.data, Pow2[i] - 2, 0)
                                 ELSE Bits(above.data, Pow2[i + 1] - 2, Pow2[i]),
                 O |-> Cat(above.O, 1, Flag(all))]
  IN Cat(level[2].O, 2, LastDigits(counted, level[2].data))

(***************************************************************************)
(* LZOC3: the count by blocks.  A table gives the length of the run of     *)
(* equal bits at the left of each block.  The blocks that are full of the  *)
(* counted bit are found by one addition: a carry that enters at the left  *)
(* block runs through the full ones and stops behind the first other.      *)
(***************************************************************************)
BlockSize(lut) == Pow2[IntLog2(lut) - 1]
Blocks(wIn, lut) == (wIn + BlockSize(lut) - 1) \div BlockSize(lut)

\* The length of the run of equal bits at the left of a block.
RunLength(size, block) == size - IntLog2(XorAll(size, block, BitOf(block, size - 1)))

\* The bitwise or of vectors of w bits.
OrOf(w, vectors) ==
  Weighted([i \in 0..(w - 1) |-> Flag(\E v \in vectors : BitOf(v, i) = 1)], w)

LZOC3(wIn, lut, counted, x) ==
  LET size == BlockSize(lut)
      nb == Blocks(wIn, lut)
      lowSize == IntLog2(size - 1)
      padding == nb * size - wIn
      padded == Cat(x, padding, Fill(padding, 1 - counted))
      \* block 0 is the one at the left
      block == [b \in 0..(nb - 1) |-> Bits(padded, (nb - b) * size - 1, (nb - b - 1) * size)]
      enabled(b) == BitOf(block[b], size - 1) = counted
      propagates(b) == enabled(b) /\ RunLength(size, block[b]) = size
      propagated == 1 + SumBelow([b \in DOMAIN block |-> (2 * Flag(propagates(b)) + 1) * Pow2[2 * b]], nb)
      active == {b \in DOMAIN block : Bits(propagated, 2 * b + 1, 2 * b) = 2}
                  \cup {b \in {nb} : BitOf(propagated, 2 * nb) = 1}
  IN IF wIn <= lut THEN wIn - IntLog2(XorAll(wIn, x, counted))
     ELSE Cat(OrOf(IntLog2(wIn) - lowSize, active), lowSize,
              OrOf(lowSize, {RunLength(size, block[b]) % size : b \in {b \in active \ {nb} : enabled(b)}}))

-----------------------------------------------------------------------------
(***************************************************************************)
(* What they promise.                                                      *)
(***************************************************************************)
\* The number that a shifter moves: its input, extended by the padding bit.
Extended(wX, pad, x) == x - pad * Pow2[wX]

\* emulate() of the normalizer and of the LZOC: the leading bits are looked
\* at one by one.
LeadingCount(w, counted, x, most) ==
  CHOOSE n \in 0..SmallerOf(w, most) :
    /\ \A k \in 1..n : BitOf(x, w - k) = counted
    /\ n = SmallerOf(w, most) \/ BitOf(x, w - n - 1) # counted
=============================================================================
