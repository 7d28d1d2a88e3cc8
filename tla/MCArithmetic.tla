---------------------------- MODULE MCArithmetic ----------------------------
EXTENDS Arithmetic

Format(wE, wF) == [wE |-> wE, wF |-> wF]
PositFormat(width, wES) == [width |-> width, wES |-> wES]

SomeShifters == {c \in [wX : {1, 3, 4}, maxShift : {1, 3, 4, 5}, wR : 1..9] :
                   c.wR \in c.wX..(c.wX + c.maxShift)}
SomeNormalizers == {c \in [wX : 2..7, wR : 2..7] : c.wR <= c.wX}
SomeAdders == {Format(3, 3), Format(4, 1)}
SomeMultipliers == {Format(4, 1), Format(3, 2), Format(2, 3)}
SomeLZOC3s == {[wX |-> w, lut |-> l] : w \in {3, 5, 6, 7, 8, 9, 10, 11}, l \in {4, 6, 8}}
IEEEFormats == [wE : 2..4, wF : {2, 3, 5}]
SomeConversions == {c \in [from : IEEEFormats, to : IEEEFormats] :
                      c.from.wE < c.to.wE => c.from.wF <= c.to.wF}
\* With as many integer bits as the shift distance allows, an lsb below, at and above 1.
SomeFixConversions ==
  {c \in [f : {Format(4, 3), Format(5, 2)}, MSB : {1, 3, 6}, LSB : -2..1, signed : BOOLEAN] :
     FP2FixIsWellFormed(c)}
SomeIEEEAdders == {Format(3, 2), Format(3, 3)}
SomeFMAs == {Format(3, 1), Format(4, 1), Format(3, 2)}
\* All the positive factors of one format, whose product negateAB negates; of
\* both signs, and of the other formats, some of each exponent.
SomeFactors(f) == {v \in IEEENumbers(f) : (f = Format(3, 1) /\ v < 16) \/ v % 7 = 3 \/ v % 11 = 5}
SomePosits == {PositFormat(4, 0), PositFormat(5, 0), PositFormat(5, 1), PositFormat(8, 1)}
SomeFloatPosits == {PositFormat(4, 0), PositFormat(6, 0), PositFormat(6, 1), PositFormat(7, 1), PositFormat(8, 1)}
EveryFifth(c) == {v \in Posits(c) : c.width < 8 \/ v % 5 = 1 \/ v \in {0, 127, 128, 129, 255}}

SomeDividers == {Format(2, 3), Format(2, 4)}
\* All the operands of the smaller format, the positive ones of two exponents of the other.
SomeOperands(f) == {v \in CanonicalNumbers(f) :
                      f = Format(2, 3) \/ (Sign(f, v) = 0 /\ Exponent(f, v) \in {0, 3})}
SomeRoots == {Format(2, 1), Format(2, 2), Format(3, 1), Format(3, 6)}
SomeConstDividers ==
  {c \in [arch : {"linear", "log"}, wIn : 5..8, d : {3, 5, 7, 11}, alpha : {1, 2, 3, 5}] : c.alpha < c.wIn}
    \cup {c \in [arch : {"reciprocal"}, wIn : 4..8, d : {3, 5, 7, 9, 11}, alpha : {1}] : 2 * c.d <= 2 ^ c.wIn}

\* A DSP of 4 by 3 bits with tables of 3 inputs: as many as they take, one, or
\* none, for blocks of any size or of most of a DSP; and tables of 5 inputs alone.
Resources ==
  {c \in [large : {4, 5}, small : {3, 4}, lut : {3, 5}, maxDSP : {0, 1, 9}, threshold : {0, 70}] :
     /\ <<c.large, c.small, c.lut>> \in {<<4, 3, 3>>, <<5, 4, 5>>}
     /\ c.threshold = 0 \/ c.maxDSP = 9
     /\ c.large = 5 => c.maxDSP = 0}
SomeSizes == {<<1, 1>>, <<1, 3>>, <<3, 1>>, <<2, 2>>, <<3, 3>>, <<4, 4>>, <<5, 3>>, <<2, 5>>}
SomeIntMultipliers ==
  {[wX |-> s[1], wY |-> s[2], wOut |-> w, signed |-> sg, large |-> c.large, small |-> c.small,
    maxDSP |-> c.maxDSP, threshold |-> c.threshold, lut |-> c.lut, plain |-> FALSE] :
       s \in SomeSizes, w \in 1..8, sg \in BOOLEAN, c \in Resources}
SomeMultipliersInUse ==
  {m \in SomeIntMultipliers \cup {[m EXCEPT !.plain = TRUE] : m \in SomeIntMultipliers} :
     /\ m.wOut <= ProductSize(m.wX, m.wY, m.signed, m.signed)
     /\ m.plain => /\ ProductSize(m.wX, m.wY, m.signed, m.signed) = m.wX + m.wY
                   /\ m.large = 4 /\ m.maxDSP = 9 /\ m.threshold = 0}
=============================================================================
