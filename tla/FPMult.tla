------------------------------- MODULE FPMult -------------------------------
(***************************************************************************)
(* The floating-point multiplier (src/src/FPMultSquare/FPMult.cpp) in the  *)
(* only configuration the command line offers: one format for X, Y and R,  *)
(* and a normalized output.                                                *)
(***************************************************************************)
EXTENDS FPNumber

\* sigProdSize: all the bits of the product, or three guard bits.
SigProdSize(f, correctlyRounded) == IF correctlyRounded THEN 2 * f.wF + 2 ELSE f.wF + 3

\* What IntMultiplier may return: the product, or when it is to leave bits
\* out any multiple of their weight that is less than that weight away.
SigProds(f, correctlyRounded, x, y) ==
  LET product == Significand(f, x) * Significand(f, y)
      unit == Pow2[LargerOf(0, 2 * f.wF + 2 - SigProdSize(f, correctlyRounded))]
  IN {p \in {product \div unit, product \div unit + 1} : AbsOf(p * unit - product) < unit}

\* exc, and finalExc once the bits above the exponent are known.
MultExc(excX, excY) ==
  CASE {excX, excY} \in {{ZeroExn}, {ZeroExn, NormalExn}} -> ZeroExn
    [] {excX, excY} = {NormalExn} -> NormalExn
    [] {excX, excY} \in {{InfExn}, {InfExn, NormalExn}} -> InfExn
    [] OTHER -> NaNExn
MultFinalExc(exc, overUnder) ==
  IF exc # NormalExn THEN exc
  ELSE IF overUnder = 0 THEN NormalExn
  ELSE IF overUnder = 1 THEN InfExn
  ELSE ZeroExn

\* A wrong variant of MultRound, for a mutation run: ties go away from zero.
MultRoundHalfUp(f, correctlyRounded, ext) ==
  IF correctlyRounded THEN BitOf(ext, f.wF + 1) ELSE 1

\* The carry into the last bit of the significand; a faithful result adds it always.
MultRound(f, correctlyRounded, ext) ==
  IF correctlyRounded
  THEN Flag(BitOf(ext, f.wF + 1) = 1 /\ (Bits(ext, f.wF, 0) # 0 \/ BitOf(ext, f.wF + 2) = 1))
  ELSE 1

FPMult(f, correctlyRounded, sigProd, x, y) ==
  LET w == SigProdSize(f, correctlyRounded)
      norm == BitOf(sigProd, w - 1)
      expPostNorm == (Exponent(f, x) + Exponent(f, y) - Bias(f) + norm) % Pow2[f.wE + 2]
      ext == IF norm = 1 THEN Bits(sigProd, w - 2, 0) * 2 ELSE Bits(sigProd, w - 3, 0) * 4
      rounded == IntAdder(f.wE + f.wF + 2, Cat(expPostNorm, f.wF, Bits(ext, w - 1, w - f.wF)),
                          0, MultRound(f, correctlyRounded, ext))
  IN Encode(f, MultFinalExc(MultExc(Exn(f, x), Exn(f, y)),
                            Bits(rounded, f.wE + f.wF + 1, f.wE + f.wF)),
            XorBit(Sign(f, x), Sign(f, y)),
            Bits(rounded, f.wE + f.wF - 1, f.wF), Bits(rounded, f.wF - 1, 0))
=============================================================================
