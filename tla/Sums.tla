-------------------------------- MODULE Sums --------------------------------
(***************************************************************************)
(* Powers of two, and sums of weighted digits: what the columns of a bit   *)
(* heap are worth.  They are functions of the natural numbers, so that     *)
(* SumProofs can reason about them.                                        *)
(***************************************************************************)
EXTENDS Integers

\* 1 << n, of mpz_class.
Pow2[n \in Nat] == IF n = 0 THEN 1 ELSE 2 * Pow2[n - 1]

\* t[0] + ... + t[n - 1]
SumBelow(t, n) ==
  LET sum[k \in Nat] == IF k = 0 THEN 0 ELSE sum[k - 1] + t[k - 1]
  IN sum[n]

\* The digits d[0] to d[n - 1], of weights 1, 2, 4...
Weighted(d, n) == SumBelow([k \in 0..(n - 1) |-> d[k] * Pow2[k]], n)
=============================================================================
