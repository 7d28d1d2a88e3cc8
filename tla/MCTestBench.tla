---------------------------- MODULE MCTestBench ----------------------------
(***************************************************************************)
(* Small instances of TestBench for TLC.                                   *)
(***************************************************************************)
EXTENDS TestBench

\* One input, or two and three inputs of different widths, in both orders.
SmallWidths == {<<1>>, <<3>>, <<1, 2>>, <<2, 1>>, <<1, 1, 1>>, <<2, 1, 2>>}
=============================================================================
