----------------------------- MODULE MCBitHeap -----------------------------
EXTENDS BitHeap

\* A signed signal of the width of the heap, without its lowest bit.
SignedFractions == {[msb |-> 2, lsb |-> 1, signed |-> TRUE]}
DownShift == {-1, 0, 1}
=============================================================================
