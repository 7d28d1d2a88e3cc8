--------------------------- MODULE MCCompression ---------------------------
EXTENDS Compression

Bits(m, l, s) == [msb |-> m, lsb |-> l, signed |-> s]

\* A single bit, signals narrower than the heap, of its width and with a lsb
\* above the one of the heap, signed and unsigned.
SomeFormats == {Bits(0, 0, FALSE), Bits(1, 0, TRUE), Bits(1, 1, FALSE), Bits(2, 1, FALSE), Bits(2, 0, TRUE)}
DownShift == {-1, 0, 1}
SomeConstants == {-1, 1, 3}
=============================================================================
