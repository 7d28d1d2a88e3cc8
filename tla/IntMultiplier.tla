--------------------------- MODULE IntMultiplier ---------------------------
(***************************************************************************)
(* The integer multiplier (src/src/IntMult/IntMultiplier.cpp) with its     *)
(* default strategy, TilingStrategyBasicTiling.  The positions (x, y), one *)
(* for each pair of a bit of X and a bit of Y, form a rectangle, that the  *)
(* generator tiles: first with blocks of the size of a DSP, row by row,    *)
(* then a block that does not deserve one, or comes after the last one,    *)
(* with the small products that look-up tables hold.  The tiles add their  *)
(* products in a bit heap, whose least significant columns are dropped     *)
(* when the result is.  A behaviour builds a multiplier, then multiplies.  *)
(***************************************************************************)
EXTENDS BitVector, FiniteSets
LOCAL INSTANCE FiniteSetsExt

CONSTANT
  \* Records [wX, wY, wOut, signed, large, small, maxDSP, threshold, lut, plain]:
  \* the sizes, the sizes of a DSP, how many there are, the share of one, in
  \* percent, that a block must fill, the inputs of a table, and plainVHDL.
  Multipliers

\* The number of bits of a product.
ProductSize(wX, wY, signedX, signedY) ==
  CASE wX = 1 /\ wY = 1 -> 1
    [] wX = 1 /\ wY > 1 /\ ~signedX -> wY
    [] wY = 1 /\ wX > 1 /\ ~signedY -> wX
    [] OTHER -> wX + wY

\* The plain product is as wide as wX + wY, although the result need not be.
ASSUME IntMultiplierAssumption ==
  \A m \in Multipliers :
    /\ m.wX \in Nat \ {0} /\ m.wY \in Nat \ {0}
    /\ m.wOut \in 1..ProductSize(m.wX, m.wY, m.signed, m.signed)
    /\ m.small \in Nat \ {0} /\ m.large >= m.small /\ m.lut >= 2
    /\ m.maxDSP \in Nat /\ m.threshold \in 0..100
    /\ m.plain => ProductSize(m.wX, m.wY, m.signed, m.signed) = m.wX + m.wY

VARIABLES
  multiplier,  \* the operator in construction, one of Multipliers
  corner,      \* [x, y]: where the next block of solve() starts
  boxes,       \* the boxes that tileBox() has still to tile
  tiles,       \* the tiles so far: boxes, and whether they are DSPs
  heapLSB,     \* the weight of column 0 of the bit heap, -1 before it is known
  factors      \* <<X, Y>>, <<>> before the multiplier is built

multiplierVars == <<multiplier, corner, boxes, tiles, heapLSB, factors>>

-----------------------------------------------------------------------------
(***************************************************************************)
(* computeTruncMultParamsMPZ(): how many of the dropped columns need not   *)
(* be computed.  Their bits are worth at most twice the half ulp that      *)
(* rounding to nearest leaves, less what a constant cannot recentre.       *)
(***************************************************************************)
FullSize == ProductSize(multiplier.wX, multiplier.wY, multiplier.signed, multiplier.signed)
DroppedBits == FullSize - multiplier.wOut
ErrorBudget == 2 ^ (DroppedBits - 1)
CenterErrConstant(col) == ErrorBudget - 2 ^ (col - 1)

WidthOfDiagonal(col) ==
  LET shorter == SmallerOf(multiplier.wX, multiplier.wY)
  IN IF col <= LargerOf(multiplier.wX, multiplier.wY) THEN SmallerOf(col, shorter) ELSE FullSize - col

TruncatedWeight(col) == MapThenSumSet(LAMBDA c : WidthOfDiagonal(c) * 2 ^ (c - 1), 1..col)

\* The last column tried, one beyond those that are left out.
LastColumn == Min({col \in 1..(DroppedBits + 1) : TruncatedWeight(col) >= ErrorBudget + CenterErrConstant(col)})

\* The positions with x + y < Offset are left out.
Offset == IF DroppedBits = 0 THEN 0 ELSE LastColumn - 1
IsTruncated == Offset > 0
PermissibleError == ErrorBudget + CenterErrConstant(LastColumn)

-----------------------------------------------------------------------------
(***************************************************************************)
(* shrinkBox(): a box comes into the frame, and loses the rows and columns *)
(* that hold no position to keep; its area is the number of those to keep. *)
(***************************************************************************)
Box(x, y, dx, dy) == [x |-> x, y |-> y, dx |-> dx, dy |-> dy]

ShrinkBox(box) ==
  LET right == LargerOf(box.x, 0)
      top == LargerOf(box.y, 0)
      left == SmallerOf(box.x + box.dx, multiplier.wX) - 1
      bottom == SmallerOf(box.y + box.dy, multiplier.wY) - 1
      newRight == LargerOf(right, Offset - bottom)
      newTop == LargerOf(top, Offset - left)
      xUpLeft == SmallerOf(Offset - top, left)
      yLowRight == SmallerOf(Offset - right, bottom)
      diagonal == xUpLeft + 1 - newRight
  IN CASE right + top >= Offset ->
            [box |-> Box(right, top, left + 1 - right, bottom + 1 - top),
             area |-> (left + 1 - right) * (bottom + 1 - top)]
       [] right + top < Offset /\ left + bottom < Offset -> [box |-> Box(-1, -1, 0, 0), area |-> 0]
       [] OTHER ->
            [box |-> Box(newRight, newTop, left + 1 - newRight, bottom + 1 - newTop),
             area |-> (diagonal * (diagonal + 1)) \div 2 + (left - xUpLeft) * (bottom + 1 - newTop)
                        + diagonal * (bottom - yLowRight)]

\* getMaxSecondWordSize(), and the largest block that a DSP can take: the
\* widest of those, although never as wide as its larger input.
SecondWordSize(large, small, first) ==
  SmallerOf(large + small - first, IF first <= small THEN large ELSE small)

BlockWidth ==
  LET area(x) == x * SecondWordSize(multiplier.large, multiplier.small, x)
      widths == 1..(multiplier.large - 1)
  IN IF widths = {} THEN 1 ELSE Max({x \in widths : \A other \in widths : area(other) <= area(x)})
BlockHeight ==
  IF multiplier.large = 1 THEN 1 ELSE SecondWordSize(multiplier.large, multiplier.small, BlockWidth)

-----------------------------------------------------------------------------
(***************************************************************************)
(* tileBox(): the largest product that fits a table goes to the corner of  *)
(* a box, to the most significant one when the multiplier is truncated,    *)
(* and what it leaves above or below it, and beside it, are boxes to tile. *)
(* A table that overflows the frame has lost area in shrinkBox(), so that  *)
(* none is ever taken.                                                     *)
(***************************************************************************)
TileIn(box, dx, dy) ==
  IF IsTruncated THEN Box(box.x + box.dx - dx, box.y + box.dy - dy, dx, dy)
                 ELSE Box(box.x, box.y, dx, dy)

TablesFor(box) ==
  {t \in {TileIn(box, d[1], d[2]) : d \in (1..SmallerOf(box.dx, multiplier.lut - 1))
                                            \X (1..SmallerOf(box.dy, multiplier.lut - 1))} :
     t.dx + t.dy <= multiplier.lut /\ ShrinkBox(t).area = t.dx * t.dy}

\* The largest, then the one of most inputs, then the widest.
Preferred(a, b) ==
  \/ a.dx * a.dy > b.dx * b.dy
  \/ a.dx * a.dy = b.dx * b.dy /\ a.dx + a.dy > b.dx + b.dy
  \/ a.dx * a.dy = b.dx * b.dy /\ a.dx + a.dy = b.dx + b.dy /\ a.dx >= b.dx

BestTable(box) == CHOOSE t \in TablesFor(box) : \A other \in TablesFor(box) : Preferred(t, other)

BoxUpDown(box, t) ==
  IF IsTruncated THEN Box(box.x, box.y, box.dx, t.y - box.y)
                 ELSE Box(box.x, t.y + t.dy, box.dx, box.dy - t.dy)
BoxBeside(box, t) ==
  IF IsTruncated THEN Box(box.x, t.y, t.x - box.x, t.dy)
                 ELSE Box(t.x + t.dx, t.y, box.dx - t.dx, t.dy)

BoxesLeft(box, t) ==
  LET left == (IF t.dy < box.dy THEN {ShrinkBox(BoxUpDown(box, t))} ELSE {})
                \cup (IF t.dx < box.dx THEN {ShrinkBox(BoxBeside(box, t))} ELSE {})
  IN {shrunk.box : shrunk \in {s \in left : s.area # 0}}

Tile(box, dsp) == [box |-> box, dsp |-> dsp]
UsedDSPs == Cardinality({t \in tiles : t.dsp})

-----------------------------------------------------------------------------
(***************************************************************************)
(* The construction.                                                       *)
(***************************************************************************)
MultiplierIdle == multiplier = <<>>
MultiplierInit ==
  /\ multiplier = <<>> /\ corner = <<>> /\ boxes = {} /\ tiles = {}
  /\ heapLSB = -1 /\ factors = <<>>

\* A multiplier is truncated from its most significant column on.
FirstCorner ==
  IF IsTruncated THEN [x |-> multiplier.wX - 1, y |-> LargerOf(0, Offset - (multiplier.wX - 1))]
                 ELSE [x |-> 0, y |-> 0]

NewMultiplier(m) ==
  /\ MultiplierIdle
  /\ multiplier' = m
  /\ corner' = FirstCorner'
  /\ UNCHANGED <<boxes, tiles, heapLSB, factors>>

Tiling == ~MultiplierIdle /\ ~multiplier.plain /\ heapLSB = -1
Tiled == boxes = {} /\ corner.y >= multiplier.wY

Block ==
  ShrinkBox(Box(IF IsTruncated THEN corner.x - BlockWidth + 1 ELSE corner.x, corner.y, BlockWidth, BlockHeight))

\* The next block of the row, or the first one of the next row.
NextX == IF IsTruncated THEN corner.x - BlockWidth ELSE corner.x + BlockWidth
NextCorner ==
  IF Block.area # 0 /\ NextX \in 0..(multiplier.wX - 1) THEN [corner EXCEPT !.x = NextX]
  ELSE [x |-> FirstCorner.x, y |-> corner.y + BlockHeight]

DeservesDSP ==
  /\ Block.area * 100 >= multiplier.threshold * BlockWidth * BlockHeight
  /\ UsedDSPs < multiplier.maxDSP

\* One block of solve(): nothing of it is kept, or it takes a DSP, or tables.
PlaceBlock ==
  /\ Tiling /\ boxes = {} /\ corner.y < multiplier.wY
  /\ corner' = NextCorner
  /\ \/ Block.area = 0 /\ UNCHANGED <<boxes, tiles>>
     \/ Block.area # 0 /\ DeservesDSP /\ tiles' = tiles \cup {Tile(Block.box, TRUE)} /\ UNCHANGED boxes
     \/ Block.area # 0 /\ ~DeservesDSP /\ boxes' = {Block.box} /\ UNCHANGED tiles
  /\ UNCHANGED <<multiplier, heapLSB, factors>>

\* One call of tileBox(); the order of the calls makes no difference.
TileBox ==
  /\ Tiling /\ boxes # {}
  /\ LET box == CHOOSE b \in boxes : TRUE
         table == BestTable(box)
     IN /\ tiles' = tiles \cup {Tile(table, FALSE)}
        /\ boxes' = (boxes \ {box}) \cup BoxesLeft(box, table)
  /\ UNCHANGED <<multiplier, corner, heapLSB, factors>>

-----------------------------------------------------------------------------
(***************************************************************************)
(* calcBitHeapLSB(): low columns of the heap are dropped, as long as what  *)
(* they are estimated to cost, and what the tiling leaves out, is smaller  *)
(* than the permissible error.                                             *)
(***************************************************************************)
Positions(box) == (box.x..(box.x + box.dx - 1)) \X (box.y..(box.y + box.dy - 1))
Rectangle == (0..(multiplier.wX - 1)) \X (0..(multiplier.wY - 1))
TiledPositions == UNION {Positions(t.box) : t \in tiles}

\* checkTruncationError() reports an error beyond the permissible one, no more.
TruncationError == MapThenSumSet(LAMBDA p : 2 ^ (p[1] + p[2]), Rectangle \ TiledPositions)

\* getOutWordSize(), which knows no sign.
OutWordSize(box) == CASE box.dy = 1 -> box.dx [] box.dx = 1 /\ box.dy > 1 -> box.dy [] OTHER -> box.dx + box.dy

PruningCost(box, weight) ==
  LET lsb == box.x + box.y
      size == OutWordSize(box)
      pruned == weight - lsb + 1
  IN CASE weight < lsb \/ weight >= lsb + size -> 0
       [] weight >= lsb /\ weight < lsb + size \div 2 -> pruned * 2 ^ weight
       [] OTHER -> (size - pruned) * 2 ^ weight

PruningError(weight) ==
  MapThenSumSet(LAMBDA p : PruningCost(p[1].box, p[2]), tiles \X (0..weight))

\* The weights at which the loop ends: none, however long it counts, when all
\* the tiles have a single bit.
LSBCandidates ==
  {weight \in 0..(multiplier.wX + multiplier.wY) :
     PruningError(weight) # 0 /\ TruncationError + PruningError(weight) >= PermissibleError}

Signs(box) ==
  [x |-> multiplier.signed /\ box.x + box.dx = multiplier.wX,
   y |-> multiplier.signed /\ box.y + box.dy = multiplier.wY]

\* The assertion of branchToBitheap() for a heap that starts at lsb.
KeepsABit(box, lsb) ==
  ProductSize(box.dx, box.dy, Signs(box).x, Signs(box).y) > LargerOf(0, lsb - box.x - box.y)

(***************************************************************************)
(* The construction ends, unless it loops in calcBitHeapLSB(), rounds at a *)
(* column below the heap, which addConstantOneBit() refuses, or has a tile *)
(* whose output is dropped altogether.                                     *)
(***************************************************************************)
FinishTiling ==
  /\ Tiling /\ Tiled
  /\ \/ DroppedBits = 0 /\ heapLSB' = 0
     \/ DroppedBits > 0 /\ LSBCandidates # {} /\ heapLSB' = Min(LSBCandidates) /\ heapLSB' < DroppedBits
  /\ \A t \in tiles : KeepsABit(t.box, heapLSB')
  /\ UNCHANGED <<multiplier, corner, boxes, tiles, factors>>

\* With plainVHDL there is neither tile nor heap.
MultiplyIntegers(x, y) ==
  /\ ~MultiplierIdle /\ factors = <<>>
  /\ multiplier.plain \/ heapLSB >= 0
  /\ factors' = <<x, y>>
  /\ UNCHANGED <<multiplier, corner, boxes, tiles, heapLSB>>

-----------------------------------------------------------------------------
(***************************************************************************)
(* The multiplier at work: every tile multiplies a slice of X by one of Y, *)
(* signed where it holds the sign, and the heap adds the bits of the       *)
(* products from its column 0 on, one half ulp and the rest of the         *)
(* constant.                                                               *)
(***************************************************************************)
Slice(v, from, size, signed) ==
  LET bits == Bits(v, from + size - 1, from) IN IF signed THEN Signed(size, bits) ELSE bits

FilteredOutput(box) ==
  LET product == Slice(factors[1], box.x, box.dx, Signs(box).x) * Slice(factors[2], box.y, box.dy, Signs(box).y)
      lsb == box.x + box.y
  IN IF lsb < heapLSB THEN product \div 2 ^ (heapLSB - lsb) ELSE product * 2 ^ (lsb - heapLSB)

FinalGuardBits == DroppedBits - heapLSB

\* A wrong variant of HeapConstant, for a mutation run: without the rounding bit.
HeapConstantUnrounded == IF DroppedBits = 0 THEN 0 ELSE CenterErrConstant(LastColumn) \div 2 ^ heapLSB

HeapConstant ==
  IF DroppedBits = 0 THEN 0
  ELSE 2 ^ (FinalGuardBits - 1) + CenterErrConstant(LastColumn) \div 2 ^ heapLSB

FullProduct ==
  Slice(factors[1], 0, multiplier.wX, multiplier.signed) * Slice(factors[2], 0, multiplier.wY, multiplier.signed)

MultiplierOut ==
  IF multiplier.plain THEN (FullProduct \div 2 ^ DroppedBits) % 2 ^ multiplier.wOut
  ELSE LET sum == HeapConstant + MapThenSumSet(LAMBDA t : FilteredOutput(t.box), tiles)
       IN (sum \div 2 ^ FinalGuardBits) % 2 ^ multiplier.wOut

\* emulate(), for a member negate that is false: one of the two neighbours of
\* the product, itself if it is one.
FaithfulProducts ==
  LET below == FullProduct \div 2 ^ DroppedBits
      above == IF FullProduct % 2 ^ DroppedBits = 0 THEN below ELSE below + 1
  IN {below % 2 ^ multiplier.wOut, above % 2 ^ multiplier.wOut}

-----------------------------------------------------------------------------
(***************************************************************************)
(* What the generator promises.                                            *)
(***************************************************************************)
\* Tiles, and boxes still to tile, never share a position, and in the end there
\* is a tile on all those that are kept: no partial product is added twice, and
\* none that the error budget counts on is forgotten.
TilingIsExact ==
  Tiling =>
    /\ \A t \in tiles, other \in tiles : t # other => Positions(t.box) \cap Positions(other.box) = {}
    /\ \A b \in boxes : Positions(b) \cap TiledPositions = {}
    /\ \A a, b \in boxes : a # b => Positions(a) \cap Positions(b) = {}
    /\ Tiled => {p \in Rectangle : p[1] + p[2] >= Offset} \subseteq TiledPositions

\* However it is tiled, truncated and pruned, a multiplier that is built returns
\* one of the two numbers of wOut bits around the product.
ProductIsFaithful == factors # <<>> => MultiplierOut \in FaithfulProducts
=============================================================================
