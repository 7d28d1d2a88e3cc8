---------------------------- MODULE Compression ----------------------------
(***************************************************************************)
(* The compression of a bit heap by MaxEfficiencyCompressionStrategy, the  *)
(* default, or ParandehAfsharCompressionStrategy (src/src/BitHeap).  A tree*)
(* of compressors is first planned on the numbers of bits per column alone;*)
(* then the planned compressors are applied to the bits, stage by stage,   *)
(* and a final adder sums what is left, at most two bits per column.       *)
(*                                                                         *)
(* Which bits of a column feed a compressor depends on an order that       *)
(* std::sort leaves open among bits of one cycle: the model takes any.     *)
(***************************************************************************)
EXTENDS BitHeap, FiniteSetsExt, Sequences

CONSTANTS
  Methods,      \* among "heuristicMaxEff" and "heuristicPA"
  MaxPlaced     \* bound on the compressors of a stage, beyond what heaps need

\* Outputs may be planned up to four columns above the heap; they are dropped
\* when the plan is applied.
PlanColumns == 0..(Msb + 4)

\* low inputs of the weight of the compressor and high inputs of the next
\* one; in the order of generation.
Kind(low, high, area) == [low |-> low, high |-> high, area |-> area]
Compressors == << Kind(6, 0, 3), Kind(4, 1, 2), Kind(5, 0, 2), Kind(3, 1, 2),
                  Kind(4, 0, 2), Kind(3, 2, 2), Kind(3, 0, 1) >>
Kinds == DOMAIN Compressors

\* The outputs hold the largest number that the inputs can make.
WOut == [e \in Kinds |-> IntLog2(Compressors[e].low + 2 * Compressors[e].high)]

\* The inputs at column c of a compressor of kind e at column at, and its outputs there.
Inputs(e, at, c) == CASE c = at -> Compressors[e].low
                      [] c = at + 1 -> Compressors[e].high
                      [] OTHER -> 0
Outputs(e, at, c) == IF c - at \in 0..(WOut[e] - 1) THEN 1 ELSE 0

ASSUME CompressionAssumption ==
  /\ Methods \subseteq {"heuristicMaxEff", "heuristicPA"}
  /\ MaxPlaced \in Nat

VARIABLES
  method,       \* getCompressionMethod() of the target
  bitAmount,    \* bits of the stage being planned, negative: inputs left empty
  nextAmount,   \* bits of the next stage
  placed,       \* compressors of the stage: <<kind, column>>
  solution,     \* the stages planned: their compressors and their empty inputs
  stage,        \* the stage being applied
  emptyInputs,  \* those of that stage not met yet
  applied,      \* indexes of the compressors of that stage already applied
  justAdded,    \* outputs of that stage, not free yet
  result        \* the sum signal, -1 until it exists

planVars == <<method, bitAmount, nextAmount, placed, solution>>
applyVars == <<stage, emptyInputs, applied, justAdded, result>>
vars == <<heapVars, planVars, applyVars>>

NoAmount == [c \in PlanColumns |-> 0]

Init ==
  /\ HeapInit
  /\ method \in Methods
  /\ bitAmount = NoAmount /\ nextAmount = NoAmount
  /\ placed = <<>> /\ solution = <<>>
  /\ stage = 1 /\ emptyInputs = NoAmount /\ applied = {}
  /\ justAdded = NoBits /\ result = -1

\* startCompression() and fillBitAmounts().
Start ==
  /\ StartCompression
  /\ bitAmount' = [c \in PlanColumns |-> IF c \in Columns THEN bits'[c][0] + bits'[c][1] ELSE 0]
  /\ UNCHANGED <<method, nextAmount, placed, solution, applyVars>>

-----------------------------------------------------------------------------
(***************************************************************************)
(* The plan, stage by stage.                                               *)
(***************************************************************************)
AtLeastZero(n) == IF n < 0 THEN 0 ELSE n
AtMost(n, limit) == IF n > limit THEN limit ELSE n

\* A wrong variant of InputBitsAt, for a mutation run.
InputBitsWithHoles(e, at, c) == Inputs(e, at, c)

\* Bits that a compressor of kind e at column at would really get.
InputBitsAt(e, at, c) ==
  IF c \in PlanColumns THEN AtMost(Inputs(e, at, c), AtLeastZero(bitAmount[c])) ELSE 0
InputBits(e, at) == InputBitsAt(e, at, at) + InputBitsAt(e, at, at + 1)

\* Bits removed per area, times 6 to remain an integer.
Ratio(e, inputs) == (6 \div Compressors[e].area) * (inputs - WOut[e])
Efficiencies == [e \in Kinds, at \in PlanColumns |-> Ratio(e, InputBits(e, at))]

\* Compressors are tried from the most to the least efficient when full, in
\* the order of generation if equal; columns from the tallest to the lowest,
\* the least significant first.
FullEfficiency == [e \in Kinds |-> Ratio(e, Compressors[e].low + Compressors[e].high)]
SortedBefore(e, f) == \/ FullEfficiency[e] > FullEfficiency[f]
                      \/ FullEfficiency[e] = FullEfficiency[f] /\ e < f
TallerBefore(at, c) == \/ bitAmount[at] > bitAmount[c]
                       \/ bitAmount[at] = bitAmount[c] /\ at <= c

\* MaxEfficiency: the most efficient compressor of all, as long as one has no
\* more outputs than inputs; column 0 is tried even if it is empty.
TriedBefore(e, at, f, c) ==
  \/ SortedBefore(e, f)
  \/ e = f /\ TallerBefore(at, c)
LowerBound == 0
Worthwhile(eff) == {p \in Kinds \X PlanColumns : /\ bitAmount[p[2]] > 0 \/ p[2] = 0
                                               /\ eff[p] >= LowerBound}
Best(eff) ==
  {p \in Worthwhile(eff) : \A q \in Worthwhile(eff) :
     \/ eff[p] > eff[q]
     \/ eff[p] = eff[q] /\ TriedBefore(p[1], p[2], q[1], q[2])}

\* ParandehAfshar: the most efficient compressor of the tallest column that one
\* reduces, with its low or, if that is more efficient, its high inputs there.
SearchedAt(eff, e, at) ==
  IF Compressors[e].high > 0 /\ at > 0 /\ eff[e, at - 1] > eff[e, at] THEN at - 1 ELSE at
Searched(eff, e, at) == eff[e, SearchedAt(eff, e, at)]
Reducible(eff) == {at \in PlanColumns : bitAmount[at] > 0 /\ \E e \in Kinds : Searched(eff, e, at) > 0}
Tallest(eff) == {at \in Reducible(eff) : \A c \in Reducible(eff) : TallerBefore(at, c)}
BestAt(eff, at) ==
  {e \in Kinds : \A f \in Kinds :
     \/ Searched(eff, e, at) > Searched(eff, f, at)
     \/ Searched(eff, e, at) = Searched(eff, f, at) /\ (e = f \/ SortedBefore(e, f))}

\* checkAlgorithmReachedAdder(2, s); the former stages have no bits left.
AdderHeight == 2
ReachedAdder == \A c \in PlanColumns : bitAmount[c] <= AdderHeight

\* A stage is not begun when an adder can take its bits, but the first one of
\* ParandehAfshar, which tests at the end of each stage.
Planned == /\ placed = <<>> /\ ReachedAdder
           /\ method = "heuristicPA" => solution # <<>>
Planning == phase = "plan" /\ ~Planned

\* placeCompressor().
Place(e, at) ==
  /\ Planning
  /\ Len(placed) < MaxPlaced
  /\ placed' = Append(placed, <<e, at>>)
  /\ bitAmount' = [c \in PlanColumns |-> bitAmount[c] - Inputs(e, at, c)]
  /\ nextAmount' = [c \in PlanColumns |-> nextAmount[c] + Outputs(e, at, c)]
  /\ UNCHANGED <<heapVars, method, solution, applyVars>>

PlaceMostEfficient ==
  /\ method = "heuristicMaxEff"
  /\ \E eff \in {Efficiencies} : \E p \in Best(eff) : Place(p[1], p[2])

PlaceInTallest ==
  /\ method = "heuristicPA"
  /\ \E eff \in {Efficiencies} : \E at \in Tallest(eff) : \E e \in BestAt(eff, at) :
       Place(e, SearchedAt(eff, e, at))

NothingToPlace ==
  IF method = "heuristicPA" THEN Reducible(Efficiencies) = {} ELSE Worthwhile(Efficiencies) = {}

\* A wrong variant of Remaining, for a mutation run.
NoneRemaining(c) == 0

\* The bits that no compressor took go to the next stage.
Remaining(c) == AtLeastZero(bitAmount[c])
\* A wrong variant of EmptyInputs, for a mutation run.
EmptyInputsUnclamped(c) == -bitAmount[c]

EmptyInputs(c) == AtLeastZero(-bitAmount[c])
FinishStage ==
  /\ Planning
  /\ NothingToPlace
  /\ solution' = Append(solution, [placed |-> placed,
                                   empty |-> [c \in PlanColumns |-> EmptyInputs(c)]])
  /\ bitAmount' = [c \in PlanColumns |-> nextAmount[c] + Remaining(c)]
  /\ nextAmount' = NoAmount
  /\ placed' = <<>>
  /\ UNCHANGED <<heapVars, method, applyVars>>

\* emptyInputs of a stage when its application begins.
EmptyAt(s) == IF s \in DOMAIN solution THEN solution[s].empty ELSE NoAmount
PlanComplete ==
  /\ phase = "plan" /\ Planned
  /\ phase' = "apply"
  /\ emptyInputs' = EmptyAt(1)
  /\ UNCHANGED <<bits, constantBits, sum, planVars, stage, applied, justAdded, result>>

-----------------------------------------------------------------------------
(***************************************************************************)
(* The application, column by column; equal compressors of a column are    *)
(* counted in one entry of the solution and so applied in a row.           *)
(***************************************************************************)
Applying == phase = "apply" /\ stage \in DOMAIN solution
InHeap == {i \in DOMAIN solution[stage].placed : solution[stage].placed[i][2] \in Columns}
Pending == InHeap \ applied

Entry(i) == CHOOSE j \in InHeap :
              /\ solution[stage].placed[j] = solution[stage].placed[i]
              /\ \A k \in InHeap : solution[stage].placed[k] = solution[stage].placed[i] => j <= k
AppliedBefore(i, j) ==
  LET ci == solution[stage].placed[i][2]
      cj == solution[stage].placed[j][2]
  IN \/ ci < cj
     \/ ci = cj /\ Entry(i) < Entry(j)
     \/ ci = cj /\ Entry(i) = Entry(j) /\ i <= j

\* Inputs that the plan left empty are served first, with zeros, then free
\* bits, then zeros again if the column has no more.
Taken(inputs, c) ==
  IF c \in Columns THEN AtMost(AtLeastZero(inputs - emptyInputs[c]), Height(c)) ELSE 0

\* The ones there may be among n free bits of a column.
OnesAmong(n, c) == IF c \in Columns
                   THEN {k \in 0..n : k <= bits[c][1] /\ n - k <= bits[c][0]} ELSE {0}

\* A wrong variant of OutputBits, for a mutation run.
OutputBitsReversed(e, at, count) ==
  [c \in Columns |-> [b \in {0, 1} |-> justAdded[c][b] +
     IF Outputs(e, at, c) = 1 /\ BitOf(count, WOut[e] - 1 - (c - at)) = b THEN 1 ELSE 0]]

\* The output of a compressor counts its inputs; bits above the heap are dropped.
OutputBits(e, at, count) ==
  [c \in Columns |-> [b \in {0, 1} |-> justAdded[c][b] +
     IF Outputs(e, at, c) = 1 /\ BitOf(count, c - at) = b THEN 1 ELSE 0]]

ApplyCompressor ==
  /\ Applying
  /\ \E i \in Pending :
       LET e == solution[stage].placed[i][1]
           at == solution[stage].placed[i][2]
           taken(c) == Taken(Inputs(e, at, c), c)
       IN /\ \A j \in Pending : AppliedBefore(i, j)
          /\ applied' = applied \cup {i}
          /\ emptyInputs' = [c \in PlanColumns |-> AtLeastZero(emptyInputs[c] - Inputs(e, at, c))]
          /\ \E low \in OnesAmong(taken(at), at), high \in OnesAmong(taken(at + 1), at + 1) :
               LET ones(c) == CASE c = at -> low [] c = at + 1 -> high [] OTHER -> 0
               IN /\ bits' = [c \in Columns |-> [b \in {0, 1} |-> bits[c][b] -
                                IF b = 1 THEN ones(c) ELSE taken(c) - ones(c)]]
                  /\ justAdded' = OutputBits(e, at, low + 2 * high)
  /\ UNCHANGED <<phase, constantBits, sum, planVars, stage, result>>

\* removeCompressedBits() and markBitsForCompression().
Merged(c) == [b \in {0, 1} |-> bits[c][b] + justAdded[c][b]]
EndStage ==
  /\ Applying
  /\ Pending = {}
  /\ bits' = [c \in Columns |-> Merged(c)]
  /\ justAdded' = NoBits
  /\ stage' = stage + 1
  /\ applied' = {}
  /\ emptyInputs' = EmptyAt(stage + 1)
  /\ UNCHANGED <<phase, constantBits, sum, planVars, result>>

\* The columns below the first one of height 2 are the low bits of the result
\* as they are, the others go to an adder of their width.
FirstTall == LET tall == {c \in Columns : Height(c) > 1}
             IN IF tall = {} THEN Msb + 1 ELSE Min(tall)
\* A wrong variant of Chunk, for a mutation run.
ChunkWithoutLast == Weighted([c \in Columns |-> bits[c][1]], IF FirstTall = 0 THEN 0 ELSE FirstTall - 1)

Chunk == Weighted([c \in Columns |-> bits[c][1]], FirstTall)
AdderOut == Weighted([k \in 0..(Msb - FirstTall) |-> bits[FirstTall + k][1]], Msb + 1 - FirstTall)
              % Pow2[Msb + 1 - FirstTall]
\* Taller columns mean a ternary adder or an error, for other strategies.
FinalAdd ==
  /\ phase = "apply" /\ stage \notin DOMAIN solution
  /\ \A c \in Columns : Height(c) <= AdderHeight
  /\ result' = Chunk + AdderOut * Pow2[FirstTall]
  /\ phase' = "done"
  /\ UNCHANGED <<bits, constantBits, sum, planVars, stage, emptyInputs, applied, justAdded>>

Compress == PlaceMostEfficient \/ PlaceInTallest \/ FinishStage \/ PlanComplete
              \/ ApplyCompressor \/ EndStage \/ FinalAdd
Next == \/ Fill /\ UNCHANGED <<planVars, applyVars>>
        \/ Start
        \/ Compress

\* startCompression() is a call that runs to its end once made; whether an
\* operator makes it is left open.
Spec == Init /\ [][Next]_vars /\ WF_vars(Compress)

-----------------------------------------------------------------------------
TypeOK ==
  /\ phase \in {"fill", "plan", "apply", "done"}
  /\ method \in Methods
  /\ bits \in [Columns -> [{0, 1} -> Nat]]
  /\ justAdded \in [Columns -> [{0, 1} -> Nat]]
  /\ constantBits \in -MaxConstant..MaxConstant
  /\ sum \in 0..(Modulus - 1)
  /\ bitAmount \in [PlanColumns -> Int]
  /\ nextAmount \in [PlanColumns -> Nat]
  /\ placed \in Seq(Kinds \X PlanColumns)
  /\ \A s \in DOMAIN solution :
       solution[s] \in [placed : Seq(Kinds \X PlanColumns), empty : [PlanColumns -> Nat]]
  /\ stage \in 1..(Len(solution) + 1)
  /\ emptyInputs \in [PlanColumns -> Nat]
  /\ applied \subseteq 1..MaxPlaced
  /\ result \in -1..(Modulus - 1)

\* The plan counts bits and the application moves them, with two accounts of
\* the inputs that stay empty and of the outputs above the heap; at the end
\* of the last stage each column holds just the bits that the plan foresaw.
PlanIsFollowed ==
  phase = "apply" /\ stage \notin DOMAIN solution =>
    \A c \in Columns : Height(c) = bitAmount[c]

\* Whichever bits go into a compressor, in the middle of a stage as well as
\* after it, the heap is worth the sum of what was added, modulo its range.
ValueIsPreserved ==
  phase # "fill" => (ValueOf(bits) + ValueOf(justAdded)) % Modulus = sum

\* The signal handed back to the operator is the sum.
ResultIsSum == phase = "done" => result = sum

\* The greedy plan ends although compressors with as many outputs as inputs
\* are placed too, and it is always one that the final adder can finish.
Terminates == phase = "plan" ~> phase = "done"
=============================================================================
