# A verification of the core of FloPoCo in TLA+

FloPoCo is a generator: it builds, in C++, a hierarchy of operators, decides in
which clock cycle every signal of every operator is computed, and prints VHDL
with the registers that this pipeline needs, together with a test bench.  This
directory models two things.  First the machinery that all the operators share,
where what goes wrong does so silently: the stream that finds out who reads
whom, the scheduling of signals, the registers and the behaviour of the VHDL
that follow from it, the bit heaps that most arithmetic operators are built
from, and the simulation of the generated test bench.  Second the datapaths of
the basic operators themselves, as netlists that are compared, on small formats,
with what their own `emulate()` expects.

Paths below are relative to the repository as it appears under `src/`; the code
of the generator is in `src/src/`, its manual in `src/doc/`.

## 1. Inventory

| component | code | state | operations |
|---|---|---|---|
| VHDL stream and lexer | `FlopocoStream.cpp`, `VHDLLexer`, `LexerContext` | text not flushed yet, mode of the lexer, the dependence table, the annotated text | `vhdl <<`, `flush`, `updateDependenceTable`, `cleanupDependenceTable` |
| signal graph | `Operator.cpp`, `Signal.cpp` | signals, their predecessors and successors, dependence tables not moved to the graph yet | `declare`, `addInput`, `addOutput`, `addRegisteredSignalCopy` |
| hierarchy | `Operator.cpp` | subcomponents, pending port maps, clones of shared operators | `inPortMap`, `inPortMapCst`, `outPortMap`, `newInstance`, `newSharedInstance`, `instance`, `connectIOFromPortMap` |
| scheduler | `Operator.cpp` | per signal: scheduled or not, cycle, critical path, lifespan | `schedule`, `setSignalTiming`, `moveDependenciesToSignalGraph`, `buildAlreadyScheduledList` |
| back-annotation | `Operator.cpp` | the VHDL text with its delays | `applySchedule`, `doApplySchedule`, `buildVHDLRegisters`, `computePipelineDepths` |
| bit heap | `BitHeap/` | columns of bits, a constant, the plan of compressors | `addBit`, `addSignal`, `subtractSignal`, constants, `startCompression` |
| test bench | `TestBenches/TestBench.cpp` | test cases, simulation time; in the simulator, three processes | `generateTestFromFile`, the VHDL it prints |
| operators | `ShiftersEtc/`, `FPAddSub/`, `FPMultSquare/`, `FPDivSqrt/`, `ConstMult/`, `IntMult/`, `IEEE/`, `Posit/`, `Conversions/` | none once built | the datapath and its `emulate()` |
| number formats | `TestBenches/FPNumber.cpp`, `IEEENumber.cpp`, `PositNumber.cpp` | a value and its format | encoding, decoding, rounding |
| user interface | `UserInterface.cpp`, `Factories/` | the list of operators, sticky options, the current target | parsing, `outputVHDL` |
| tables, targets, function approximation | `Table.cpp`, `Targets/`, `FixFunctions/`, ... | data | |

`PROJECT.json` has the complete list with the status of each part.

**How they interact.**  A constructor of an operator declares signals, writes
statements to its stream and instantiates subcomponents, whose constructors do
the same; a subcomponent is attached to its parent only after its constructor
has run, except that a shared operator is built and scheduled once and each use
of it contributes clones of its ports.  `schedule()` may be called at any of
these points, by the constructor itself when it needs the cycle of a signal, by
`BitHeap::startCompression()` between two compressors, and at last by `main`.
It flushes the streams, moves the dependence tables they have built to the
graph, times what it can and leaves the rest for a later call.  When all is
built a second pass over the statements replaces `x` by `x_dn` where `n` is a
difference of two cycles, and declares for each signal as many registers as its
lifespan, which the scheduler maintained on the side.  The pipeline depth that
follows sets the delays of the test bench, which compares the outputs with what
`emulate()` computed from the same inputs.

**What is hard here.**

* Scheduling works on a graph that is still being built.  Whether a signal is
  timed before all its predecessors are known depends on the order of the calls
  of the constructors, over two levels of hierarchy.  A time is never revised.
* The graph is what a lexer with a dozen modes makes of text that is flushed at
  any point of a statement, and a second automaton has to find the same names
  again when the delays are written.
* Two passes must agree: the number of registers declared (a maximum maintained
  reader by reader) and the delays used (differences of cycles).
* Sets of pointers are iterated in the order of their addresses, and `std::sort`
  orders equal elements as it likes: the result must not depend on it.
* The compression of a bit heap plans with numbers of bits and then moves the
  bits; the plan is a greedy loop without an explicit bound.
* The processes of the test bench synchronise by computed delays only, and are
  due at the same nanosecond most of the time.
* The datapaths are right because of identities that hold at the edges of the
  formats or not at all: a rounding that carries into the exponent, a subnormal
  result of a cancellation, a quotient digit chosen from a truncated remainder.

**What makes the parts correct.**  Stream: the dependencies it finds are those of the
statements and no others, and the text comes out as it went in but for the delays.
Scheduler: times fit the clock period, are
causal, as early as possible, final, independent of iteration order; `schedule()`
returns and leaves nothing behind that it could time.  Pipeline: a statement
combines data of one wave of inputs only, names only declared registers, and
each wave comes out after the announced depth.  Bit heap: the result is the sum
modulo the range, for all values, whatever mixture of signs and shifts, and the
plan is finite and can be finished by a two-input adder.  Test bench: a correct
operator gives no error, every test case is compared before the simulation is
stopped, and the exhaustive list has every input exactly once.  Operators: what
the netlist computes is what `emulate()` expects of it, and what both promise,
and digit recurrences keep their remainders exact and bounded row by row.

The hazards behind these properties, each at its line of code, are listed in
`PROJECT.json` under `hazards` with the properties that watch them.

## 2. The modules

```
VHDLStream                      TimedGraph
    |  (dependence table)          ^ implemented by (Promise)
    v                              |
Scheduler ---- SchedulerProofs
    |  (Causal, LifeSpanCoversDelays)
    v
Pipeline  ---- PipelineProofs
    |  (a rank that goes in comes out pipelineDepth cycles later)
    v
TestBench ---- TestBenchProofs

BitHeap <--- Compression ---- CompressionProofs

Sums <-- BitHeap, TestBench, BitVector
SumProofs <-- CompressionProofs, TestBenchProofs, ArithmeticProofs

BitVector <-- Shifters <-- FPAdd, IEEEArithmetic
          <-- FPNumber <-- FPAdd, FPMult, FPDiv, FPSqrt, IEEE
          <-- Posit    <-- Conversions
          <-- IntMultiplier, IntConstDiv
all of these <-- Datapaths, Arithmetic ---- ArithmeticProofs <-- DatapathProofs <-- AdderProofs
```

An arrow `<--` is EXTENDS or INSTANCE.  `Sums` has the powers of two and the weighted sums of
bits that the heap, the test bench and the operators share, as recursive functions, and `SumProofs` the
lemmas about them.  `Compression` extends `BitHeap` and composes
with it: the heap is filled, then compressed, in one behaviour.  `Arithmetic`
composes the operators.  `Scheduler` is shown to implement `TimedGraph`, as a property
of a run and as a theorem.  The arrows downwards are interfaces: the dependence table of
`VHDLStream` is what `Scheduler` moves to its graph; `Pipeline`
quantifies over every schedule that satisfies what `Scheduler` is shown to
guarantee (operator `Schedules`); and the operator under test in `TestBench` is a
pipeline of ranks of the kind `Pipeline` establishes.  `MC*.tla` give the
constants their values for TLC.  Operators introduced as "a wrong variant" are
not part of the models: they are the mutations named in `PROJECT.json`, each of
which must make the property it is listed with fail.

### VHDLStream

Text is a sequence of lexemes; the names that a statement is meant to read and write
carry that intention (`role`, `reader`), which the lexer never looks at.  `Write` is
`vhdl <<` of a piece of the program, cut anywhere, with the flush that a semicolon in it
causes; `Scan` folds `LexStep`, the rules of the lexer with its modes, over the buffer and
gives the dependencies and the marks (`$$` and `??` in the code) that the text keeps for the second pass;
`Cleaned` is the clean-up of the table.  `MoveDependencies` is what `schedule()` does to the
stream.  `StartApplySchedule`, `Assignment`, `SelectedAssignment`, `PortMap` and
`EndApplySchedule` are the loop of `doApplySchedule()`, one statement at a time.

### TimedGraph

The abstract specification of timing: nodes and edges are added, and a node all of
whose predecessors have an instant gets one, the latest of theirs plus its own
contribution, once and for ever.  There are no clock cycles in it.  `Scheduler` maps
to it with the instant `cycle * Period + criticalPath` where registers are accounted
for: cutting paths into cycles does not change the delay of any path.

### Scheduler

State and code: `declared`, `driven`, `copies`, `dependenceTable` and `graph` are
`signalMap_`, the statements, the targets of functional registers, the tables of
`FlopocoStream` and the predecessor lists of `Signal`; `current`, `subComponents`
and `portMap` are the constructor that is running, `subComponentList_` and
`tmpInPortMap_`/`tmpOutPortMap_`; `sharedActuals` are the actual outputs of shared instances;
`cycle`, `criticalPath`, `lifeSpan` and
`hasBeenScheduled` are the attributes of `Signal`.  `phase` and the fronts are
the program counter and the locals of `schedule()`.

Actions: each call of a constructor is one action (`Declare`, `DeclareAssign`,
`Assign`, `AddRegisteredSignalCopy`, `InPortMap`, `InPortMapCst`, `OutPortMap`,
`OpenInstance`, `AddInput`, `AddOutput`, `Instance`, `NewSharedInstance`).  `schedule()` is not atomic
in the model: `StartSchedule`, then `NextIteration` and one `ScheduleCandidate` or `KeepCandidate`
for each signal of the wavefront, in any order, `EndIteration`, `EndSchedule`.
`StartSchedule` includes `moveDependenciesToSignalGraph()` and the rebuilding of
the list of scheduled signals, `ScheduleCandidate` the update of the lifespans
of the predecessors.  `NewSharedInstance` clones the outputs of an operator that has been
scheduled on its own, makes each clone depend on all the actual inputs (the first one with
the delay of the operator) and copies it to its actual.

Two constants describe how constructors are written.  `Disciplined = TRUE` is the
documented order: a statement reads declared signals only, and a signal gets its
only statement with its declaration.  `FALSE` leaves the order open.

Times are natural numbers in an arbitrary unit; delays of the target are the
constants `Contributions` and `Period`.

### Pipeline

`ApplySchedule` is `doApplySchedule()`: `delay[s][p]` is the `n` of the name `p_dn`
in the statement of `s`.  `ClockEdge` is what the processes that
`buildVHDLRegisters()` emits do; `Evaluate` is one concurrent VHDL assignment,
and the assignments of a tick settle in any order that follows the data.  Data
is abstracted to the set of the ages of the input waves a value depends on, so
that "combines two waves" is a set of two ages.

### BitHeap and Compression

`bits[c][b]` counts the free bits of column `c` whose value is `b`: a behaviour of the
model is the construction of the heap together with one assignment of values to
the inputs of the operator.  `sum` is a history variable, the exact sum modulo the range.
`AddBit`, `AddSignal`, ... are the methods of `BitHeap`; a signal brings its bits
and its constant ones in one action.  Two strategies plan: `PlaceMostEfficient` is one
round of `maxEfficiencyAlgorithm()`, `PlaceInTallest` one of the strategy of Parandeh-Afshar, and
`NothingToPlace` says when a round finds none; `FinishStage` and
`PlanComplete` end a stage and the plan.  `ApplyCompressor`, `EndStage` and
`FinalAdd` are `applyAllCompressorsFromSolution()`, the concatenation of the low
columns and the final adder.  Efficiencies are rationals scaled by 6, the least
common multiple of the areas, and so exact where the code compares floating-point
numbers with a margin of 0.0001; the smallest difference is 1/6.  The code assigns
all bits to stage 0 ("workaround" in `getStageOfArrivalForBit`), and the model does too.

### TestBench

`AddTestCase` and `AddExhaustiveTest` are the two ways `generateTestFromFile()`
makes its list; `StartSimulation` fixes the stop time.  Then time advances from one
due process to the next: `ClockFalls`/`ClockRises`, the input process
(`SendReset`, `SetInputs`, `WaitForTheEnd`) and the output process (`WaitForPipeline`,
`CheckOutputs`), which starts again from its first wait when the file is exhausted, as a VHDL process
does.  A test case is its rank; `stage` carries ranks through the operator.

### The arithmetic modules

A value is a number and a vector of bits is a number with a width (`BitVector`); a
netlist is an operator from the inputs to the outputs with one definition per
intermediate signal of the constructor, named as the signal.

| module | operators |
|---|---|
| `Shifters` | `Shifter` in both directions with its sticky bit, `Normalizer`, `LZOC`, `LZOC3` |
| `FPNumber`, `IEEE`, `Posit` | the three number formats, their encodings and roundings; `InputIEEE`, `OutputIEEE`; the decoder, encoder and adder of posits |
| `FPAdd` | `FPAddDualPath` and `FPAddSinglePath` |
| `FPMult` | `FPMult` around a product of significands |
| `IEEEArithmetic` | `IEEEAdd` and `IEEEFMA` |
| `FPDiv`, `FPSqrt` | the digit recurrences of radix 4 and 8 with their selection tables, the restoring and the non-restoring root |
| `IntConstDiv` | division by a constant: linear, logarithmic, by multiplication |
| `Conversions` | `FP2Fix`, `Posit2FP` |
| `IntMultiplier` | the default tiling of a product by DSP blocks and tables, its truncation, the pruning of the columns below the heap and the constants that centre the error |

In `Arithmetic` one behaviour is one operator, generated with parameters, that is
given its inputs one after the other; `unit` holds the last inputs and what came out.
A digit recurrence is a state machine with one row of the array per step, so that the
invariant of the recurrence is checked at every row and not only at the quotient.  A
multiplier is tiled one box per step, as the heuristic does on its stack of boxes, and then
multiplies: `TilingIsExact` is about the tiles, `ProductIsFaithful` about what they compute.

## 3. What the runs check

| run | configuration | properties | what it shows |
|---|---|---|---|
| `scheduler_tree` | `SchedulerTree` | `TypeOK` `FitsPeriod` `Causal` `AsSoonAsPossible` `LifeSpanCoversDelays` `PortsAligned` `ConstructionInv` `ImplementsTimedGraph` `ScheduleIsComplete` | a root and a subcomponent in the documented order, functional copies included, `schedule()` at any point: the schedule is the only ASAP one, whatever the iteration order, it is the timing of the abstract graph, nothing is left untimed, and the invariant of the proofs holds |
| `scheduler_any_order` | `SchedulerAnyOrder` | `PortsAligned` `TimingIsFinal` `ScheduleReturns` | statements in any order, loops and a shared instance of two outputs included: times are final, the outputs of the instance share a cycle, and the loop of `schedule()` ends |
| `pipeline_aligned` | `PipelineAligned` | `TypeOK` `WavesAligned` `NoUndeclaredRegister` `DataFlows` | all datapaths of an input, two wires, an output and a functional register, feedback included, under all causal schedules |
| `test_bench` | `TestBenchSynchronized` | `TypeOK` `NoFalseError` `EveryTestCompared` `ExhaustiveTestIsExhaustive` `ResetIsClocked` | any order of the processes within a nanosecond |
| `compression_tall` | `CompressionTall` | `TypeOK` `PlanIsFollowed` `ValueIsPreserved` `Terminates` | all heaps of two columns of up to eight bits, both strategies |
| `compression_signals` | `CompressionSignals` | `HeapIsExact` `ResultIsSum` | from signals, bits and constants to the sum, three columns, both strategies |
| `vhdl_stream` | `VHDLStream` | `DependenciesAreExact` `TextIsPreserved` `RegistersAreRight` | every kind of statement, cut anywhere, scheduled at any time, under every assignment of cycles |
| `arithmetic` | `Arithmetic` | `ShiftersAreExact` `FPAddIsCorrect` `ProductIsCorrect` `ConvertersAreCorrect` `IEEEOperatorsAreCorrect` `PositsAreCorrect` `FPDivIsCorrect` `FPSqrtIsCorrect` `IntConstDivIsCorrect` `IntMultiplierIsFaithful` | all operands of small formats through every modelled operator |

Four runs find a violation; each shows that something the repository says does not
hold (section 5): `bit_heap_shift_down`, `single_path_infinity`, `ieee_tiny_to_infinity`,
`ieee_fma_subnormal`.

### Bounds

* Scheduler: a period of 2 and a contribution of 3 or 5, so that a signal of
  contribution 0 needs no register and another needs one, or two, and sums fall short of,
  meet and exceed multiples of the period.  `scheduler_tree` has an input, two wires and an output in the
  root and an input, a wire and an output in the subcomponent; `scheduler_any_order` an input and
  three wires whose statements may form loops, and a shared instance of two outputs, one of which is
  read inside.  Chains, diamonds, reconvergence after different numbers of
  registers and (out of order) cycles all exist on this many signals.  The hierarchy has
  two levels; a deeper one repeats the same attachment.
* Pipeline: five signals and cycles up to 2: a delay of two stages between a
  source and a reader that also has a reader one stage away.  `MaxCycle` and
  `FunctionalCycle` are the only bounds; ages saturate nowhere because a register chain is finite.
* TestBench: depths up to 5, up to 9 test cases (more tests than stages, and fewer), input
  widths of one to three signals whose counters carry once and twice.
* BitHeap: three columns, at most three bits each, the constant within -12..12, beyond
  the range of the heap on both sides; signals narrower than the heap, as wide as it,
  with their lsb at or above the one of the heap, shifted down, not at all, or up, in
  part out of the heap.
* Compression: two columns of up to eight bits, more than the largest compressor takes, so that
  a stage has several compressors and a column outlives a stage;
  three columns of up to three bits and the bits of the constant.  All seven kinds of compressors occur.
  `MaxPlaced` bounds the compressors of a stage, and is above what any heap
  of the runs needs: reaching it would leave the plan stuck, which `Terminates` excludes.
* VHDLStream: programs of one and two statements of seventeen kinds, a comment at any place of some of them, cycles 0 and
  1.  The state that the lexer carries from one statement to the next is what two statements reach.
* Arithmetic: shifters of 1, 3 and 4 bits by up to 5 places, normalizers and
  counters of 2 to 11 bits with table sizes of 4, 6 and 8 inputs; FloPoCo adders (wE,wF) = (3,3) and
  (4,1), multipliers (4,1), (3,2), (2,3), dividers (2,3) and, for positive operands of two exponents, (2,4), roots
  (2,1), (2,2), (3,1), (3,6); IEEE conversions from and to exponents of 2 to 4 bits and
  fractions of 2, 3 and 5; IEEE adders (3,2), (3,3), fused multiply-add (3,1), with all
  positive factors and a sample of the others, (4,1) and (3,2) with a sample of factors; posits of 4 to 8 bits; constants 3, 5, 7, 9 and 11 on 4 to 8 bits;
  integer multipliers from 1x1 to 5x3 bits, of every output width, signed and unsigned, with tables alone and with one or many
  DSP blocks larger than the tables, so that boxes are left beside, above and below a tile.  In these
  formats every relation that the code tests occurs: an exponent difference beyond the width of the
  significand, a cancellation of all bits, a rounding that carries, both signs
  of every difference of exponent sizes.  Samples are listed in `MCArithmetic`.

`CHECK_DEADLOCK FALSE` is used where the system really stops: after the end of a
simulation, after the result of a heap, when a text is annotated, and when an operator has had its inputs.

### Fairness

* Scheduler: weak fairness of `ScheduleStep`, the steps of one call of `schedule()`.
  A call is sequential C++ and runs to its end; nothing obliges a constructor to make one.
* Pipeline: weak fairness of `Next`: signals settle before the next clock edge and the clock
  does not stop, as in any synchronous simulation.
* Compression: weak fairness of `Compress`, the steps of one call of `startCompression()`;
  nothing obliges an operator to make it.
* The others: none, their properties are safety properties.

## 4. What is proved

All theorems are checked by TLAPS, for all values of the constants that satisfy
the assumptions named in the modules.

| module | theorem | property | assumes |
|---|---|---|---|
| `SchedulerProofs` | `TypeCorrect` | `TypeOK` | - |
| | `SignalsFitPeriod` | `FitsPeriod`: no critical path exceeds the period | - |
| | `TimesAreFinal` | `TimingIsFinal`: a time given once never changes | - |
| | `ScheduleIsAsap` | `AsSoonAsPossible` | `Disciplined` |
| | `ScheduleIsCausal` | `Causal` | `Disciplined` |
| | `LifeSpansCover` | `LifeSpanCoversDelays` | `Disciplined` |
| | `SchedulerImplementsTimedGraph` | `ImplementsTimedGraph` | `Disciplined` |
| | `NothingIsLeftBehind` | `ScheduleIsComplete` | - |
| | `PortsAreAligned` | `PortsAligned` | `Disciplined` |
| | `ConstructionIsSound` | `ConstructionInv` | `Disciplined` |
| `PipelineProofs` | `Alignment` | `WavesAligned` | `HandledDelays` |
| | `RegistersDeclared` | `NoUndeclaredRegister` | `HandledDelays` |
| | `HardwareTypes` | `TypeOK` | `HandledDelays` |
| `TestBenchProofs` | `CorrectOperatorPasses` | `NoFalseError` | `Synchronized` |
| | `ResetReachesOperator` | `ResetIsClocked` | `Synchronized` |
| | `NoTestIsSkipped` | `EveryTestCompared` | `Synchronized` |
| | `ExhaustiveIsExhaustive` | `ExhaustiveTestIsExhaustive` | - |
| | `BenchTypeCorrect` | `TypeOK` | - |
| `CompressionProofs` | `HeapExactness` | `HeapIsExact` of `BitHeap` alone, `Spec` | `SignsAreKept` |
| | `CompressionTypeCorrect` | `TypeOK` | - |
| | `PlanIsAlwaysFollowed` | `PlanIsFollowed` | - |
| | `AdderAlwaysFits` | `AdderFits`: at the final addition no column has more than two bits | - |
| | `CompressedHeapIsExact` | `HeapIsExact` | `SignsAreKept` |
| | `CompressionPreservesValue` | `ValueIsPreserved` | `SignsAreKept` |
| | `CompressionIsRight` | `ResultIsSum` | `SignsAreKept` |
| `ArithmeticProofs` | `ConstantDivisionIsRight` | `IntConstDivIsCorrect` | `IntConstDivAssumption` |
| | `SquareRootIsRight` | `FPSqrtIsCorrect` | `FPSqrtAssumption` |
| | `DivisionIsRight` | `FPDivIsCorrect` | `FPDivAssumption` |
| `DatapathProofs` | `MultiplicationIsRight` | `ProductIsCorrect` | `DatapathsAssumption` |
| | `ShiftersAreRight` | `ShiftersAreExact` | `DatapathsAssumption` |
| `AdderProofs` | `AddersAreRight` | `FPAddIsCorrect` | `DatapathsAssumption` |

**Scheduler.**  Fitting the period is a lemma on `Registers` and `Remaining`: after
`(total - 1) \div Period` registers what remains is between 1 and the period.
Finality holds because every step that times a signal takes it from a wavefront that
excludes scheduled signals.  The next three need to know that when a signal is timed
*all the predecessors it will ever have* are in the graph.  That is not an invariant
of `schedule()` but of the construction, and `ConstructionInv` says it in three parts:
`SignalsInv` (what is declared, driven and scheduled), `DependenciesInv` (a
dependence still in a table has a target that is not scheduled; edges into scheduled signals are complete) and
`PortMapInv` (ports of an open instance are not driven before they are connected).
With it each step preserves that a scheduled signal's time comes from the latest of
its final predecessors; causality follows, since registers only add cycles, and so does
the coverage by lifespans, which only grow.  The refinement is the same argument, with
the identity `cycle * Period + criticalPath` on both sides: a step that times a signal is `Arrive`, a step
that adds to the graph is `Grow`, every other one stutters.

**Ports.**  `PortsInv` adds to the construction that a port has one predecessor, its actual, and no contribution,
and, for shared instances, that the clones of one instance read the same inputs and are timed from the same one.

**Completeness.**  `schedule()` stops when an iteration has scheduled nothing.  That this loses no
signal rests on `WavefrontInv`: an unscheduled signal whose predecessors are all scheduled is in the
front of this iteration or in the next one, or one of its predecessors is scheduled in this
iteration, and the counter is behind the list as long as one of those is pending.

**Pipeline.**  `HandledDelays` says that the operator is sequential and that functional copies have
sources at cycle 0; without it the properties fail (section 5).  The inductive
invariant `PipelineInv` is `TypeOK`, the schedule inequalities, the delays that
`ApplySchedule` computes, and `AgesInv`: the value of a signal at cycle `c` contains no
age but `c`, and `p_dn` none but the cycle of `p` plus `n`.

**Test bench.**  `BenchInv` relates the clock, the two processes and the pipeline by their due times: each
stage `c` holds what entered `c` edges ago (`stage[c] = Entered(EdgeCount - c)`), and
the output process is at its n-th comparison when the n-th test case is in the last stage.

An exhaustive test is a count in mixed radix.  `GeneratorInv` says that the k-th test has rank k - 1
(`Rank`, the first input being the lowest digit) and that the counters, of which the first may have
reached its bound, have the rank of the next test.  Carrying does not change a rank
(`MixedCarried`), a vector that fits has a rank below `Number` (`MixedBelow`), and no two have the same
(`MixedInjective`); when the last counter overflows the rank has reached `Number`, and since the rank of the last
test is below it, there are exactly `Number` tests, one of each rank.  `Number` is an int in the
code (hazard at `TestBench.cpp:371`); the theorem is about counts that fit.

**Bit heap.**  `HeapIsExact` is inductive with the types.  The digits of a signal, its sign
complemented or not, are a window of a two's complement number (`SignedDigits`,
`WeightedWindow`), and the ones added from the sign to the msb stand for
`-2^w` modulo the range (`OnesValue`).  `SignsAreKept` excludes, of the constants `Formats` and
`Shifts`, the signed signals as wide as the heap that are shifted down: the run `bit_heap_shift_down`
shows that the theorem would be false with them.

**Compression.**  The value: a compressor takes as much as it gives (`TakenValue`, `OutputValue`: a number of ones
in binary), whichever bits it takes; the carries above the heap are multiples of the range; and the final
adder with the low columns makes the binary number (`AdderValue`).  `HeapWorth` is the invariant.
That the plan is followed is an invariant over a witness: `PlanWorks` says that there are heights `B` of
every column before every stage such that the plan was made for them (`StagesFollow`), what is left to plan is what they
say (`PlanCounts`), and, in the middle of the application, what a column has lost and gained
is what the compressors applied so far, in any order, take and give beyond the
inputs that the plan leaves empty (`StageCounts`).  The subtle point is the order of application:
the empty inputs are charged to the compressors that come first, which need not be those that lacked a bit
in the plan, and only the totals agree.  `AdderAlwaysFits` joins `PlanWorks` with the condition under which planning stops.

**Constant division.**  The divisors, widths and digit sizes are those of `IntConstDivAssumption`, which keeps the
odd divisors that fit the dividend and, for the reciprocal, those of at most half the range (section 5).
`ConstDivInv` has the types and, for each architecture, what is divided so far.  In the row, the sub-quotient and the
remainder are those of the leading digits.  In the tree, each chunk is its sub-quotient times the divisor plus its
remainder; two neighbours are one dividend in a larger radix (`Merged`), whose quotient is the two sub-quotients side by side plus
the quotient of the remainders.  A table keeps of it only the bits its chunk has in the output: no bit dropped is one
since the quotient of a chunk is below the quotient of what is left of the dividend (`LargestQuotient`).
For the reciprocal, the search of `OptKP` and `OptKM` ends (it does at twice the width at the latest); a
reciprocal rounded up or down errs by `u`, and the product by the dividend, corrected by `b` when it is rounded
down, is `2^k` times the quotient plus a remainder below `2^k`.  What is left is the width of the product, which the code
takes from the largest one without the correction: it must be `k` bits plus those of the quotient.  The one close case is a
reciprocal rounded down when the largest quotient is a power of two; then the divisor is `2^(w-1)-1`, whose powers of two
have remainders that are powers of two, and the width is right by one.

**Square root.**  For a significand of `w` to `2w - 1` units and `N` four or eight times it, after digits of weight `p` the
root is `s` with `4 w s^2 <= N p^2 < 4 w (s+1)^2` (`RootDigits`); the invariant adds what is left, `RemainderInv`.
In method 0 that is the exact remainder, at most `8s + 3` units of the digit, so that the few bits a stage
subtracts from decide the digit (`RestoringBits`).  In method 1 the digits are signed, and the register holds modulo
`16w` a remainder that stays in `[-8w, 8w)`: its sign bit is its sign, which is the next digit (`SignedRange`, `NonRestoringBits`).
The last digit rounds: there is one nearest significand, ties cannot happen, and
adding the digit does not carry out of the fraction because `N` is at most `8(2w - 1)` (`NearestRoot`).  With the exponent halved
under an odd bias (`HalfExponent`) the fields are those of the rounded root.

**Multiplication.**  The inductive invariant `UnitInv` only says what is generated and that its inputs are numbers of its
format; the work is in one netlist.  The product of two significands has its leading bit at one of two places (`norm`);
what the multiplier reads below the fraction is one rounding bit and a sticky bit of all the others, and adding the rounding
bit, or not on a tie with an even fraction, gives the nearest significand (`MultBits`).  A fraction of ones carries into the
exponent, which is kept modulo four times its range, so that its two extra bits tell a negative exponent from one beyond the
largest (`Carried`, `ResultBitsAre`); every other pair of operands is decided by the exception bits, and then the
other bits are free (`FreeBits`).  What is assumed of the formats is one bit of exponent and of fraction.

**Division.**  `DivInv` has two parts at every row: the remainder `c` satisfies `|c| <= 4 alpha y / (radix - 1)`, which is
the bound that the selection tables rest on, and the register holds it modulo the range of the subtracter, which is large
enough to read it back with its sign (`RemainderRange`).  A row preserves both.  The entries of the table are truncated
remainders and divisors, so that a digit must suit every remainder and divisor with these leading bits:
`DigitExists42`, `43` and `87` show that one does for every entry that can occur, `SelectionFits` that the code picks one, and `RowWithin` that
it keeps the next remainder within the bound, on the divisors the code prescales into `[1.5, 2)` for radix 8 (`LeadingQuarters`).  After the last
row the sign of the remainder corrects the quotient by one, or in radix 8 appends a last digit; what is left after
truncation is the quotient rounded down, or one unit less when the division is exact (`QuotientRead`).  The bit below the fraction then rounds right without a
sticky bit, since no quotient of significands is half way between two numbers (`NoTie`: a power of two would divide a
smaller divisor).  The exponent is as in the multiplication.

**Shifters and counters.**  A row of multiplexers of `Shifter` moves by one digit of the distance; what the rows of lower
or of higher digits have done is a shift by the remainder or by the quotient of the distance (`RightRow`, `LeftRow`), and a row that is cut to `wR` bits
drops only what can never come back.  From the right, the sticky bit is a disjunction over the rows, and what is dropped is zero exactly
when no row drops a one (`ShiftTwice`, `StickyRow`).  The bits of a number that differ from the digit counted are those of
`XorAll`, and so a count of leading digits is the width minus the number of bits of another number (`LeadingCountIs`), about which the levels
of `LZOC` and of the normalizer reason: a block of a power of two of digits is full or the rest of the count is in it
(`LZOCLevel`, `NormLevel`).  What a level of the normalizer drops for want of room in the output is behind everything that later levels can move into it
(`SomeDropped`, `NoneDropped`).  `LZOC3` adds the counts of blocks with a carry that goes on while blocks are full; `CarryOver` is that argument.
The sizes are those of `DatapathsAssumption`: an output of a shifter that loses nothing to its left, a normalizer whose output has two bits
or more, four bits for a counter, four inputs for a table.  Of an input of zeros a normalizer is only shown to put out zeros (section 5).

**Addition.**  Both adders compute, with `b` the smaller significand and `D` the difference of the exponents, a number `t` of quarter units
in the last place of the larger one, and a sticky bit for the rest `l` below: `4 N = 2^D t + l` for the exact sum or difference
`N` (`AlignedSumIs`).  That a distance beyond the shifter is replaced by `wF + 3` changes neither. Where the leading bit of `t` is, `q`
is the significand in units of that place and `InUnits` says that the rest rounds it as it rounds the exact number; a non-zero rest
leaves at most two leading zeros (`SumParts`), so that the sticky bit stands below the rounding bit (`StickyUnits`, `BesideMiddle`), and a longer
cancellation is exact.  In the single path one normalizer finds the leading bit, and a comparison of exception bits, exponent and fraction in one number
(`LargerIs`) has made the difference non-negative.  In the dual path a difference of exponents of at most one takes the close path, whose difference
has no rest and at most one bit to round, all others the far path, whose sum has its leading bit at one of three places; `DualBothNormal` shows that
together they are all cases.  The packed exponent is kept modulo four times its range: by `AdderFormat`, `wE >= IntLog2(wF+3)`, no
cancellation takes it further below zero (`SumExponentIs`), and so its two upper bits tell overflow from underflow (`PackedSumIs`).  An exact
zero is recognised by the count of the normalizer, which no number but zero has (`NormalizedTo`, `NothingNormalized`).  The exceptional operands are
decided by the exception bits; the single path excludes an infinity with a normal number, as the run `single_path_infinity` requires.

**Induction over data.**  The library's induction theorems take an operator as a parameter, which the
provers at hand cannot instantiate.  `SumProofs` has one on sets instead, `Induction`: a set that has 0 and with
n has n + 1 has every number.  It follows from the least element of a set of naturals, and that from
the well-foundedness of strict inclusion of finite sets, which the library states without an operator.  From it come the
existence of recursive functions (`Recursion`), hence what `Pow2`, `SumBelow` and the recursive functions of
`TestBench` and `Compression` compute, and that `IntLog2` is the number of bits.

**Only model-checked:** the liveness properties `ScheduleReturns`,
`DataFlows` and `Terminates`, since neither fairness nor ENABLED is in the reach of the
prover; the stream, whose invariants are over texts and would need the well-formed programs described in closed form; and the
converters, the IEEE operators, the posits and the integer multiplier, whose netlists are compared with
their `emulate()` on all operands of small formats (or the samples named above).

## 5. Where the code and its documentation disagree

Shown by a run:

1. `bit_heap_shift_down`: `addSignal` promises the value times 2^shift; a signed signal whose msb
   is the one of the heap and that is shifted down keeps its sign bit, unextended, below the msb.
2. `single_path_infinity`: the single-path adder turns an infinity minus a normal number
   with the same exponent and fraction fields into a zero.
3. `ieee_tiny_to_infinity`: `InputIEEE` to a smaller exponent turns some numbers far below the
   range into infinities.
4. `ieee_fma_subnormal`: the fused multiply-add misplaces the fraction of a subnormal result
   of a normal addend and a far smaller product.

Met while modelling; the properties of the runs exclude these cases, by name where an
operator of the model names them:

* The manual says that the schedule ensures `B.cycle <= A.cycle` for each statement.  A signal
  declared but not driven when `schedule()` runs counts as a source and stays at cycle 0; a
  statement that drives it afterwards may read a later cycle.  `Disciplined` excludes it.
* The comment of `addRegisteredSignalCopy` promises functional delays irrespective of
  pipelining.  A copy is put at cycle 0 even if its source is later, and is then delayed by one wave
  and by the cycles of its source; in a combinatorial operator, which frequency 0 makes, it disappears.
* The manual says the test bench is properly synchronized if the operator is pipelined; outputs
  at different cycles are all compared at the latest (`Synchronized`).
* The actual of a shared output carries the whole inner delay after its clone, and a register
  placed there delays the output but nothing inside; a shared output mapped to a signal that is already declared
  is left unconnected (`Operator.cpp:1461`).
* A delay written `sig^n` is lost by the second clean-up of the dependence table, before
  `schedule()` moves it (`FlopocoStream.cpp:182`).
* `IEEEFMA`: an infinite product of a zero (`InvalidProduct`); two infinities of which one is
  negated (`NegatedInfinity`); an infinity minus a finite number (`OppositeInfinity`); the subtraction of an addend far
  below the product (`LostAddend`).
* Posits without exponent bits: maxpos + maxpos.
* A `Normalizer` that counts zeros and gets only zeros: `emulate()` stops counting at the width of the input
  (`Normalizer.cpp:198`), the netlist counts to all ones, 7 for five zeros.  A comment of `FPAddDualPath.cpp:231` calls that
  "a bug of Normalizer", and both adders recognise a cancellation by it.  `CountIsExact` claims nothing of this count
  and `FPAddIsCorrect` needs it: with the count of `emulate()` the adders would miss the cancellations.
* `FP2Fix` of a number too large for a signed output: the netlist gives the extreme value of the sign, while
  `emulate()` subtracts 2^n from positive ones (`FP2Fix.cpp:218`), so that it expects 1000 of 8 in four bits and the
  netlist gives 0111.  `FP2FixIsCorrect` is about numbers that fit, like all those of its random tests, and `FP2FixSaturates` states what
  the netlist does with the others.
* `FPMult` with `correctlyRounded=FALSE` adds one ulp; `FPSqrt` reads `correctRounding` uninitialised;
  `emulate()` of the shifter ignores `wR` and the sticky bit.
* `IntConstDiv` by 9 of 4 bits, like every divisor above half the range, has a quotient of one bit that it indexes as a
  vector; and the reciprocal rounded down would lose the carry of its product there (`IntConstDiv.cpp:576`).
* `FP2Fix` with a negative LSB does not shift numbers below 1/2, so that zero comes out as 0.5, and ignores
  the exception bits of a zero; with `trunc=false` it cannot be constructed, for its port map reads `R=fA3>`.
* `Posit2FP` of NaR gives minus infinity where its `emulate()` expects plus infinity.
* `IntMultiplier`, for parameters that its user interface accepts: the tiling fails its assertion
  "A tiling should not give a useless tile" (`IntMultiplier.cpp:516`; the smallest case is 2x4 bits to 2, and with
  tables alone 24x24 to 24, 8x16 to 8 and 10x99 to 10 too); the rounding bit of a truncated product
  by a single bit is below the heap and is refused by it with an exception; `calcBitHeapLSB` does not end when all tiles have one bit, as
  in 2x2 to 1.  The run builds the multipliers that the code builds.
* The tiling of `IntMultiplier` may leave out more than its error budget, which is only printed as an error;
  every product of the run is faithful all the same.  Its plain VHDL drops the low bit of a
  product that has fewer than wX+wY bits, its `emulate()` reads the uninitialised member `negate`, and the help names
  another default tiling (`UserInterface.cpp:810`) than the code takes (line 365).
* `Fix2FP` throws "Sorry, this operator is not yet ported".

## 6. What is not modelled, and why

* Text: VHDL syntax, names, components, plots, floorplans; in the stream, processes, generics (their
  values) and functional delays `sig^^n`.
* Targets: delay tables, abstracted to constants; vendor primitives; the split of an `IntAdder` into chunks.
* The other compression strategies (ILP solvers, first-fit), vendor-specific
  compressors and the ternary adder that only ILP strategies select; removal, resizing and
  merging of heaps, which nothing calls; heaps of a single column.
* Numerical operators whose correctness is an error analysis, and the approximation of functions, which
  rest on Sollya and WCPG.
* Resets and clock enable; outputs with several allowed values in the test bench.
* The other tilings of `IntMult/` (greedy, beam search, ILP), squarers and Karatsuba multipliers.
* `UserInterface`, `AutoTest`, `Apps`, `Attic`, `OperatorPipeline`.

The map covers a small share of the repository: the 170,000 lines counted contain some 40,000
generated lines of random-number tables and systems, retired code (`Attic`, `Old`), applications, and
operators whose correctness is a numerical error bound on real functions, which a finite model cannot state.

## 7. Plan

Done: `Scheduler` with shared instances and the abstraction `TimedGraph`, `Pipeline`, `TestBench`,
`BitHeap` and `Compression` with two strategies, with their proofs; `VHDLStream`; the arithmetic
modules.

Left: `UserInterface` (the list of operators, its traversal and deduplication, sticky options,
`pipelineActive_`); the lossless compression of tables; the first-fit strategy; the inside of
shared operators together with their clones.
