----------------------------- MODULE TestBench -----------------------------
(***************************************************************************)
(* The test bench that TestBench generates around an operator, and its     *)
(* simulation: three VHDL processes that never synchronise, but by the     *)
(* delays computed from getPipelineDepth(): the clock, the process that    *)
(* sets the inputs and the one that compares the outputs.  Processes due   *)
(* at the same nanosecond run in any order.                                *)
(*                                                                         *)
(* A test case is its rank in the list of tests (a line of test.input); the*)
(* operator is a pipeline that carries ranks (module Pipeline), so that a  *)
(* comparison is right when the rank that comes out is the expected one.   *)
(***************************************************************************)
EXTENDS Integers, Sequences, SequencesExt, Sums

CONSTANTS
  Outputs,       \* the outputs of the operator under test
  Synchronized,  \* TRUE: only operators whose outputs share one cycle
  MaxDepth,      \* bound on the cycles of the outputs
  MaxTests,      \* bound on the number of test cases when not exhaustive
  Widths         \* the sequences of input widths of the exhaustive tests

ASSUME TestBenchAssumption ==
  /\ IsFiniteSet(Outputs) /\ Outputs # {}
  /\ Synchronized \in BOOLEAN
  /\ MaxDepth \in Nat
  /\ MaxTests \in Nat \ {0}
  /\ Widths \subseteq Seq(Nat \ {0}) \ {<<>>}

VARIABLES
  exhaustive,         \* n_ = -2
  width,              \* InWidth, of the inputs
  outputCycle,        \* the cycle of each output of the operator
  counters,           \* the digits of the next exhaustive test
  tests,              \* the test cases generated so far
  generating,         \* TRUE until the simulation starts
  simulationTime,     \* given to the simulator as its stop time
  wake,               \* the time at which each process runs next
  clk, rst,
  inputLine,          \* test cases sent to the inputs
  outputLine,         \* test cases whose outputs were compared
  stage,              \* stage[c]: the test case at cycle c; 0 for none
  clockedReset,       \* rising edges with rst = 1
  errorCounter

benchVars == <<exhaustive, width, outputCycle>>
generatorVars == <<counters, tests, generating, simulationTime>>
simulationVars == <<wake, clk, rst, inputLine, outputLine, stage, clockedReset, errorCounter>>
vars == <<benchVars, generatorVars, simulationVars>>

Processes == {"clock", "inputs", "outputs"}

\* computePipelineDepths(): the latest cycle of the outputs, the inputs being at
\* cycle 0; it only warns when another output is earlier.
pipelineDepth == Max({outputCycle[o] : o \in Outputs})

Init ==
  /\ exhaustive \in BOOLEAN
  /\ width \in Widths
  /\ outputCycle \in [Outputs -> 0 .. MaxDepth]
  /\ Synchronized => \A o, t \in Outputs : outputCycle[o] = outputCycle[t]
  /\ counters = [i \in DOMAIN width |-> 0]
  /\ tests = <<>>
  /\ generating = TRUE
  /\ simulationTime = 0
  /\ wake = [p \in Processes |-> 0]
  /\ clk = 0
  /\ rst = 0
  /\ inputLine = 0
  /\ outputLine = 0
  /\ stage = [c \in 0 .. MaxDepth |-> 0]
  /\ clockedReset = 0
  /\ errorCounter = 0

-----------------------------------------------------------------------------
(***************************************************************************)
(* Generation of the tests.                                                *)
(***************************************************************************)
Bound(i) == Pow2[width[i]]
InputVectors == {v \in [DOMAIN width -> 0 .. Max({Bound(i) : i \in DOMAIN width})] :
                   \A i \in DOMAIN width : v[i] < Bound(i)}

\* A standard or random test case: its data plays no role, its rank does.
AddTestCase ==
  /\ generating /\ ~exhaustive
  /\ Len(tests) < MaxTests
  /\ tests' = Append(tests, counters)
  /\ UNCHANGED <<benchVars, counters, generating, simulationTime, simulationVars>>

\* A wrong variant of Overflows, for a mutation run.
OverflowsLate(digit, i) == digit > Bound(i)

\* A wrong variant of Overflows, for a mutation run.
OverflowsEarly(digit, i) == digit + 1 >= Bound(i)

\* One turn of the while(true) loop: the counters that reached their bound are
\* carried, from the first to the last but one; the overflow of the last one
\* ends the loop.
Overflows(digit, i) == digit >= Bound(i)

CarryInto[i \in DOMAIN width] ==
  IF i > 1 /\ Overflows(counters[i - 1] + CarryInto[i - 1], i - 1) THEN 1 ELSE 0
Carried == [i \in DOMAIN width |->
              IF i < Len(width) /\ Overflows(counters[i] + CarryInto[i], i)
              THEN 0 ELSE counters[i] + CarryInto[i]]

LastOverflows == Overflows(Carried[Len(width)], Len(width))

AddExhaustiveTest ==
  /\ generating /\ exhaustive
  /\ ~LastOverflows
  /\ tests' = Append(tests, Carried)
  /\ counters' = [Carried EXCEPT ![1] = @ + 1]
  /\ UNCHANGED <<benchVars, generating, simulationTime, simulationVars>>

\* A wrong variant of FirstCheck, for a mutation run.
ChecksAtReset == 10 + 10 * pipelineDepth

\* The delay before the first comparison: the reset, then the pipeline.
FirstCheck == 10 + (IF pipelineDepth > 0 THEN 10 * pipelineDepth ELSE 2)

\* The product of the bounds of the exhaustive counters.
NumberUpto[n \in 0 .. Len(width)] == IF n = 0 THEN 1 ELSE NumberUpto[n - 1] * Bound(n)
Number == NumberUpto[Len(width)]

\* A wrong variant of SimulationTime, for a mutation run.
HalfTheTime == 10 + 5 * Number + 10 * pipelineDepth + 2

SimulationTime ==
  IF exhaustive THEN 10 + 5 * Number + 10 * pipelineDepth + 5 * Number + 2
                ELSE FirstCheck + 10 * Len(tests)

StartSimulation ==
  /\ generating
  /\ IF exhaustive THEN LastOverflows ELSE tests # <<>>
  /\ generating' = FALSE
  /\ simulationTime' = SimulationTime
  /\ UNCHANGED <<benchVars, counters, tests, simulationVars>>

-----------------------------------------------------------------------------
(***************************************************************************)
(* The simulation, up to its stop time.                                    *)
(***************************************************************************)
Due(p) ==
  /\ ~generating
  /\ wake[p] = Min({wake[q] : q \in Processes})
  /\ wake[p] <= simulationTime

Sleep(p, ns) == wake' = [wake EXCEPT ![p] = @ + ns]

\* clk is '0' for 5 ns, then '1' for 5 ns; the clock processes of the operator
\* shift its pipeline at the rising edge.
ClockFalls ==
  /\ Due("clock") /\ (wake["clock"] % 10) = 0
  /\ clk' = 0
  /\ Sleep("clock", 5)
  /\ UNCHANGED <<benchVars, generatorVars, rst, inputLine, outputLine, stage,
                 clockedReset, errorCounter>>

ClockRises ==
  /\ Due("clock") /\ (wake["clock"] % 10) = 5
  /\ clk' = 1
  /\ stage' = [c \in DOMAIN stage |-> IF c = 0 THEN stage[0] ELSE stage[c - 1]]
  /\ clockedReset' = IF rst = 1 THEN clockedReset + 1 ELSE clockedReset
  /\ Sleep("clock", 5)
  /\ UNCHANGED <<benchVars, generatorVars, rst, inputLine, outputLine, errorCounter>>

\* A wrong variant of ResetTime, for a mutation run.
ResetTooShort == 5

\* The inputs: reset, then one test case every 10 ns, then a long wait.
ResetTime == 10

SendReset ==
  /\ Due("inputs") /\ wake["inputs"] = 0
  /\ rst' = 1
  /\ Sleep("inputs", ResetTime)
  /\ UNCHANGED <<benchVars, generatorVars, clk, inputLine, outputLine, stage,
                 clockedReset, errorCounter>>

SetInputs ==
  /\ Due("inputs") /\ wake["inputs"] > 0 /\ inputLine < Len(tests)
  /\ rst' = 0
  /\ inputLine' = inputLine + 1
  /\ stage' = [stage EXCEPT ![0] = inputLine + 1]
  /\ Sleep("inputs", 10)
  /\ UNCHANGED <<benchVars, generatorVars, clk, outputLine, clockedReset, errorCounter>>

WaitForTheEnd ==
  /\ Due("inputs") /\ wake["inputs"] > 0 /\ inputLine = Len(tests)
  /\ Sleep("inputs", 10000)
  /\ UNCHANGED <<benchVars, generatorVars, clk, rst, inputLine, outputLine, stage,
                 clockedReset, errorCounter>>

\* The comparisons: a first delay, then one test case every 10 ns; a process
\* that reaches its end starts again, and finds the file at its end.
WaitForPipeline ==
  /\ Due("outputs") /\ (wake["outputs"] = 0 \/ outputLine = Len(tests))
  /\ Sleep("outputs", FirstCheck)
  /\ UNCHANGED <<benchVars, generatorVars, clk, rst, inputLine, outputLine, stage,
                 clockedReset, errorCounter>>

CheckOutputs ==
  /\ Due("outputs") /\ wake["outputs"] > 0 /\ outputLine < Len(tests)
  /\ outputLine' = outputLine + 1
  /\ errorCounter' = errorCounter
       + Cardinality({o \in Outputs : stage[outputCycle[o]] # outputLine + 1})
  /\ Sleep("outputs", 10)
  /\ UNCHANGED <<benchVars, generatorVars, clk, rst, inputLine, stage, clockedReset>>

Next ==
  \/ AddTestCase \/ AddExhaustiveTest \/ StartSimulation
  \/ ClockFalls \/ ClockRises
  \/ SendReset \/ SetInputs \/ WaitForTheEnd
  \/ WaitForPipeline \/ CheckOutputs

Spec == Init /\ [][Next]_vars

-----------------------------------------------------------------------------
\* Every variable of the generated test bench keeps its type, and the exhaustive
\* vectors fit the inputs.
TypeOK ==
  /\ exhaustive \in BOOLEAN
  /\ width \in Widths
  /\ outputCycle \in [Outputs -> 0 .. MaxDepth]
  /\ tests \in Seq([DOMAIN width -> Nat])
  /\ \A i \in DOMAIN tests : \A j \in DOMAIN width : tests[i][j] < Bound(j)
  /\ generating \in BOOLEAN
  /\ simulationTime \in Nat
  /\ wake \in [Processes -> Nat]
  /\ clk \in {0, 1} /\ rst \in {0, 1}
  /\ inputLine \in 0 .. Len(tests)
  /\ outputLine \in 0 .. Len(tests)
  /\ stage \in [0 .. MaxDepth -> 0 .. Len(tests)]
  /\ clockedReset \in Nat
  /\ errorCounter \in Nat

\* "This test bench is properly synchronized if the operator under test happens
\* to be pipelined" (developer manual): a correct operator has no error, whatever
\* the order of the processes due at the same time, since each comparison sees the
\* outputs of its own test case.
NoFalseError == errorCounter = 0

\* The stop time given to the simulator leaves no test case uncompared.
Stopped == ~generating /\ \A p \in Processes : wake[p] > simulationTime
EveryTestCompared == Stopped => outputLine = Len(tests)

\* An exhaustive test has each combination of the inputs exactly once.
ExhaustiveTestIsExhaustive ==
  exhaustive /\ ~generating =>
    /\ {tests[i] : i \in DOMAIN tests} = InputVectors
    /\ Len(tests) = Number

\* The operator is clocked while it is reset, before the first test case.
ResetIsClocked == inputLine > 0 => clockedReset = 1
=============================================================================
