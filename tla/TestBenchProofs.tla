-------------------------- MODULE TestBenchProofs --------------------------
(***************************************************************************)
(* The three processes of a generated test bench stay in step, for every   *)
(* pipeline depth and every number of test cases, and an exhaustive test   *)
(* is exhaustive, for every number of inputs and all their widths.         *)
(***************************************************************************)
EXTENDS TestBench, SumProofs, SequenceTheorems

L == Len(tests)

\* The rising edges so far.
EdgeCount == wake["clock"] \div 10

\* The types that the arithmetic needs.
CountersInv ==
  /\ wake \in [Processes -> Nat]
  /\ outputCycle \in [Outputs -> 0 .. MaxDepth]
  /\ Synchronized => \A o, t \in Outputs : outputCycle[o] = outputCycle[t]
  /\ \E S : tests \in Seq(S)
  /\ inputLine \in 0 .. L
  /\ outputLine \in 0 .. L
  /\ stage \in [0 .. MaxDepth -> Nat]
  /\ generating => \A p \in Processes : wake[p] = 0
  /\ ~generating /\ ~exhaustive => simulationTime = FirstCheck + 10 * L

\* When each process runs next, by what it has done; and no process is ahead
\* of another by more than its last delay.
ClockInv ==
  /\ wake["clock"] = 10 * EdgeCount \/ wake["clock"] = 10 * EdgeCount + 5
  /\ wake["clock"] <= wake["inputs"] + 5
  /\ wake["clock"] <= wake["outputs"] + 5

InputsInv ==
  /\ wake["inputs"] = 0 => inputLine = 0
  /\ wake["inputs"] > 0 =>
       \/ wake["inputs"] = 10 + 10 * inputLine
       \/ inputLine = L /\ 10 + 10 * L <= wake["clock"] /\ 10 + 10 * L <= wake["outputs"]
  /\ 10 * inputLine <= wake["clock"]
  /\ 10 * inputLine <= wake["outputs"]

OutputsInv ==
  /\ wake["outputs"] = 0 => outputLine = 0
  /\ wake["outputs"] > 0 => wake["outputs"] = FirstCheck + 10 * outputLine \/ outputLine = L

\* The test case that entered at an edge, and the contents of the pipeline.
Entered(edge) == IF edge <= 0 THEN 0 ELSE IF edge <= L THEN edge ELSE L

StageInv ==
  /\ stage[0] = inputLine
  /\ \A c \in 1 .. MaxDepth : stage[c] = Entered(EdgeCount - c)

ResetInv ==
  /\ wake["inputs"] = 0 => rst = 0 /\ clockedReset = 0
  /\ wake["inputs"] = 10 /\ inputLine = 0 => rst = 1 /\ clockedReset = EdgeCount
  /\ inputLine > 0 => rst = 0 /\ clockedReset = 1

BenchInv == CountersInv /\ ClockInv /\ InputsInv /\ OutputsInv /\ StageInv /\ ResetInv

-----------------------------------------------------------------------------
\* A process that is due is one of those that wake up first.
LEMMA DueIsEarliest ==
  ASSUME wake \in [Processes -> Nat], NEW p \in Processes, Due(p)
  PROVE  \A q \in Processes : wake[p] <= wake[q]
<1> DEFINE times == {wake[q] : q \in Processes}
<1>1. \E x \in times : \A y \in times : x <= y
  BY DEF Processes
<1>2. /\ Min(times) \in times
      /\ \A y \in times : Min(times) <= y
  BY <1>1 DEF Min
<1> QED
  BY <1>2 DEF Due

\* With one cycle for all the outputs, that cycle is the depth of the pipeline.
LEMMA DepthOfAll ==
  ASSUME Synchronized, CountersInv
  PROVE  /\ pipelineDepth \in 0 .. MaxDepth
         /\ \A o \in Outputs : outputCycle[o] = pipelineDepth
         /\ FirstCheck = IF pipelineDepth > 0 THEN 10 + 10 * pipelineDepth ELSE 12
<1> USE TestBenchAssumption DEF CountersInv
<1>1. PICK o \in Outputs : TRUE
  OBVIOUS
<1>2. {outputCycle[q] : q \in Outputs} = {outputCycle[o]}
  BY <1>1
<1>3. outputCycle[o] \in 0 .. MaxDepth /\ outputCycle[o] \in Int
  BY <1>1
<1>4. Max({outputCycle[o]}) = outputCycle[o]
  BY <1>3 DEF Max
<1>5. pipelineDepth = outputCycle[o]
  BY <1>2, <1>4 DEF pipelineDepth
<1> QED
  BY <1>1, <1>3, <1>5 DEF FirstCheck

LEMMA BenchInit == Init => BenchInv
<1> SUFFICES ASSUME Init PROVE BenchInv
  OBVIOUS
<1> USE TestBenchAssumption DEF Init
<1>1. L = 0 /\ EdgeCount = 0
  BY DEF L, EdgeCount, Processes
<1>2. \A p \in Processes : wake[p] = 0
  OBVIOUS
<1>3. wake["clock"] = 0 /\ wake["inputs"] = 0 /\ wake["outputs"] = 0
  BY <1>2 DEF Processes
<1>4. CountersInv
  BY <1>1, <1>2 DEF CountersInv
<1>5. ClockInv /\ InputsInv /\ OutputsInv /\ ResetInv
  BY <1>1, <1>3 DEF ClockInv, InputsInv, OutputsInv, ResetInv
<1>6. StageInv
  BY <1>1 DEF StageInv, Entered
<1> QED
  BY <1>4, <1>5, <1>6 DEF BenchInv

-----------------------------------------------------------------------------
(***************************************************************************)
(* The generation of the tests, before anything runs.                      *)
(***************************************************************************)
LEMMA BenchAddTest ==
  ASSUME BenchInv, generating, NEW test, tests' = Append(tests, test),
         UNCHANGED <<benchVars, generating, simulationTime, simulationVars>>
  PROVE  BenchInv'
<1> USE DEF BenchInv, benchVars, simulationVars
<1>1. /\ \E S : tests' \in Seq(S)
      /\ L \in Nat /\ L' = L + 1
  <2>1. PICK S : tests \in Seq(S)
    BY DEF CountersInv
  <2>2. tests \in Seq(S \cup {test})
    BY <2>1, SeqMonotonic
  <2> QED
    BY <2>2 DEF L
<1>2. wake["clock"] = 0 /\ wake["inputs"] = 0 /\ wake["outputs"] = 0
  BY DEF CountersInv, Processes
<1>3. EdgeCount = 0 /\ EdgeCount' = 0
  BY <1>2 DEF EdgeCount
<1>4. inputLine = 0 /\ outputLine = 0
  BY <1>2 DEF InputsInv, OutputsInv
<1>5. CountersInv'
  BY <1>1, <1>4 DEF CountersInv
<1>6. ClockInv' /\ InputsInv' /\ OutputsInv' /\ ResetInv'
  BY <1>2, <1>3, <1>4 DEF ClockInv, InputsInv, OutputsInv, ResetInv
<1>7. StageInv'
  BY <1>3 DEF StageInv, Entered
<1> QED
  BY <1>5, <1>6, <1>7

LEMMA BenchStart == BenchInv /\ StartSimulation => BenchInv'
<1> SUFFICES ASSUME BenchInv, StartSimulation PROVE BenchInv'
  OBVIOUS
<1> USE DEF BenchInv, StartSimulation, benchVars, simulationVars
<1>1. FirstCheck' = FirstCheck /\ L' = L /\ EdgeCount' = EdgeCount
  BY DEF FirstCheck, pipelineDepth, L, EdgeCount
<1>2. CountersInv'
  BY <1>1 DEF CountersInv, SimulationTime, L
<1> QED
  BY <1>1, <1>2 DEF ClockInv, InputsInv, OutputsInv, ResetInv, StageInv, Entered

-----------------------------------------------------------------------------
(***************************************************************************)
(* The simulation.                                                         *)
(***************************************************************************)
\* What every step of the simulation relies on.
StepFacts ==
  /\ wake["clock"] \in Nat /\ wake["inputs"] \in Nat /\ wake["outputs"] \in Nat
  /\ L \in Nat /\ L' = L
  /\ EdgeCount \in Nat
  /\ inputLine \in Nat /\ inputLine <= L
  /\ outputLine \in Nat /\ outputLine <= L
  /\ FirstCheck \in Nat /\ FirstCheck > 0 /\ FirstCheck' = FirstCheck

LEMMA Simulating ==
  ASSUME Synchronized, BenchInv, UNCHANGED <<benchVars, generatorVars>>
  PROVE  StepFacts
<1>1. pipelineDepth \in Nat /\ FirstCheck \in Nat /\ FirstCheck > 0
  BY DepthOfAll, TestBenchAssumption DEF BenchInv
<1>2. FirstCheck' = FirstCheck /\ L' = L
  BY DEF FirstCheck, pipelineDepth, L, benchVars, generatorVars
<1>3. L \in Nat
  BY DEF BenchInv, CountersInv, L
<1>4. wake["clock"] \in Nat /\ wake["inputs"] \in Nat /\ wake["outputs"] \in Nat
  BY DEF BenchInv, CountersInv, Processes
<1> QED
  BY <1>1, <1>2, <1>3, <1>4 DEF BenchInv, CountersInv, EdgeCount, StepFacts

\* A process that sleeps changes its own wake-up time only.
LEMMA Sleeping ==
  ASSUME wake \in [Processes -> Nat], NEW p \in Processes, NEW ns \in Nat, Sleep(p, ns)
  PROVE  /\ wake' \in [Processes -> Nat]
         /\ wake'[p] = wake[p] + ns
         /\ \A q \in Processes : q # p => wake'[q] = wake[q]
BY DEF Sleep

LEMMA CountersStep ==
  ASSUME Synchronized, BenchInv, UNCHANGED <<benchVars, generatorVars>>, ~generating,
         wake' \in [Processes -> Nat], stage' \in [0 .. MaxDepth -> Nat],
         inputLine' \in 0 .. L, outputLine' \in 0 .. L
  PROVE  CountersInv'
<1>1. FirstCheck' = FirstCheck /\ L' = L
  BY Simulating DEF StepFacts
<1>2. CountersInv
  BY DEF BenchInv
<1> QED
  BY <1>1, <1>2 DEF CountersInv, benchVars, generatorVars

LEMMA BenchClockFalls ==
  ASSUME Synchronized, BenchInv, ClockFalls
  PROVE  BenchInv'
<1>0. UNCHANGED <<benchVars, generatorVars>> /\ ~generating /\ StepFacts
  BY Simulating DEF ClockFalls, Due
<1>1. \A q \in Processes : wake["clock"] <= wake[q]
  BY DueIsEarliest DEF BenchInv, CountersInv, Processes, ClockFalls
<1>2. /\ wake["clock"] <= wake["inputs"] /\ wake["clock"] <= wake["outputs"]
      /\ wake' \in [Processes -> Nat]
      /\ wake'["clock"] = wake["clock"] + 5
      /\ wake'["inputs"] = wake["inputs"]
      /\ wake'["outputs"] = wake["outputs"]
  BY <1>0, <1>1, Sleeping DEF StepFacts, BenchInv, CountersInv, Processes, ClockFalls
<1>3. wake["clock"] = 10 * EdgeCount /\ EdgeCount' = EdgeCount
  BY <1>0, <1>2 DEF StepFacts, BenchInv, ClockInv, EdgeCount, ClockFalls
<1>4. CountersInv'
  BY <1>0, <1>2, CountersStep DEF BenchInv, CountersInv, ClockFalls
<1>5. ClockInv' /\ InputsInv' /\ OutputsInv'
  <2>1. ClockInv'
    BY <1>0, <1>2, <1>3 DEF StepFacts, BenchInv, ClockInv, ClockFalls
  <2>2. InputsInv'
    BY <1>0, <1>2, <1>3 DEF StepFacts, BenchInv, InputsInv, ClockFalls
  <2>3. OutputsInv'
    BY <1>0, <1>2, <1>3 DEF StepFacts, BenchInv, OutputsInv, ClockFalls
  <2> QED
    BY <2>1, <2>2, <2>3
<1>6. StageInv'
  BY <1>0, <1>3 DEF StepFacts, BenchInv, StageInv, Entered, ClockFalls
<1>7. ResetInv'
  BY <1>0, <1>2, <1>3 DEF StepFacts, BenchInv, ResetInv, InputsInv, ClockFalls
<1> QED
  BY <1>4, <1>5, <1>6, <1>7 DEF BenchInv

\* An edge shifts the pipeline by one test case.
LEMMA BenchClockRises ==
  ASSUME Synchronized, BenchInv, ClockRises
  PROVE  BenchInv'
<1>0. UNCHANGED <<benchVars, generatorVars>> /\ ~generating /\ StepFacts
  BY Simulating DEF ClockRises, Due
<1>1. \A q \in Processes : wake["clock"] <= wake[q]
  BY DueIsEarliest DEF BenchInv, CountersInv, Processes, ClockRises
<1>2. /\ wake["clock"] <= wake["inputs"] /\ wake["clock"] <= wake["outputs"]
      /\ wake' \in [Processes -> Nat]
      /\ wake'["clock"] = wake["clock"] + 5
      /\ wake'["inputs"] = wake["inputs"]
      /\ wake'["outputs"] = wake["outputs"]
  BY <1>0, <1>1, Sleeping DEF StepFacts, BenchInv, CountersInv, Processes, ClockRises
<1>3. /\ wake["clock"] = 10 * EdgeCount + 5 /\ EdgeCount' = EdgeCount + 1
      /\ stage' \in [0 .. MaxDepth -> Nat]
  <2>1. wake["clock"] % 10 = 5
    BY DEF ClockRises
  <2>2. wake["clock"] = 10 * EdgeCount + 5
    BY <1>0, <2>1 DEF StepFacts, BenchInv, ClockInv
  <2>3. EdgeCount' = EdgeCount + 1
    BY <1>0, <1>2, <2>2 DEF StepFacts, EdgeCount
  <2>4. stage' \in [0 .. MaxDepth -> Nat]
    BY SMTT(40), TestBenchAssumption DEF BenchInv, CountersInv, ClockRises
  <2> QED
    BY <2>2, <2>3, <2>4
<1>4. CountersInv'
  BY <1>0, <1>2, <1>3, CountersStep DEF BenchInv, CountersInv, ClockRises
<1>5. ClockInv' /\ InputsInv' /\ OutputsInv'
  <2>1. ClockInv'
    BY <1>0, <1>2, <1>3 DEF StepFacts, BenchInv, ClockInv, ClockRises
  <2>2. InputsInv'
    BY <1>0, <1>2, <1>3 DEF StepFacts, BenchInv, InputsInv, ClockRises
  <2>3. OutputsInv'
    BY <1>0, <1>2, <1>3 DEF StepFacts, BenchInv, OutputsInv, ClockRises
  <2> QED
    BY <2>1, <2>2, <2>3
<1>6. StageInv'
  <2>1. stage'[0] = inputLine'
    BY TestBenchAssumption DEF BenchInv, CountersInv, StageInv, ClockRises
  <2>2. inputLine = Entered(EdgeCount)
    BY <1>0, <1>2, <1>3 DEF StepFacts, BenchInv, InputsInv, Entered
  <2>3. ASSUME NEW c \in 1 .. MaxDepth PROVE stage'[c] = Entered(EdgeCount - (c - 1))
    <3>1. stage'[c] = stage[c - 1]
      BY TestBenchAssumption DEF BenchInv, CountersInv, ClockRises
    <3>2. CASE c = 1
      BY <1>0, <2>2, <3>1, <3>2 DEF StepFacts, BenchInv, StageInv
    <3>3. CASE c > 1
      BY <3>1, <3>3, TestBenchAssumption DEF BenchInv, StageInv
    <3> QED
      BY <3>2, <3>3
  <2>4. \A c \in 1 .. MaxDepth : EdgeCount' - c = EdgeCount - (c - 1)
    BY <1>0, <1>3 DEF StepFacts
  <2> QED
    BY <1>0, <2>1, <2>3, <2>4 DEF StepFacts, StageInv, Entered
<1>7. ResetInv'
  BY <1>0, <1>2, <1>3 DEF StepFacts, BenchInv, ResetInv, InputsInv, ClockRises
<1> QED
  BY <1>4, <1>5, <1>6, <1>7 DEF BenchInv

LEMMA BenchSendReset ==
  ASSUME Synchronized, BenchInv, SendReset
  PROVE  BenchInv'
<1>0. UNCHANGED <<benchVars, generatorVars>> /\ ~generating /\ StepFacts
  BY Simulating DEF SendReset, Due
<1>1. \A q \in Processes : wake["inputs"] <= wake[q]
  BY DueIsEarliest DEF BenchInv, CountersInv, Processes, SendReset
<1>2. /\ wake["inputs"] <= wake["clock"] /\ wake["inputs"] <= wake["outputs"]
      /\ wake' \in [Processes -> Nat]
      /\ wake'["inputs"] = wake["inputs"] + 10
      /\ wake'["clock"] = wake["clock"]
      /\ wake'["outputs"] = wake["outputs"]
  BY <1>0, <1>1, Sleeping DEF StepFacts, BenchInv, CountersInv, Processes, SendReset, ResetTime
<1>3. wake["inputs"] = 0 /\ inputLine = 0 /\ EdgeCount' = EdgeCount /\ EdgeCount = 0
  BY <1>0, <1>2 DEF StepFacts, BenchInv, InputsInv, ClockInv, EdgeCount, SendReset
<1>4. CountersInv'
  BY <1>0, <1>2, CountersStep DEF BenchInv, CountersInv, SendReset
<1>5. ClockInv' /\ InputsInv' /\ OutputsInv'
  <2>1. ClockInv'
    BY <1>0, <1>2, <1>3 DEF StepFacts, BenchInv, ClockInv, SendReset
  <2>2. InputsInv'
    BY <1>0, <1>2, <1>3 DEF StepFacts, BenchInv, InputsInv, SendReset
  <2>3. OutputsInv'
    BY <1>0, <1>2, <1>3 DEF StepFacts, BenchInv, OutputsInv, SendReset
  <2> QED
    BY <2>1, <2>2, <2>3
<1>6. StageInv'
  BY <1>0, <1>3 DEF StepFacts, BenchInv, StageInv, Entered, SendReset
<1>7. ResetInv'
  BY <1>0, <1>2, <1>3 DEF StepFacts, BenchInv, ResetInv, InputsInv, SendReset
<1> QED
  BY <1>4, <1>5, <1>6, <1>7 DEF BenchInv

LEMMA BenchSetInputs ==
  ASSUME Synchronized, BenchInv, SetInputs
  PROVE  BenchInv'
<1>0. UNCHANGED <<benchVars, generatorVars>> /\ ~generating /\ StepFacts
  BY Simulating DEF SetInputs, Due
<1>1. \A q \in Processes : wake["inputs"] <= wake[q]
  BY DueIsEarliest DEF BenchInv, CountersInv, Processes, SetInputs
<1>2. /\ wake["inputs"] <= wake["clock"] /\ wake["inputs"] <= wake["outputs"]
      /\ wake' \in [Processes -> Nat]
      /\ wake'["inputs"] = wake["inputs"] + 10
      /\ wake'["clock"] = wake["clock"]
      /\ wake'["outputs"] = wake["outputs"]
  BY <1>0, <1>1, Sleeping DEF StepFacts, BenchInv, CountersInv, Processes, SetInputs
<1>3. /\ wake["inputs"] = 10 + 10 * inputLine
      /\ EdgeCount' = EdgeCount
      /\ inputLine = 0 => EdgeCount = 1
      /\ inputLine' = inputLine + 1 /\ inputLine < L
  <2>1. inputLine' = inputLine + 1 /\ inputLine < L /\ wake["inputs"] > 0
    BY <1>0 DEF StepFacts, L, SetInputs
  <2>2. wake["inputs"] = 10 + 10 * inputLine
    BY <1>0, <2>1 DEF StepFacts, BenchInv, InputsInv
  <2>3. EdgeCount' = EdgeCount
    BY <1>2 DEF EdgeCount
  <2>4. inputLine = 0 => EdgeCount = 1
    BY <1>0, <1>2, <2>2 DEF StepFacts, BenchInv, ClockInv
  <2> QED
    BY <2>1, <2>2, <2>3, <2>4
<1>4. CountersInv'
  <2>1. stage' \in [0 .. MaxDepth -> Nat]
    <3>1. stage \in [0 .. MaxDepth -> Nat] /\ inputLine + 1 \in Nat
      BY <1>0 DEF StepFacts, BenchInv, CountersInv
    <3> QED
      BY <3>1 DEF SetInputs
  <2>2. inputLine' \in 0 .. L /\ outputLine' \in 0 .. L
    BY <1>0, <1>3 DEF StepFacts, SetInputs
  <2> QED
    BY <1>0, <1>2, <2>1, <2>2, CountersStep
<1>5. ClockInv' /\ InputsInv' /\ OutputsInv'
  <2>1. ClockInv'
    BY <1>0, <1>2, <1>3 DEF StepFacts, BenchInv, ClockInv, SetInputs
  <2>2. InputsInv'
    BY <1>0, <1>2, <1>3 DEF StepFacts, BenchInv, InputsInv, SetInputs
  <2>3. OutputsInv'
    BY <1>0, <1>2, <1>3 DEF StepFacts, BenchInv, OutputsInv, SetInputs
  <2> QED
    BY <2>1, <2>2, <2>3
<1>6. StageInv'
  <2>1. stage'[0] = inputLine'
    BY TestBenchAssumption DEF BenchInv, CountersInv, SetInputs
  <2>2. \A c \in 1 .. MaxDepth : stage'[c] = stage[c]
    BY DEF BenchInv, CountersInv, SetInputs
  <2> QED
    BY <1>0, <1>3, <2>1, <2>2 DEF StepFacts, BenchInv, StageInv, Entered
<1>7. ResetInv'
  BY <1>0, <1>2, <1>3 DEF StepFacts, BenchInv, ResetInv, SetInputs
<1> QED
  BY <1>4, <1>5, <1>6, <1>7 DEF BenchInv

LEMMA BenchWaitForTheEnd ==
  ASSUME Synchronized, BenchInv, WaitForTheEnd
  PROVE  BenchInv'
<1>0. UNCHANGED <<benchVars, generatorVars>> /\ ~generating /\ StepFacts
  BY Simulating DEF WaitForTheEnd, Due
<1>1. \A q \in Processes : wake["inputs"] <= wake[q]
  BY DueIsEarliest DEF BenchInv, CountersInv, Processes, WaitForTheEnd
<1>2. /\ wake["inputs"] <= wake["clock"] /\ wake["inputs"] <= wake["outputs"]
      /\ wake' \in [Processes -> Nat]
      /\ wake'["inputs"] = wake["inputs"] + 10000
      /\ wake'["clock"] = wake["clock"]
      /\ wake'["outputs"] = wake["outputs"]
  BY <1>0, <1>1, Sleeping DEF StepFacts, BenchInv, CountersInv, Processes, WaitForTheEnd
<1>3. EdgeCount' = EdgeCount /\ wake["inputs"] > 0 /\ inputLine = L
  BY <1>2 DEF EdgeCount, L, WaitForTheEnd
<1>4. CountersInv'
  <2>1. stage \in [0 .. MaxDepth -> Nat] /\ inputLine \in 0 .. L /\ outputLine \in 0 .. L
    BY DEF BenchInv, CountersInv
  <2>2. stage' = stage /\ inputLine' = inputLine /\ outputLine' = outputLine
    BY DEF WaitForTheEnd
  <2> QED BY <1>0, <1>2, <2>1, <2>2, CountersStep
<1>5. ClockInv' /\ InputsInv' /\ OutputsInv'
  <2>1. ClockInv'
    BY <1>0, <1>2, <1>3 DEF StepFacts, BenchInv, ClockInv, WaitForTheEnd
  <2>2. InputsInv'
    BY <1>0, <1>2, <1>3 DEF StepFacts, BenchInv, InputsInv, WaitForTheEnd
  <2>3. OutputsInv'
    BY <1>0, <1>2, <1>3 DEF StepFacts, BenchInv, OutputsInv, WaitForTheEnd
  <2> QED
    BY <2>1, <2>2, <2>3
<1>6. StageInv'
  BY <1>0, <1>3 DEF StepFacts, BenchInv, StageInv, Entered, WaitForTheEnd
<1>7. ResetInv'
  BY <1>0, <1>2, <1>3 DEF StepFacts, BenchInv, ResetInv, InputsInv, WaitForTheEnd
<1> QED
  BY <1>4, <1>5, <1>6, <1>7 DEF BenchInv

LEMMA BenchWaitForPipeline ==
  ASSUME Synchronized, BenchInv, WaitForPipeline
  PROVE  BenchInv'
<1>0. UNCHANGED <<benchVars, generatorVars>> /\ ~generating /\ StepFacts
  BY Simulating DEF WaitForPipeline, Due
<1>1. \A q \in Processes : wake["outputs"] <= wake[q]
  BY DueIsEarliest DEF BenchInv, CountersInv, Processes, WaitForPipeline
<1>2. /\ wake["outputs"] <= wake["clock"] /\ wake["outputs"] <= wake["inputs"]
      /\ wake' \in [Processes -> Nat]
      /\ wake'["outputs"] = wake["outputs"] + FirstCheck
      /\ wake'["clock"] = wake["clock"]
      /\ wake'["inputs"] = wake["inputs"]
  BY <1>0, <1>1, Sleeping DEF StepFacts, BenchInv, CountersInv, Processes, WaitForPipeline
<1>3. EdgeCount' = EdgeCount /\ (wake["outputs"] = 0 \/ outputLine = L)
  BY <1>2 DEF EdgeCount, L, WaitForPipeline
<1>4. CountersInv'
  BY <1>0, <1>2, CountersStep DEF BenchInv, CountersInv, WaitForPipeline
<1>5. ClockInv' /\ InputsInv' /\ OutputsInv'
  <2>1. ClockInv'
    BY <1>0, <1>2, <1>3 DEF StepFacts, BenchInv, ClockInv, WaitForPipeline
  <2>2. InputsInv'
    BY <1>0, <1>2, <1>3 DEF StepFacts, BenchInv, InputsInv, WaitForPipeline
  <2>3. OutputsInv'
    BY <1>0, <1>2, <1>3 DEF StepFacts, BenchInv, OutputsInv, WaitForPipeline
  <2> QED
    BY <2>1, <2>2, <2>3
<1>6. StageInv'
  BY <1>0, <1>3 DEF StepFacts, BenchInv, StageInv, Entered, WaitForPipeline
<1>7. ResetInv'
  BY <1>0, <1>2, <1>3 DEF StepFacts, BenchInv, ResetInv, InputsInv, WaitForPipeline
<1> QED
  BY <1>4, <1>5, <1>6, <1>7 DEF BenchInv

\* The heart of the matter: when the outputs are compared with the test case
\* of some rank, that one is at the end of the pipeline.
LEMMA OutputsAreExpected ==
  ASSUME Synchronized, BenchInv, CheckOutputs, NEW o \in Outputs
  PROVE  stage[outputCycle[o]] = outputLine + 1
<1>0. StepFacts /\ CountersInv
  BY Simulating DEF CheckOutputs, BenchInv
<1>1. wake["outputs"] <= wake["clock"] /\ wake["outputs"] <= wake["inputs"]
  BY DueIsEarliest DEF BenchInv, CountersInv, Processes, CheckOutputs
<1>2. wake["outputs"] = FirstCheck + 10 * outputLine
  BY <1>0 DEF StepFacts, BenchInv, OutputsInv, L, CheckOutputs
<1>3. outputLine + 1 \in 1 .. L
  BY <1>0 DEF StepFacts, L, CheckOutputs
<1>4. pipelineDepth \in Nat /\ outputCycle[o] = pipelineDepth
  BY <1>0, DepthOfAll, TestBenchAssumption
<1>5. CASE pipelineDepth = 0
  <2>1. FirstCheck = 12
    BY <1>0, <1>5, DepthOfAll
  <2>2. inputLine = outputLine + 1
    BY <1>0, <1>1, <1>2, <1>3, <2>1 DEF StepFacts, BenchInv, InputsInv
  <2> QED
    BY <1>4, <1>5, <2>2 DEF BenchInv, StageInv
<1>6. CASE pipelineDepth > 0
  <2>1. wake["outputs"] = 10 * (pipelineDepth + (outputLine + 1))
    BY <1>0, <1>2, <1>4, <1>6, DepthOfAll DEF StepFacts
  <2>2. wake["clock"] <= wake["outputs"] + 5
    BY DEF BenchInv, ClockInv
  <2>3. EdgeCount = pipelineDepth + (outputLine + 1)
    BY <1>0, <1>1, <1>4, <2>1, <2>2 DEF StepFacts, BenchInv, ClockInv
  <2>4. Entered(EdgeCount - pipelineDepth) = outputLine + 1
    BY <1>0, <1>3, <1>4, <2>3 DEF StepFacts, Entered
  <2> QED
    BY <1>0, <1>4, <1>6, <2>4, DepthOfAll, TestBenchAssumption DEF BenchInv, StageInv
<1> QED
  BY <1>4, <1>5, <1>6

LEMMA BenchCheckOutputs ==
  ASSUME Synchronized, BenchInv, CheckOutputs
  PROVE  BenchInv'
<1>0. UNCHANGED <<benchVars, generatorVars>> /\ ~generating /\ StepFacts
  BY Simulating DEF CheckOutputs, Due
<1>1. \A q \in Processes : wake["outputs"] <= wake[q]
  BY DueIsEarliest DEF BenchInv, CountersInv, Processes, CheckOutputs
<1>2. /\ wake["outputs"] <= wake["clock"] /\ wake["outputs"] <= wake["inputs"]
      /\ wake' \in [Processes -> Nat]
      /\ wake'["outputs"] = wake["outputs"] + 10
      /\ wake'["clock"] = wake["clock"]
      /\ wake'["inputs"] = wake["inputs"]
  BY <1>0, <1>1, Sleeping DEF StepFacts, BenchInv, CountersInv, Processes, CheckOutputs
<1>3. /\ EdgeCount' = EdgeCount
      /\ wake["outputs"] > 0 /\ wake["outputs"] = FirstCheck + 10 * outputLine
      /\ outputLine' = outputLine + 1 /\ outputLine < L
  BY <1>0, <1>2 DEF StepFacts, BenchInv, OutputsInv, EdgeCount, L, CheckOutputs
<1>4. CountersInv'
  <2>1. inputLine' \in 0 .. L /\ outputLine' \in 0 .. L
    BY <1>0, <1>3 DEF StepFacts, CheckOutputs
  <2> QED
    BY <1>0, <1>2, <2>1, CountersStep DEF BenchInv, CountersInv, CheckOutputs
<1>5. ClockInv' /\ InputsInv' /\ OutputsInv'
  <2>1. ClockInv'
    BY <1>0, <1>2, <1>3 DEF StepFacts, BenchInv, ClockInv, CheckOutputs
  <2>2. InputsInv'
    BY <1>0, <1>2, <1>3 DEF StepFacts, BenchInv, InputsInv, CheckOutputs
  <2>3. OutputsInv'
    BY <1>0, <1>2, <1>3 DEF StepFacts, OutputsInv
  <2> QED
    BY <2>1, <2>2, <2>3
<1>6. StageInv'
  BY <1>0, <1>3 DEF StepFacts, BenchInv, StageInv, Entered, CheckOutputs
<1>7. ResetInv'
  BY <1>0, <1>2, <1>3 DEF StepFacts, BenchInv, ResetInv, InputsInv, CheckOutputs
<1> QED
  BY <1>4, <1>5, <1>6, <1>7 DEF BenchInv

-----------------------------------------------------------------------------
(***************************************************************************)
(* The theorems.                                                           *)
(***************************************************************************)
LEMMA BenchInvariant ==
  ASSUME Synchronized
  PROVE  Spec => []BenchInv
<1>1. BenchInv /\ [Next]_vars => BenchInv'
  <2> SUFFICES ASSUME BenchInv, [Next]_vars PROVE BenchInv'
    OBVIOUS
  <2>1. CASE UNCHANGED vars
    <3>1. /\ FirstCheck' = FirstCheck /\ L' = L /\ EdgeCount' = EdgeCount
          /\ \A edge : Entered(edge)' = Entered(edge)
      BY <2>1 DEF vars, benchVars, generatorVars, simulationVars, FirstCheck, pipelineDepth, L,
                  EdgeCount, Entered
    <3>2. CountersInv' /\ ClockInv' /\ InputsInv' /\ OutputsInv' /\ ResetInv'
      BY <2>1, <3>1 DEF vars, benchVars, generatorVars, simulationVars, BenchInv, CountersInv,
                        ClockInv, InputsInv, OutputsInv, ResetInv
    <3>3. StageInv'
      BY <2>1, <3>1 DEF vars, simulationVars, BenchInv, StageInv
    <3> QED
      BY <3>2, <3>3 DEF BenchInv
  <2>2. CASE AddTestCase
    BY <2>2, BenchAddTest DEF AddTestCase
  <2>3. CASE AddExhaustiveTest
    BY <2>3, BenchAddTest DEF AddExhaustiveTest
  <2>4. CASE ClockFalls \/ ClockRises
    BY <2>4, BenchClockFalls, BenchClockRises
  <2>5. CASE SendReset \/ SetInputs \/ WaitForTheEnd
    BY <2>5, BenchSendReset, BenchSetInputs, BenchWaitForTheEnd
  <2>6. CASE WaitForPipeline \/ CheckOutputs
    BY <2>6, BenchWaitForPipeline, BenchCheckOutputs
  <2> QED
    BY <2>1, <2>2, <2>3, <2>4, <2>5, <2>6, BenchStart DEF Next
<1> QED
  BY <1>1, BenchInit, PTL DEF Spec

\* A correct operator whose outputs share their cycle is never reported wrong:
\* whatever its depth, the number of test cases and the order of the processes
\* due at the same nanosecond, each comparison sees its own test case.
THEOREM CorrectOperatorPasses ==
  ASSUME Synchronized
  PROVE  Spec => []NoFalseError
<1>1. Init => NoFalseError
  BY DEF Init, NoFalseError
<1>2. BenchInv /\ NoFalseError /\ [Next]_vars => NoFalseError'
  <2> SUFFICES ASSUME BenchInv, NoFalseError, [Next]_vars PROVE NoFalseError'
    OBVIOUS
  <2>1. CASE CheckOutputs
    <3>1. {o \in Outputs : stage[outputCycle[o]] # outputLine + 1} = {}
      BY <2>1, OutputsAreExpected
    <3>2. Cardinality({}) = 0
      BY FS_EmptySet
    <3>3. errorCounter' = errorCounter + 0
      BY <2>1, <3>1, <3>2 DEF CheckOutputs
    <3> QED
      BY <3>3 DEF NoFalseError
  <2>2. CASE ~CheckOutputs
    BY <2>2 DEF NoFalseError, Next, vars, simulationVars, AddTestCase, AddExhaustiveTest,
                StartSimulation, ClockFalls, ClockRises, SendReset, SetInputs, WaitForTheEnd,
                WaitForPipeline
  <2> QED
    BY <2>1, <2>2
<1> QED
  BY <1>1, <1>2, BenchInvariant, PTL DEF Spec

\* The operator sees exactly one rising edge of its reset, before the first
\* test case.
THEOREM ResetReachesOperator ==
  ASSUME Synchronized
  PROVE  Spec => []ResetIsClocked
<1>1. BenchInv => ResetIsClocked
  BY DEF BenchInv, ResetInv, ResetIsClocked, CountersInv
<1> QED
  BY <1>1, BenchInvariant, PTL
-----------------------------------------------------------------------------
(***************************************************************************)
(* The exhaustive test counts in mixed radix, the first input first.       *)
(***************************************************************************)
LEMMA WidthTypes ==
  ASSUME width \in Widths
  PROVE  /\ Len(width) \in Nat \ {0} /\ DOMAIN width = 1 .. Len(width)
         /\ \A i \in 1 .. Len(width) : Bound(i) \in Nat \ {0}
<1>1. width \in Seq(Nat \ {0}) /\ width # <<>>
  BY TestBenchAssumption
<1>2. Len(width) \in Nat \ {0} /\ DOMAIN width = 1 .. Len(width)
  BY <1>1
<1>3. \A i \in 1 .. Len(width) : width[i] \in Nat
  BY <1>1
<1> QED BY <1>2, <1>3, Pow2Def DEF Bound

\* The two recursive functions exist.
LEMMA NumberDef ==
  ASSUME width \in Widths
  PROVE  /\ NumberUpto[0] = 1
         /\ \A k \in 0 .. (Len(width) - 1) : NumberUpto[k + 1] = NumberUpto[k] * Bound(k + 1)
         /\ \A k \in 0 .. Len(width) : NumberUpto[k] \in Nat \ {0}
<1>1. PICK n \in Nat : n = Len(width)
  BY WidthTypes
<1>2. PICK b : /\ \A k \in Nat : b[k] \in Nat \ {0}
               /\ \A k \in 0 .. (n - 1) : b[k] = Bound(k + 1)
  <2> WITNESS [k \in Nat |-> IF k < n THEN Bound(k + 1) ELSE 1]
  <2>1. \A k \in 0 .. (n - 1) : k + 1 \in 1 .. n
    BY <1>1
  <2>2. \A k \in 0 .. (n - 1) : Bound(k + 1) \in Nat \ {0}
    BY <1>1, <2>1, WidthTypes
  <2>3. \A k \in Nat : k < n => k \in 0 .. (n - 1)
    BY <1>1
  <2> QED BY <2>2, <2>3
<1> DEFINE Positive == Nat \ {0}
           F == [p \in Positive \X Nat |-> p[1] * b[p[2]]]
<1>3. F \in [Positive \X Nat -> Positive] /\ 1 \in Positive
  <2>1. \A p \in Positive \X Nat : p[1] * b[p[2]] \in Positive
    <3> SUFFICES ASSUME NEW x \in Positive, NEW k \in Nat PROVE x * b[k] \in Positive
      OBVIOUS
    <3>1. b[k] \in Nat \ {0}
      BY <1>2
    <3> QED BY <3>1
  <2> QED BY <2>1
<1>4. PICK f : Iterates(Positive, 1, F, f)
  <2> HIDE DEF F, Positive
  <2> QED BY <1>3, Recursion
<1>5. f \in [Nat -> Positive] /\ f[0] = 1 /\ \A k \in Nat : f[k + 1] = f[k] * b[k]
  <2>1. \A k \in Nat : <<f[k], k>> \in Positive \X Nat
    BY <1>4 DEF Iterates
  <2> QED BY <1>4, <2>1 DEF Iterates
<1> HIDE DEF F, Positive
<1> DEFINE g == [k \in 0 .. n |-> f[k]]
<1>6. ASSUME NEW k \in 0 .. n
      PROVE  f[k] = IF k = 0 THEN 1 ELSE g[k - 1] * Bound(k)
  <2>1. CASE k = 0
    BY <1>5, <2>1
  <2>2. CASE k # 0
    <3>1. k - 1 \in Nat /\ k - 1 \in 0 .. (n - 1) /\ k - 1 \in 0 .. n /\ (k - 1) + 1 = k
      BY <1>1, <2>2
    <3>2. f[(k - 1) + 1] = f[k - 1] * b[k - 1] /\ b[k - 1] = Bound((k - 1) + 1)
      BY <1>2, <1>5, <3>1
    <3> QED BY <2>2, <3>1, <3>2
  <2> QED BY <2>1, <2>2
<1>7. g = [k \in 0 .. n |-> IF k = 0 THEN 1 ELSE g[k - 1] * Bound(k)]
  BY <1>6
<1>8. NumberUpto = [k \in 0 .. n |-> IF k = 0 THEN 1 ELSE NumberUpto[k - 1] * Bound(k)]
  <2> HIDE DEF g
  <2> QED BY <1>1, <1>7 DEF NumberUpto
<1>9. \A k \in 0 .. n : NumberUpto[k] = IF k = 0 THEN 1 ELSE NumberUpto[k - 1] * Bound(k)
  BY <1>8, Zenon
<1>10. ASSUME NEW k \in 0 .. (n - 1)
       PROVE  NumberUpto[k + 1] = NumberUpto[k] * Bound(k + 1)
  <2>1. k + 1 \in 0 .. n /\ k + 1 # 0 /\ k + 1 - 1 = k
    BY <1>1
  <2> QED BY <1>9, <2>1
<1>11. NumberUpto[0] = 1
  BY <1>1, <1>9
<1> DEFINE S == {k \in Nat : k <= n => NumberUpto[k] \in Nat \ {0}}
<1>12. 0 \in S
  BY <1>11
<1>13. ASSUME NEW k \in Nat, k \in S PROVE k + 1 \in S
  <2> SUFFICES ASSUME k + 1 <= n PROVE NumberUpto[k + 1] \in Nat \ {0}
    OBVIOUS
  <2>1. k \in 0 .. (n - 1) /\ k + 1 \in 1 .. n
    BY <1>1
  <2>2. PICK x \in Nat \ {0}, y \in Nat \ {0} : x = NumberUpto[k] /\ y = Bound(k + 1)
    <3>1. NumberUpto[k] \in Nat \ {0}
      BY <1>13, <2>1
    <3>2. Bound(k + 1) \in Nat \ {0}
      BY <1>1, <2>1, WidthTypes
    <3> QED BY <3>1, <3>2
  <2>3. NumberUpto[k + 1] = x * y
    BY <1>10, <2>1, <2>2
  <2>4. x * y \in Nat \ {0}
    OBVIOUS
  <2> QED BY <2>3, <2>4
<1>14. \A k \in Nat : k \in S
  <2> HIDE DEF S
  <2> QED BY <1>12, <1>13, Induction
<1> QED BY <1>1, <1>10, <1>11, <1>14

LEMMA CarryDef ==
  ASSUME width \in Widths
  PROVE  \A i \in 1 .. Len(width) :
           CarryInto[i] = IF i > 1 /\ Overflows(counters[i - 1] + CarryInto[i - 1], i - 1) THEN 1 ELSE 0
<1>1. PICK n \in Nat : n = Len(width) /\ DOMAIN width = 1 .. n
  BY WidthTypes
<1> DEFINE F == [p \in {0, 1} \X Nat |-> IF Overflows(counters[p[2] + 1] + p[1], p[2] + 1) THEN 1 ELSE 0]
<1>2. F \in [{0, 1} \X Nat -> {0, 1}] /\ 0 \in {0, 1}
  OBVIOUS
<1>3. PICK f : Iterates({0, 1}, 0, F, f)
  <2> HIDE DEF F
  <2> QED BY <1>2, Recursion
<1>4. /\ f \in [Nat -> {0, 1}] /\ f[0] = 0
      /\ \A k \in Nat : f[k + 1] = IF Overflows(counters[k + 1] + f[k], k + 1) THEN 1 ELSE 0
  <2>1. \A k \in Nat : <<f[k], k>> \in {0, 1} \X Nat
    BY <1>3 DEF Iterates
  <2> QED BY <1>3, <2>1 DEF Iterates
<1> HIDE DEF F
<1> DEFINE g == [i \in 1 .. n |-> f[i - 1]]
<1>5. ASSUME NEW i \in 1 .. n
      PROVE  f[i - 1] = IF i > 1 /\ Overflows(counters[i - 1] + g[i - 1], i - 1) THEN 1 ELSE 0
  <2>1. CASE i = 1
    BY <1>4, <2>1
  <2>2. CASE i # 1
    <3>1. i - 2 \in Nat /\ (i - 2) + 1 = i - 1 /\ i - 1 \in 1 .. n /\ (i - 1) - 1 = i - 2 /\ i > 1
      BY <1>1, <2>2
    <3>2. g[i - 1] = f[i - 2]
      BY <3>1
    <3>3. f[(i - 2) + 1] = IF Overflows(counters[(i - 2) + 1] + f[i - 2], (i - 2) + 1) THEN 1 ELSE 0
      BY <1>4, <3>1
    <3> HIDE DEF g
    <3> QED BY <3>1, <3>2, <3>3
  <2> QED BY <2>1, <2>2
<1>6. g = [i \in DOMAIN width |-> IF i > 1 /\ Overflows(counters[i - 1] + g[i - 1], i - 1) THEN 1 ELSE 0]
  BY <1>1, <1>5
<1>7. CarryInto = [i \in DOMAIN width |->
                     IF i > 1 /\ Overflows(counters[i - 1] + CarryInto[i - 1], i - 1) THEN 1 ELSE 0]
  <2> HIDE DEF g
  <2> QED BY <1>6, Zenon DEF CarryInto
<1> QED BY <1>1, <1>7, Zenon

\* The digits of a vector and their bounds; the rank of a vector when they are counted.
DigitsOf(v) == [k \in 0 .. (Len(width) - 1) |-> v[k + 1]]
Bounds == [k \in 0 .. (Len(width) - 1) |-> Bound(k + 1)]
Rank(v) == Mixed(DigitsOf(v), NumberUpto, Len(width))

VectorFits(v) ==
  /\ v \in [DOMAIN width -> Nat]
  /\ \A i \in DOMAIN width : v[i] < Bound(i)

\* The first counter, which is incremented after a test, may have to be carried.
CountersFit(v) ==
  /\ v \in [DOMAIN width -> Nat]
  /\ v[1] <= Bound(1)
  /\ \A i \in DOMAIN width : i > 1 => v[i] < Bound(i)

LEMMA RadixOfWidth ==
  ASSUME width \in Widths
  PROVE  /\ Radix(Bounds, NumberUpto, Len(width))
         /\ \A k \in 0 .. (Len(width) - 1) : Bounds[k] = Bound(k + 1)
<1>1. PICK n \in Nat \ {0} : n = Len(width)
  BY WidthTypes
<1>2. \A k \in 0 .. (n - 1) : Bounds[k] = Bound(k + 1)
  BY <1>1 DEF Bounds
<1>3. \A k \in 0 .. (n - 1) : Bounds[k] \in Nat \ {0}
  <2> SUFFICES ASSUME NEW k \in 0 .. (n - 1) PROVE Bound(k + 1) \in Nat \ {0}
    BY <1>2
  <2>1. k + 1 \in 1 .. n
    OBVIOUS
  <2> QED BY <1>1, <2>1, WidthTypes
<1>4. \A k \in 0 .. (n - 1) : NumberUpto[k + 1] = NumberUpto[k] * Bounds[k]
  BY <1>1, <1>2, NumberDef
<1> QED BY <1>1, <1>2, <1>3, <1>4, NumberDef DEF Radix

LEMMA DigitsFit ==
  ASSUME width \in Widths, NEW v, VectorFits(v)
  PROVE  /\ MixedDigits(DigitsOf(v), Bounds, Len(width))
         /\ \A k \in 0 .. (Len(width) - 1) : DigitsOf(v)[k] = v[k + 1]
<1>1. PICK n \in Nat \ {0} : n = Len(width) /\ DOMAIN width = 1 .. n
  BY WidthTypes
<1>2. \A k \in 0 .. (n - 1) : DigitsOf(v)[k] = v[k + 1]
  BY <1>1 DEF DigitsOf
<1>3. \A k \in 0 .. (n - 1) : k + 1 \in 1 .. n
  OBVIOUS
<1>4. \A k \in 0 .. (n - 1) : v[k + 1] \in Nat /\ v[k + 1] < Bound(k + 1)
  BY <1>1, <1>3 DEF VectorFits
<1>5. \A k \in 0 .. (n - 1) : Bounds[k] = Bound(k + 1)
  BY <1>1, RadixOfWidth
<1> QED BY <1>1, <1>2, <1>4, <1>5 DEF MixedDigits

\* The ranks of the vectors are below their number, and no two vectors have the same.
LEMMA RankBelow ==
  ASSUME width \in Widths, NEW v, VectorFits(v)
  PROVE  /\ Number \in Nat \ {0}
         /\ Rank(v) \in 0 .. (Number - 1)
<1>1. Number \in Nat \ {0} /\ Len(width) \in 0 .. Len(width)
  BY WidthTypes, NumberDef DEF Number
<1>2. Rank(v) \in 0 .. (NumberUpto[Len(width)] - 1)
  BY <1>1, RadixOfWidth, DigitsFit, MixedBelow DEF Rank, Mixed
<1> QED BY <1>1, <1>2 DEF Number

LEMMA RankInjective ==
  ASSUME width \in Widths, NEW u, VectorFits(u), NEW v, VectorFits(v), Rank(u) = Rank(v)
  PROVE  u = v
<1>1. PICK n \in Nat \ {0} : n = Len(width) /\ DOMAIN width = 1 .. n
  BY WidthTypes
<1>2. \A k \in 0 .. (n - 1) : DigitsOf(u)[k] = DigitsOf(v)[k]
  BY <1>1, RadixOfWidth, DigitsFit, MixedInjective DEF Rank
<1>3. ASSUME NEW i \in 1 .. n PROVE u[i] = v[i]
  <2>1. i - 1 \in 0 .. (n - 1) /\ i - 1 + 1 = i
    OBVIOUS
  <2>2. DigitsOf(u)[i - 1] = u[i - 1 + 1] /\ DigitsOf(v)[i - 1] = v[i - 1 + 1]
    BY <1>1, <2>1, DigitsFit
  <2> QED BY <1>2, <2>1, <2>2
<1> QED BY <1>1, <1>3 DEF VectorFits

\* The first vector is worth 0.
LEMMA RankOfZeros ==
  ASSUME width \in Widths
  PROVE  LET zeros == [i \in DOMAIN width |-> 0]
         IN  CountersFit(zeros) /\ VectorFits(zeros) /\ Rank(zeros) = 0
<1>1. PICK n \in Nat \ {0} : n = Len(width) /\ DOMAIN width = 1 .. n
  BY WidthTypes
<1>2. PICK z : z = [i \in DOMAIN width |-> 0] /\ \A i \in 1 .. n : z[i] = 0
  <2> WITNESS [i \in DOMAIN width |-> 0]
  <2> QED BY <1>1
<1>3. z \in [DOMAIN width -> Nat]
  BY <1>2
<1>4. \A i \in 1 .. n : z[i] < Bound(i) /\ z[i] <= Bound(i)
  BY <1>1, <1>2, WidthTypes
<1>5. CountersFit(z) /\ VectorFits(z)
  BY <1>1, <1>3, <1>4 DEF CountersFit, VectorFits
<1>6. PICK t : /\ t = MixedTerms(DigitsOf(z), NumberUpto, n)
               /\ \A k \in 0 .. (n - 1) : t[k] = DigitsOf(z)[k] * NumberUpto[k]
  <2> WITNESS MixedTerms(DigitsOf(z), NumberUpto, n)
  <2> QED BY Zenon DEF MixedTerms
<1>8. ASSUME NEW k \in 0 .. (n - 1) PROVE t[k] = 0
  <2>1. k + 1 \in 1 .. n /\ k \in 0 .. n
    OBVIOUS
  <2>2. DigitsOf(z)[k] = 0 /\ NumberUpto[k] \in Nat
    BY <1>1, <1>2, <1>5, <2>1, DigitsFit, NumberDef
  <2> QED BY <1>6, <2>2
<1>7. Rank(z) = 0
  BY <1>1, <1>6, <1>8, SumZero DEF Rank, Mixed
<1> QED BY <1>2, <1>5, <1>7

-----------------------------------------------------------------------------
(***************************************************************************)
(* One turn of the loop carries the counters without changing their rank.  *)
(***************************************************************************)
LEMMA CarriedFits ==
  ASSUME width \in Widths, CountersFit(counters)
  PROVE  /\ Carried \in [DOMAIN width -> Nat]
         /\ Rank(Carried) = Rank(counters)
         /\ \A i \in DOMAIN width : i < Len(width) => Carried[i] < Bound(i)
         /\ Carried[Len(width)] <= Bound(Len(width))
<1>1. PICK n \in Nat \ {0} : n = Len(width) /\ DOMAIN width = 1 .. n
  BY WidthTypes
<1>2. \A i \in 1 .. n : Bound(i) \in Nat \ {0} /\ counters[i] \in Nat
  BY <1>1, WidthTypes DEF CountersFit
<1>3. ASSUME NEW i \in 1 .. n
      PROVE  CarryInto[i] = IF i > 1 /\ Overflows(counters[i - 1] + CarryInto[i - 1], i - 1)
                            THEN 1 ELSE 0
  BY <1>1, CarryDef
<1>4. \A i \in 1 .. n : CarryInto[i] \in {0, 1} /\ (i = 1 => CarryInto[i] = 0)
  BY <1>3
<1>5. ASSUME NEW i \in 1 .. n PROVE counters[i] + CarryInto[i] <= Bound(i)
  <2>1. CASE i = 1
    BY <1>1, <1>2, <1>4, <2>1 DEF CountersFit
  <2>2. CASE i # 1
    <3>1. i > 1 /\ i \in DOMAIN width
      BY <1>1, <2>2
    <3>2. counters[i] < Bound(i)
      BY <3>1 DEF CountersFit
    <3> QED BY <1>2, <1>4, <3>2
  <2> QED BY <2>1, <2>2
<1>6. \A i \in 1 .. n : Carried[i] = IF i < n /\ Overflows(counters[i] + CarryInto[i], i)
                                     THEN 0 ELSE counters[i] + CarryInto[i]
  BY <1>1 DEF Carried
<1>7. Carried \in [DOMAIN width -> Nat]
  <2>1. \A i \in 1 .. n : Carried[i] \in Nat
    BY <1>2, <1>4, <1>6
  <2>2. Carried = [i \in DOMAIN width |-> Carried[i]]
    BY DEF Carried
  <2> QED BY <1>1, <2>1, <2>2
<1>8. ASSUME NEW i \in 1 .. n, i < n
      PROVE  /\ Carried[i] < Bound(i)
             /\ Carried[i] + CarryInto[i + 1] * Bound(i) = counters[i] + CarryInto[i]
  <2>1. i + 1 \in 1 .. n /\ i + 1 - 1 = i /\ i + 1 > 1
    BY <1>8
  <2>2. CarryInto[i + 1] = IF Overflows(counters[i] + CarryInto[i], i) THEN 1 ELSE 0
    BY <1>3, <2>1
  <2>3. PICK s \in Nat, m \in Nat \ {0} : s = counters[i] + CarryInto[i] /\ m = Bound(i) /\ s <= m
    BY <1>2, <1>4, <1>5
  <2>4. CASE Overflows(counters[i] + CarryInto[i], i)
    <3>1. s = m
      BY <2>3, <2>4 DEF Overflows
    <3>2. Carried[i] = 0 /\ CarryInto[i + 1] = 1
      BY <1>6, <1>8, <2>2, <2>4
    <3> QED BY <2>3, <3>1, <3>2
  <2>5. CASE ~Overflows(counters[i] + CarryInto[i], i)
    <3>1. s < m
      BY <2>3, <2>5 DEF Overflows
    <3>2. Carried[i] = s /\ CarryInto[i + 1] = 0
      BY <1>6, <1>8, <2>2, <2>3, <2>5
    <3> QED BY <2>3, <3>1, <3>2
  <2> QED BY <2>4, <2>5
<1>9. Carried[n] = counters[n] + CarryInto[n]
  BY <1>6
<1>10. Rank(Carried) = Rank(counters)
  <2>1. PICK y : \A k \in 0 .. (n - 1) : y[k] = CarryInto[k + 1]
    <3> WITNESS [k \in 0 .. (n - 1) |-> CarryInto[k + 1]]
    <3> QED OBVIOUS
  <2>2. PICK c : c = DigitsOf(counters) /\ \A k \in 0 .. (n - 1) : c[k] = counters[k + 1]
    <3> WITNESS DigitsOf(counters)
    <3> QED BY <1>1, Zenon DEF DigitsOf
  <2>3. PICK d : d = DigitsOf(Carried) /\ \A k \in 0 .. (n - 1) : d[k] = Carried[k + 1]
    <3> WITNESS DigitsOf(Carried)
    <3> QED BY <1>1, Zenon DEF DigitsOf
  <2>4. \A k \in 0 .. (n - 1) : k + 1 \in 1 .. n
    OBVIOUS
  <2>5. \A k \in 0 .. (n - 1) : c[k] \in Nat /\ d[k] \in Nat /\ y[k] \in {0, 1}
    <3>1. \A i \in 1 .. n : counters[i] \in Nat /\ Carried[i] \in Nat /\ CarryInto[i] \in {0, 1}
      BY <1>1, <1>2, <1>4, <1>7
    <3> QED BY <2>1, <2>2, <2>3, <2>4, <3>1
  <2>6. y[0] = 0
    <3>1. 0 \in 0 .. (n - 1) /\ 1 \in 1 .. n /\ 0 + 1 = 1
      OBVIOUS
    <3> QED BY <1>4, <2>1, <3>1
  <2>7. ASSUME NEW k \in 0 .. (n - 2)
        PROVE  d[k] + y[k + 1] * Bounds[k] = c[k] + y[k]
    <3>1. k \in 0 .. (n - 1) /\ k + 1 \in 0 .. (n - 1) /\ k + 1 \in 1 .. n /\ k + 1 < n
      OBVIOUS
    <3>2. Carried[k + 1] + CarryInto[(k + 1) + 1] * Bound(k + 1) = counters[k + 1] + CarryInto[k + 1]
      BY <1>8, <3>1
    <3>3. Bounds[k] = Bound(k + 1)
      BY <1>1, <3>1, RadixOfWidth
    <3> QED BY <2>1, <2>2, <2>3, <3>1, <3>2, <3>3
  <2>8. d[n - 1] = c[n - 1] + y[n - 1]
    <3>1. n - 1 \in 0 .. (n - 1) /\ n - 1 + 1 = n
      OBVIOUS
    <3> QED BY <1>9, <2>1, <2>2, <2>3, <3>1
  <2>9. CarriedDigits(c, d, y, Bounds, n)
    BY <2>5, <2>6, <2>7, <2>8 DEF CarriedDigits
  <2>10. Radix(Bounds, NumberUpto, n) /\ n # 0
    BY <1>1, RadixOfWidth
  <2>11. Mixed(d, NumberUpto, n) = Mixed(c, NumberUpto, n)
    BY <2>9, <2>10, MixedCarried
  <2> QED BY <1>1, <2>2, <2>3, <2>11 DEF Rank
<1>11. Carried[n] <= Bound(n)
  <2>1. n \in 1 .. n
    OBVIOUS
  <2> QED BY <1>5, <1>9, <2>1
<1> QED BY <1>1, <1>7, <1>8, <1>10, <1>11

\* The next test, when the last counter has not overflowed, and the counters after it.
LEMMA NextTestFits ==
  ASSUME width \in Widths, CountersFit(counters), ~LastOverflows
  PROVE  LET next == [Carried EXCEPT ![1] = @ + 1]
         IN  VectorFits(Carried) /\ CountersFit(next) /\ Rank(next) = Rank(Carried) + 1
<1>1. PICK n \in Nat \ {0} : n = Len(width) /\ DOMAIN width = 1 .. n
  BY WidthTypes
<1>2. Carried \in [DOMAIN width -> Nat] /\ \A i \in 1 .. n : i < n => Carried[i] < Bound(i)
  BY <1>1, CarriedFits
<1>3. Carried[n] < Bound(n)
  <2>1. n \in 1 .. n
    OBVIOUS
  <2>2. Carried[n] \in Nat /\ Bound(n) \in Nat
    BY <1>1, <1>2, <2>1, WidthTypes
  <2>3. ~(Carried[n] >= Bound(n))
    BY <1>1 DEF LastOverflows, Overflows
  <2> QED BY <2>2, <2>3
<1>4. \A i \in 1 .. n : Carried[i] < Bound(i)
  <2>1. \A i \in 1 .. n : i < n \/ i = n
    OBVIOUS
  <2> QED BY <1>2, <1>3, <2>1
<1>5. VectorFits(Carried)
  BY <1>1, <1>2, <1>4 DEF VectorFits
<1>6. PICK next : /\ next = [Carried EXCEPT ![1] = @ + 1]
                  /\ next \in [DOMAIN width -> Nat]
                  /\ next[1] = Carried[1] + 1
                  /\ \A i \in 1 .. n : i # 1 => next[i] = Carried[i]
  <2> WITNESS [Carried EXCEPT ![1] = @ + 1]
  <2>1. 1 \in 1 .. n
    OBVIOUS
  <2> QED BY <1>1, <1>2, <2>1
<1>7. CountersFit(next)
  <2>1. 1 \in 1 .. n
    OBVIOUS
  <2>2. Carried[1] \in Nat /\ Bound(1) \in Nat /\ Carried[1] < Bound(1)
    BY <1>1, <1>2, <1>4, <2>1, WidthTypes
  <2>3. \A i \in 1 .. n : i > 1 => i # 1
    OBVIOUS
  <2> QED BY <1>1, <1>4, <1>6, <2>2, <2>3 DEF CountersFit
<1>8. Rank(next) = Rank(Carried) + 1
  <2>1. PICK s : /\ s = MixedTerms(DigitsOf(Carried), NumberUpto, n)
                 /\ \A k \in 0 .. (n - 1) : s[k] = DigitsOf(Carried)[k] * NumberUpto[k]
    <3> WITNESS MixedTerms(DigitsOf(Carried), NumberUpto, n)
    <3> QED BY Zenon DEF MixedTerms
  <2>2. PICK t : /\ t = MixedTerms(DigitsOf(next), NumberUpto, n)
                 /\ \A k \in 0 .. (n - 1) : t[k] = DigitsOf(next)[k] * NumberUpto[k]
    <3> WITNESS MixedTerms(DigitsOf(next), NumberUpto, n)
    <3> QED BY Zenon DEF MixedTerms
  <2>3. \A k \in 0 .. (n - 1) : DigitsOf(Carried)[k] = Carried[k + 1] /\ DigitsOf(next)[k] = next[k + 1]
    BY <1>1 DEF DigitsOf
  <2>4. ASSUME NEW k \in 0 .. (n - 1)
        PROVE  /\ s[k] \in Int /\ t[k] \in Int
               /\ k # 0 => t[k] = s[k]
               /\ k = 0 => t[k] = s[k] + 1
    <3>1. k + 1 \in 1 .. n /\ k \in 0 .. n /\ (k # 0 <=> k + 1 # 1)
      OBVIOUS
    <3>2. PICK p \in Nat, c \in Nat, d \in Nat : p = NumberUpto[k] /\ c = Carried[k + 1] /\ d = next[k + 1]
      BY <1>1, <1>2, <1>6, <3>1, NumberDef
    <3>3. s[k] = c * p /\ t[k] = d * p
      BY <2>1, <2>2, <2>3, <3>2
    <3>4. c * p \in Int /\ d * p \in Int
      OBVIOUS
    <3>5. ASSUME k # 0 PROVE c = d
      BY <1>6, <3>1, <3>2, <3>5
    <3>6. ASSUME k = 0 PROVE p = 1 /\ d = c + 1
      <4>1. 0 + 1 = 1
        OBVIOUS
      <4> QED BY <1>6, <3>2, <3>6, <4>1, NumberDef
    <3>7. ASSUME k = 0 PROVE t[k] = s[k] + 1
      BY <3>3, <3>6, <3>7
    <3> QED BY <3>3, <3>4, <3>5, <3>7
  <2>5. 0 \in 0 .. (n - 1)
    OBVIOUS
  <2>6. SumBelow(t, n) = SumBelow(s, n) + (t[0] - s[0]) /\ SumBelow(s, n) \in Int
    <3>1. \A k \in 0 .. (n - 1) : s[k] \in Int /\ t[k] \in Int
      BY <2>4
    <3>2. \A k \in 0 .. (n - 1) : k # 0 => t[k] = s[k]
      BY <2>4
    <3> QED BY <2>5, <3>1, <3>2, SumUpdate, SumType
  <2>7. SumBelow(t, n) = SumBelow(s, n) + 1
    <3>1. s[0] \in Int /\ t[0] = s[0] + 1
      BY <2>4, <2>5
    <3> QED BY <2>6, <3>1
  <2> QED BY <1>1, <2>1, <2>2, <2>7 DEF Rank, Mixed
<1> QED BY <1>5, <1>6, <1>7, <1>8

\* When the last counter overflows, the rank has reached the number of vectors.
LEMMA LastOverflowRank ==
  ASSUME width \in Widths, CountersFit(counters), LastOverflows
  PROVE  Number <= Rank(counters)
<1>1. PICK n \in Nat \ {0} : n = Len(width) /\ DOMAIN width = 1 .. n
  BY WidthTypes
<1>2. PICK m \in Nat : m = n - 1 /\ m + 1 = n
  OBVIOUS
<1>3. Carried \in [1 .. n -> Nat] /\ Rank(Carried) = Rank(counters)
  BY <1>1, CarriedFits
<1>4. PICK t : /\ t = MixedTerms(DigitsOf(Carried), NumberUpto, n)
               /\ \A k \in 0 .. (n - 1) : t[k] = DigitsOf(Carried)[k] * NumberUpto[k]
  <2> WITNESS MixedTerms(DigitsOf(Carried), NumberUpto, n)
  <2> QED BY Zenon DEF MixedTerms
<1>5. ASSUME NEW k \in 0 .. (n - 1)
      PROVE  t[k] = Carried[k + 1] * NumberUpto[k] /\ t[k] \in Int /\ t[k] >= 0
  <2>1. k + 1 \in 1 .. n /\ k \in 0 .. n
    OBVIOUS
  <2>2. DigitsOf(Carried)[k] = Carried[k + 1]
    BY <1>1 DEF DigitsOf
  <2>3. PICK c \in Nat, p \in Nat : c = Carried[k + 1] /\ p = NumberUpto[k]
    BY <1>1, <1>3, <2>1, NumberDef
  <2>4. c * p \in Nat
    OBVIOUS
  <2> QED BY <1>4, <2>2, <2>3, <2>4
<1>6. SumBelow(t, m) \in Nat
  BY <1>2, <1>5, SumType
<1>7. SumBelow(t, n) = SumBelow(t, m) + t[m]
  BY <1>2, SumDef
<1>8. PICK c \in Nat, p \in Nat, a \in Nat :
        c = Carried[n] /\ p = NumberUpto[m] /\ a = Bound(n) /\ Number = p * a /\ t[m] = c * p
  <2>1. n \in 1 .. n /\ m \in 0 .. (n - 1) /\ m \in 0 .. n
    BY <1>2
  <2>2. Carried[n] \in Nat /\ NumberUpto[m] \in Nat /\ Bound(n) \in Nat
    BY <1>1, <1>3, <2>1, NumberDef, WidthTypes
  <2>3. Number = NumberUpto[m] * Bound(n)
    <3>1. NumberUpto[m + 1] = NumberUpto[m] * Bound(m + 1)
      BY <1>1, <2>1, NumberDef
    <3> QED BY <1>1, <1>2, <3>1 DEF Number
  <2>4. t[m] = Carried[n] * NumberUpto[m]
    BY <1>2, <1>5, <2>1
  <2> QED BY <2>2, <2>3, <2>4
<1>9. a <= c
  BY <1>1, <1>8 DEF LastOverflows, Overflows
<1>10. p * a <= c * p
  <2>1. PICK e \in Nat : c = a + e
    <3>1. c - a \in Nat /\ c = a + (c - a)
      BY <1>9
    <3> QED BY <3>1
  <2>2. (a + e) * p = p * a + e * p /\ e * p \in Nat /\ p * a \in Nat
    OBVIOUS
  <2> QED BY <2>1, <2>2
<1>11. p * a \in Nat /\ c * p \in Nat
  OBVIOUS
<1>12. Rank(counters) = SumBelow(t, m) + c * p
  BY <1>1, <1>3, <1>4, <1>7, <1>8 DEF Rank, Mixed
<1> QED BY <1>6, <1>8, <1>10, <1>11, <1>12

-----------------------------------------------------------------------------
(***************************************************************************)
(* The tests generated so far, for an exhaustive test the first ranks.     *)
(***************************************************************************)
RanksInv ==
  /\ \A k \in DOMAIN tests : Rank(tests[k]) = k - 1
  /\ generating => CountersFit(counters) /\ Rank(counters) = Len(tests)
  /\ ~generating => Len(tests) = Number /\ simulationTime = SimulationTime

GeneratorInv ==
  /\ exhaustive \in BOOLEAN /\ generating \in BOOLEAN
  /\ width \in Widths
  /\ outputCycle \in [Outputs -> 0 .. MaxDepth]
  /\ tests \in Seq([DOMAIN width -> Nat])
  /\ \A k \in DOMAIN tests : VectorFits(tests[k])
  /\ ~exhaustive => VectorFits(counters)
  /\ exhaustive => RanksInv

LEMMA GeneratorInit == Init => GeneratorInv
<1> SUFFICES ASSUME Init PROVE GeneratorInv
  OBVIOUS
<1>1. CountersFit(counters) /\ VectorFits(counters) /\ Rank(counters) = 0
  BY RankOfZeros DEF Init
<1>2. tests = <<>> /\ Len(tests) = 0 /\ DOMAIN tests = {} /\ generating = TRUE
  BY DEF Init
<1>3. RanksInv
  BY <1>1, <1>2 DEF RanksInv
<1>4. tests \in Seq([DOMAIN width -> Nat])
  BY <1>2
<1> QED BY <1>1, <1>2, <1>3, <1>4 DEF Init, GeneratorInv

\* Nothing else than the tests is generated.
LEMMA GeneratorUnchanged ==
  ASSUME GeneratorInv, UNCHANGED <<benchVars, generatorVars>>
  PROVE  GeneratorInv'
<1>1. /\ Len(tests)' = Len(tests) /\ Number' = Number /\ SimulationTime' = SimulationTime
      /\ \A v : CountersFit(v)' = CountersFit(v)
      /\ \A v : VectorFits(v)' = VectorFits(v)
      /\ \A v : Rank(v)' = Rank(v)
  <2>1. NumberUpto' = NumberUpto
    BY Zenon DEF NumberUpto, Bound, benchVars
  <2>2. \A i : Bound(i)' = Bound(i)
    BY DEF Bound, benchVars
  <2>3. Number' = Number /\ Len(tests)' = Len(tests)
    BY <2>1 DEF Number, benchVars, generatorVars
  <2>4. SimulationTime' = SimulationTime
    BY <2>3 DEF SimulationTime, FirstCheck, pipelineDepth, benchVars, generatorVars
  <2>5. \A v : CountersFit(v)' = CountersFit(v) /\ VectorFits(v)' = VectorFits(v)
    BY <2>2 DEF CountersFit, VectorFits, benchVars
  <2>6. \A v : Rank(v)' = Rank(v)
    BY <2>1 DEF Rank, DigitsOf, benchVars
  <2> QED BY <2>3, <2>4, <2>5, <2>6
<1> QED BY <1>1 DEF GeneratorInv, RanksInv, benchVars, generatorVars

\* One more test, which keeps the constants of the count.
LEMMA GeneratorAppend ==
  ASSUME GeneratorInv, generating, NEW test, VectorFits(test), tests' = Append(tests, test),
         UNCHANGED <<benchVars, generating>>,
         ~exhaustive => counters' = counters,
         exhaustive => Rank(test) = Len(tests) /\ CountersFit(counters') /\ Rank(counters') = Len(tests) + 1
  PROVE  GeneratorInv'
<1>1. /\ \A v : CountersFit(v)' = CountersFit(v)
      /\ \A v : VectorFits(v)' = VectorFits(v)
      /\ \A v : Rank(v)' = Rank(v)
  <2>1. NumberUpto' = NumberUpto
    BY Zenon DEF NumberUpto, Bound, benchVars
  <2>2. \A i : Bound(i)' = Bound(i)
    BY DEF Bound, benchVars
  <2>3. \A v : CountersFit(v)' = CountersFit(v) /\ VectorFits(v)' = VectorFits(v)
    BY <2>2 DEF CountersFit, VectorFits, benchVars
  <2>4. \A v : Rank(v)' = Rank(v)
    BY <2>1 DEF Rank, DigitsOf, benchVars
  <2> QED BY <2>3, <2>4
<1>2. PICK n \in Nat : n = Len(tests) /\ DOMAIN tests = 1 .. n
  BY DEF GeneratorInv
<1>3. /\ tests' \in Seq([DOMAIN width -> Nat])
      /\ Len(tests') = n + 1 /\ DOMAIN tests' = 1 .. (n + 1)
      /\ tests'[n + 1] = test
      /\ \A k \in 1 .. n : tests'[k] = tests[k]
  <2>1. test \in [DOMAIN width -> Nat] /\ tests \in Seq([DOMAIN width -> Nat])
    BY DEF VectorFits, GeneratorInv
  <2> QED BY <1>2, <2>1
<1>4. \A k \in 1 .. (n + 1) : k \in 1 .. n \/ k = n + 1
  OBVIOUS
<1>5. ASSUME NEW k \in 1 .. (n + 1) PROVE VectorFits(tests'[k])
  <2>1. CASE k \in 1 .. n
    BY <1>2, <1>3, <2>1 DEF GeneratorInv
  <2>2. CASE k = n + 1
    BY <1>3, <2>2
  <2> QED BY <1>4, <2>1, <2>2
<1>6. ASSUME exhaustive, NEW k \in 1 .. (n + 1) PROVE Rank(tests'[k]) = k - 1
  <2>1. CASE k \in 1 .. n
    <3>1. Rank(tests[k]) = k - 1
      BY <1>2, <1>6, <2>1 DEF GeneratorInv, RanksInv
    <3> QED BY <1>3, <2>1, <3>1
  <2>2. CASE k = n + 1
    BY <1>2, <1>3, <1>6, <2>2
  <2> QED BY <1>4, <2>1, <2>2
<1>7. exhaustive => RanksInv'
  <2> SUFFICES ASSUME exhaustive PROVE RanksInv'
    OBVIOUS
  <2>1. Len(tests)' = n + 1
    BY <1>3
  <2>2. CountersFit(counters)' /\ Rank(counters)' = n + 1
    <3>1. CountersFit(counters') /\ Rank(counters') = n + 1
      BY <1>2
    <3> QED BY <1>1, <3>1
  <2>3. \A k \in DOMAIN tests' : Rank(tests[k])' = k - 1
    BY <1>1, <1>3, <1>6
  <2> QED BY <2>1, <2>2, <2>3 DEF RanksInv
<1>8. \A k \in DOMAIN tests' : VectorFits(tests[k])'
  BY <1>1, <1>3, <1>5
<1>9. ~exhaustive => VectorFits(counters)'
  BY <1>1 DEF GeneratorInv
<1> QED BY <1>3, <1>7, <1>8, <1>9 DEF GeneratorInv, benchVars

LEMMA GeneratorStep == GeneratorInv /\ [Next]_vars => GeneratorInv'
<1> SUFFICES ASSUME GeneratorInv, [Next]_vars PROVE GeneratorInv'
  OBVIOUS
<1>1. CASE AddTestCase
  <2>1. VectorFits(counters) /\ ~exhaustive
    BY <1>1 DEF AddTestCase, GeneratorInv
  <2> QED BY <1>1, <2>1, GeneratorAppend DEF AddTestCase
<1>2. CASE AddExhaustiveTest
  <2>1. /\ exhaustive /\ generating /\ width \in Widths /\ ~LastOverflows
        /\ CountersFit(counters) /\ Rank(counters) = Len(tests)
    BY <1>2 DEF AddExhaustiveTest, GeneratorInv, RanksInv
  <2>2. VectorFits(Carried) /\ Rank(Carried) = Len(tests)
    BY <2>1, NextTestFits, CarriedFits
  <2>3. CountersFit(counters') /\ Rank(counters') = Len(tests) + 1
    <3>1. counters' = [Carried EXCEPT ![1] = @ + 1]
      BY <1>2 DEF AddExhaustiveTest
    <3> QED BY <2>1, <2>2, <3>1, NextTestFits
  <2> QED BY <1>2, <2>1, <2>2, <2>3, GeneratorAppend DEF AddExhaustiveTest
<1>3. CASE StartSimulation
  <2>1. generating' = FALSE /\ simulationTime' = SimulationTime
    BY <1>3 DEF StartSimulation
  <2>2. UNCHANGED <<benchVars, counters, tests>>
    BY <1>3 DEF StartSimulation
  <2>3. /\ Len(tests)' = Len(tests) /\ Number' = Number /\ SimulationTime' = SimulationTime
        /\ \A v : VectorFits(v)' = VectorFits(v)
        /\ \A v : Rank(v)' = Rank(v)
    <3>1. NumberUpto' = NumberUpto
      BY <2>2, Zenon DEF NumberUpto, Bound, benchVars
    <3>2. \A i : Bound(i)' = Bound(i)
      BY <2>2 DEF Bound, benchVars
    <3>3. Number' = Number /\ Len(tests)' = Len(tests)
      BY <2>2, <3>1 DEF Number, benchVars
    <3>4. SimulationTime' = SimulationTime
      BY <2>2, <3>3 DEF SimulationTime, FirstCheck, pipelineDepth, benchVars
    <3>5. \A v : VectorFits(v)' = VectorFits(v)
      BY <2>2, <3>2 DEF VectorFits, benchVars
    <3>6. \A v : Rank(v)' = Rank(v)
      BY <2>2, <3>1 DEF Rank, DigitsOf, benchVars
    <3> QED BY <3>3, <3>4, <3>5, <3>6
  <2>4. exhaustive => Len(tests) = Number
    <3> SUFFICES ASSUME exhaustive PROVE Len(tests) = Number
      OBVIOUS
    <3>1. /\ width \in Widths /\ LastOverflows /\ CountersFit(counters)
          /\ Rank(counters) = Len(tests)
          /\ \A k \in DOMAIN tests : Rank(tests[k]) = k - 1
      BY <1>3 DEF StartSimulation, GeneratorInv, RanksInv
    <3>2. Number <= Len(tests) /\ Number \in Nat \ {0}
      BY <3>1, LastOverflowRank, WidthTypes, NumberDef DEF Number
    <3>3. Len(tests) \in Nat /\ Len(tests) \in DOMAIN tests
      <4>1. tests \in Seq([DOMAIN width -> Nat])
        BY DEF GeneratorInv
      <4> QED BY <3>2, <4>1
    <3>4. Rank(tests[Len(tests)]) = Len(tests) - 1
      BY <3>1, <3>3
    <3>5. Rank(tests[Len(tests)]) \in 0 .. (Number - 1)
      BY <3>1, <3>3, RankBelow DEF GeneratorInv
    <3> QED BY <3>2, <3>3, <3>4, <3>5
  <2>5. exhaustive => RanksInv'
    BY <2>1, <2>2, <2>3, <2>4 DEF GeneratorInv, RanksInv
  <2> QED BY <2>1, <2>2, <2>3, <2>5 DEF GeneratorInv, benchVars
<1>4. CASE ~(AddTestCase \/ AddExhaustiveTest \/ StartSimulation)
  <2>1. UNCHANGED <<benchVars, generatorVars>>
    BY <1>4 DEF Next, vars, ClockFalls, ClockRises, SendReset, SetInputs, WaitForTheEnd,
                WaitForPipeline, CheckOutputs
  <2> QED BY <2>1, GeneratorUnchanged
<1> QED BY <1>1, <1>2, <1>3, <1>4

LEMMA GeneratorInvariant == Spec => []GeneratorInv
<1> QED BY GeneratorInit, GeneratorStep, PTL DEF Spec

-----------------------------------------------------------------------------
\* A vector fits when it is one of the combinations of the inputs.
LEMMA InputVectorsFit ==
  ASSUME width \in Widths
  PROVE  InputVectors = {v \in [DOMAIN width -> Nat] : VectorFits(v)}
<1>1. PICK n \in Nat \ {0} : n = Len(width) /\ DOMAIN width = 1 .. n
  BY WidthTypes
<1>2. \A i \in 1 .. n : Bound(i) \in Nat
  BY <1>1, WidthTypes
<1> DEFINE T == {Bound(i) : i \in DOMAIN width}
           M == Max(T)
<1>3. M \in T /\ \A y \in T : M >= y
  <2>1. PICK f : \A i \in 1 .. n : f[i] = Bound(i)
    <3> WITNESS [i \in 1 .. n |-> Bound(i)]
    <3> QED OBVIOUS
  <2>2. PICK j \in 1 .. n : \A i \in 1 .. n : f[i] <= f[j]
    <3>1. \A i \in 1 .. n : f[i] \in Nat
      BY <1>2, <2>1
    <3> QED BY <3>1, GreatestTerm
  <2>3. Bound(j) \in T /\ \A y \in T : Bound(j) >= y
    BY <1>1, <1>2, <2>1, <2>2
  <2> HIDE DEF T
  <2> QED BY <2>3 DEF Max
<1>4. \A i \in 1 .. n : Bound(i) <= M /\ M \in Nat
  BY <1>1, <1>2, <1>3
<1>5. InputVectors = {v \in [DOMAIN width -> 0 .. M] : \A i \in DOMAIN width : v[i] < Bound(i)}
  BY DEF InputVectors
<1> HIDE DEF M, T
<1>6. ASSUME NEW v \in [DOMAIN width -> Nat], VectorFits(v) PROVE v \in InputVectors
  <2>1. \A i \in 1 .. n : v[i] \in Nat /\ v[i] < Bound(i)
    BY <1>1, <1>6 DEF VectorFits
  <2>2. \A i \in 1 .. n : v[i] \in 0 .. M
    BY <1>2, <1>4, <2>1
  <2> QED BY <1>1, <1>5, <2>1, <2>2
<1>7. ASSUME NEW v \in InputVectors PROVE v \in [DOMAIN width -> Nat] /\ VectorFits(v)
  BY <1>1, <1>4, <1>5, <1>7 DEF VectorFits
<1> QED BY <1>6, <1>7

\* An exhaustive test has each combination of the inputs exactly once, for every
\* number of inputs and all their widths: as many tests as combinations, and they
\* count, in mixed radix, without a repetition.
THEOREM ExhaustiveIsExhaustive == Spec => []ExhaustiveTestIsExhaustive
<1>1. GeneratorInv => ExhaustiveTestIsExhaustive
  <2> SUFFICES ASSUME GeneratorInv, exhaustive, ~generating
               PROVE  {tests[i] : i \in DOMAIN tests} = InputVectors /\ Len(tests) = Number
    BY DEF ExhaustiveTestIsExhaustive
  <2>1. /\ width \in Widths /\ Len(tests) = Number
        /\ \A k \in DOMAIN tests : Rank(tests[k]) = k - 1 /\ VectorFits(tests[k])
    BY DEF GeneratorInv, RanksInv
  <2>2. DOMAIN tests = 1 .. Number
    <3>1. tests \in Seq([DOMAIN width -> Nat])
      BY DEF GeneratorInv
    <3> QED BY <2>1, <3>1
  <2>3. InputVectors = {v \in [DOMAIN width -> Nat] : VectorFits(v)}
    BY <2>1, InputVectorsFit
  <2>4. ASSUME NEW v \in InputVectors PROVE \E k \in DOMAIN tests : v = tests[k]
    <3>1. VectorFits(v)
      BY <2>3
    <3>2. PICK r : r = Rank(v) /\ Number \in Nat /\ r \in 0 .. (Number - 1)
      BY <2>1, <3>1, RankBelow
    <3>3. PICK k \in DOMAIN tests : k - 1 = r
      <4>1. r + 1 \in DOMAIN tests /\ (r + 1) - 1 = r
        BY <2>2, <3>2
      <4> QED BY <4>1
    <3>4. Rank(tests[k]) = Rank(v) /\ VectorFits(tests[k])
      <4>1. Rank(tests[k]) = k - 1 /\ VectorFits(tests[k])
        BY <2>1
      <4> QED BY <3>2, <3>3, <4>1
    <3>5. v = tests[k]
      BY <2>1, <3>1, <3>4, RankInjective
    <3> QED BY <3>5
  <2>5. \A k \in DOMAIN tests : tests[k] \in InputVectors
    BY <2>1, <2>3 DEF VectorFits
  <2> QED BY <2>1, <2>4, <2>5
<1> QED BY <1>1, GeneratorInvariant, PTL

\* The depth of the pipeline, whatever the cycles of the outputs.
LEMMA DepthType ==
  ASSUME outputCycle \in [Outputs -> 0 .. MaxDepth]
  PROVE  pipelineDepth \in 0 .. MaxDepth
<1> DEFINE T == {outputCycle[o] : o \in Outputs}
<1>1. T \in SUBSET (0 .. MaxDepth) /\ T # {} /\ MaxDepth \in Nat
  BY TestBenchAssumption
<1>2. PICK x \in T : \A y \in T : y <= x
  <2> HIDE DEF T
  <2> QED BY <1>1, GreatestNatural
<1>3. \A y \in T : x >= y
  BY <1>1, <1>2
<1>4. Max(T) \in T
  <2> HIDE DEF T
  <2> QED BY <1>3 DEF Max
<1> QED BY <1>1, <1>4 DEF pipelineDepth

\* What every step keeps when only the simulation advances.
LEMMA SimulationTypes ==
  ASSUME TypeOK, UNCHANGED <<benchVars, generatorVars>>,
         wake' \in [Processes -> Nat],
         clk' \in {0, 1}, rst' \in {0, 1},
         inputLine' \in 0 .. Len(tests), outputLine' \in 0 .. Len(tests),
         stage' \in [0 .. MaxDepth -> 0 .. Len(tests)],
         clockedReset' \in Nat, errorCounter' \in Nat
  PROVE  TypeOK'
<1>1. Len(tests)' = Len(tests) /\ \A j : Bound(j)' = Bound(j)
  BY DEF Bound, benchVars, generatorVars
<1> QED BY <1>1 DEF TypeOK, benchVars, generatorVars

LEMMA TypeInit == Init => TypeOK
<1> SUFFICES ASSUME Init PROVE TypeOK
  OBVIOUS
<1>1. tests = <<>> /\ Len(tests) = 0
  BY DEF Init
<1> QED BY <1>1 DEF Init, TypeOK

LEMMA TypeStep == TypeOK /\ GeneratorInv /\ GeneratorInv' /\ [Next]_vars => TypeOK'
<1> SUFFICES ASSUME TypeOK, GeneratorInv, GeneratorInv', [Next]_vars PROVE TypeOK'
  OBVIOUS
<1>1. pipelineDepth \in Nat /\ FirstCheck \in Nat
  <2>1. pipelineDepth \in Nat
    BY DepthType, TestBenchAssumption DEF TypeOK
  <2> QED BY <2>1 DEF FirstCheck
<1>2. Len(tests) \in Nat /\ wake \in [Processes -> Nat]
  BY DEF TypeOK
<1>3. ASSUME NEW test, tests' = Append(tests, test), UNCHANGED simulationVars,
             UNCHANGED <<benchVars, generating, simulationTime>>
      PROVE  TypeOK'
  <2>1. /\ tests' \in Seq([DOMAIN width' -> Nat])
        /\ \A i \in DOMAIN tests' : \A j \in DOMAIN width' : tests'[i][j] < Bound(j)'
    BY DEF GeneratorInv, VectorFits
  <2>2. Len(tests)' = Len(tests) + 1
    BY <1>3 DEF TypeOK
  <2>3. /\ inputLine' \in 0 .. (Len(tests) + 1) /\ outputLine' \in 0 .. (Len(tests) + 1)
        /\ stage' \in [0 .. MaxDepth -> 0 .. (Len(tests) + 1)]
    <3>1. \A x \in 0 .. Len(tests) : x \in 0 .. (Len(tests) + 1)
      BY <1>2
    <3>2. inputLine \in 0 .. Len(tests) /\ outputLine \in 0 .. Len(tests)
          /\ stage \in [0 .. MaxDepth -> 0 .. Len(tests)]
      BY DEF TypeOK
    <3> QED BY <1>3, <3>1, <3>2 DEF simulationVars
  <2> QED BY <1>3, <2>1, <2>2, <2>3 DEF TypeOK, benchVars, simulationVars
<1>4. CASE AddTestCase
  BY <1>3, <1>4 DEF AddTestCase
<1>5. CASE AddExhaustiveTest
  BY <1>3, <1>5 DEF AddExhaustiveTest
<1>6. CASE StartSimulation
  <2>1. SimulationTime \in Nat
    <3>1. Number \in Nat
      BY WidthTypes, NumberDef DEF TypeOK, Number
    <3> QED BY <1>1, <1>2, <3>1 DEF SimulationTime
  <2>2. Len(tests)' = Len(tests) /\ \A j : Bound(j)' = Bound(j)
    BY <1>6 DEF StartSimulation, Bound, benchVars
  <2> QED BY <1>6, <2>1, <2>2 DEF StartSimulation, TypeOK, benchVars, simulationVars
<1>7. ASSUME NEW p \in Processes, NEW ns \in Nat, Sleep(p, ns)
      PROVE  wake' \in [Processes -> Nat]
  BY <1>2, <1>7, Sleeping
<1>8. "clock" \in Processes /\ "inputs" \in Processes /\ "outputs" \in Processes
  BY DEF Processes
<1>9. CASE ClockFalls
  <2>1. wake' \in [Processes -> Nat]
    BY <1>7, <1>8, <1>9 DEF ClockFalls
  <2> QED BY <1>9, <2>1, SimulationTypes DEF ClockFalls, TypeOK
<1>10. CASE ClockRises
  <2>1. wake' \in [Processes -> Nat]
    BY <1>7, <1>8, <1>10 DEF ClockRises
  <2>2. stage' \in [0 .. MaxDepth -> 0 .. Len(tests)]
    <3>1. stage \in [0 .. MaxDepth -> 0 .. Len(tests)] /\ DOMAIN stage = 0 .. MaxDepth
      BY DEF TypeOK
    <3>2. 0 \in 0 .. MaxDepth /\ \A c \in 0 .. MaxDepth : c # 0 => c - 1 \in 0 .. MaxDepth
      BY TestBenchAssumption
    <3>3. stage' = [c \in 0 .. MaxDepth |-> IF c = 0 THEN stage[0] ELSE stage[c - 1]]
      BY <1>10, <3>1 DEF ClockRises
    <3> QED BY <3>1, <3>2, <3>3
  <2>3. clockedReset' \in Nat
    BY <1>10 DEF ClockRises, TypeOK
  <2> QED BY <1>10, <2>1, <2>2, <2>3, SimulationTypes DEF ClockRises, TypeOK
<1>11. CASE SendReset
  <2>1. wake' \in [Processes -> Nat]
    BY <1>7, <1>8, <1>11 DEF SendReset, ResetTime
  <2> QED BY <1>11, <2>1, SimulationTypes DEF SendReset, TypeOK
<1>12. CASE SetInputs
  <2>1. wake' \in [Processes -> Nat]
    BY <1>7, <1>8, <1>12 DEF SetInputs
  <2>2. inputLine' \in 0 .. Len(tests) /\ inputLine' = inputLine + 1
    BY <1>2, <1>12 DEF SetInputs, TypeOK
  <2>3. stage' \in [0 .. MaxDepth -> 0 .. Len(tests)]
    BY <1>12, <2>2 DEF SetInputs, TypeOK
  <2> QED BY <1>12, <2>1, <2>2, <2>3, SimulationTypes DEF SetInputs, TypeOK
<1>13. CASE WaitForTheEnd
  <2>1. wake' \in [Processes -> Nat]
    BY <1>7, <1>8, <1>13 DEF WaitForTheEnd
  <2> QED BY <1>13, <2>1, SimulationTypes DEF WaitForTheEnd, TypeOK
<1>14. CASE WaitForPipeline
  <2>1. wake' \in [Processes -> Nat]
    BY <1>1, <1>7, <1>8, <1>14 DEF WaitForPipeline
  <2> QED BY <1>14, <2>1, SimulationTypes DEF WaitForPipeline, TypeOK
<1>15. CASE CheckOutputs
  <2>1. wake' \in [Processes -> Nat]
    BY <1>7, <1>8, <1>15 DEF CheckOutputs
  <2>2. outputLine' \in 0 .. Len(tests)
    BY <1>2, <1>15 DEF CheckOutputs, TypeOK
  <2>3. errorCounter' \in Nat
    <3> DEFINE wrong == {o \in Outputs : stage[outputCycle[o]] # outputLine + 1}
    <3>1. IsFiniteSet(Outputs) /\ wrong \subseteq Outputs
      BY TestBenchAssumption
    <3>2. Cardinality(wrong) \in Nat
      <4> HIDE DEF wrong
      <4> QED BY <3>1, FS_Subset, FS_CardinalityType
    <3> QED BY <1>15, <3>2 DEF CheckOutputs, TypeOK
  <2> QED BY <1>15, <2>1, <2>2, <2>3, SimulationTypes DEF CheckOutputs, TypeOK
<1>16. CASE UNCHANGED vars
  <2>1. UNCHANGED <<benchVars, generatorVars, simulationVars>>
    BY <1>16 DEF vars
  <2> QED BY <2>1, SimulationTypes DEF simulationVars, TypeOK
<1> QED BY <1>4, <1>5, <1>6, <1>9, <1>10, <1>11, <1>12, <1>13, <1>14, <1>15, <1>16 DEF Next

\* Every variable of a generated test bench keeps its type, and every generated
\* test fits the inputs.
THEOREM BenchTypeCorrect == Spec => []TypeOK
<1> QED BY TypeInit, TypeStep, GeneratorInvariant, PTL DEF Spec

\* The simulation, of listed test cases or of an exhaustive test, is not stopped
\* before the last comparison.  (Number is unbounded here; the code has it in an
\* int, so that this holds of exhaustive tests whose stop time fits one.)
THEOREM NoTestIsSkipped ==
  ASSUME Synchronized
  PROVE  Spec => []EveryTestCompared
<1>1. BenchInv /\ GeneratorInv => EveryTestCompared
  <2> SUFFICES ASSUME BenchInv, GeneratorInv, Stopped PROVE outputLine = L
    BY DEF EveryTestCompared, L
  <2>0. /\ pipelineDepth \in Nat /\ FirstCheck \in Nat
        /\ FirstCheck <= 12 + 10 * pipelineDepth
    BY DepthOfAll, TestBenchAssumption DEF BenchInv
  <2>1. /\ L \in Nat
        /\ wake["outputs"] \in Nat /\ outputLine \in 0 .. L
    BY DEF BenchInv, CountersInv, L, Processes
  <2>2. simulationTime \in Nat /\ FirstCheck + 10 * L <= simulationTime
    <3>1. CASE exhaustive
      <4>1. simulationTime = SimulationTime /\ L = Number
        BY <3>1 DEF GeneratorInv, RanksInv, Stopped, L
      <4>2. simulationTime = 12 + 10 * L + 10 * pipelineDepth
        BY <2>0, <2>1, <3>1, <4>1 DEF SimulationTime
      <4> QED BY <2>0, <2>1, <4>2
    <3>2. CASE ~exhaustive
      BY <2>0, <2>1, <3>2 DEF BenchInv, CountersInv, Stopped
    <3> QED BY <3>1, <3>2
  <2>3. wake["outputs"] > FirstCheck + 10 * L
    <3>1. wake["outputs"] > simulationTime
      BY DEF Stopped, Processes
    <3> QED BY <2>0, <2>1, <2>2, <3>1
  <2> QED BY <2>0, <2>1, <2>3 DEF BenchInv, OutputsInv
<1> QED BY <1>1, BenchInvariant, GeneratorInvariant, PTL
=============================================================================
