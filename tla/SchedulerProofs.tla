-------------------------- MODULE SchedulerProofs --------------------------
(***************************************************************************)
(* Proofs about Scheduler, for every set of signals, every hierarchy of    *)
(* two levels, every contribution and every clock period.                  *)
(***************************************************************************)
EXTENDS Scheduler, FiniteSetTheorems, TLAPS

\* One-line abbreviations of schedule(), expanded everywhere.
USE DEF Front, StillMoving, Extended, Ready, Woken

-----------------------------------------------------------------------------
(***************************************************************************)
(* The arithmetic of setSignalTiming().                                    *)
(***************************************************************************)
\* The while loop that inserts registers leaves at most one period of delay
\* after the last of them, and all of the delay if it inserts none.
LEMMA RegistersFacts ==
  ASSUME NEW total \in Nat
  PROVE  /\ Registers(total) \in Nat
         /\ Remaining(total) \in Nat
         /\ IsShared => Registers(total) = 0
         /\ ~IsShared => Remaining(total) <= Period
         /\ Registers(total) = 0 => Remaining(total) = total
<1> USE SchedulerAssumption
<1>1. CASE ~IsShared /\ total > Period
  <2> DEFINE q == (total - 1) \div Period
  <2>1. /\ q \in Int
        /\ Period * q <= total - 1
        /\ total - 1 < Period * q + Period
    BY <1>1, SMT
  <2>2. q >= 0
    BY <2>1, <1>1, SMT
  <2>3. Registers(total) = q /\ Remaining(total) = total - q * Period
    BY <1>1 DEF Registers, Remaining
  <2>4. q * Period = Period * q
    BY <2>1, SMT
  <2> QED
    BY <2>1, <2>2, <2>3, <2>4, <1>1, SMT
<1>2. CASE ~(~IsShared /\ total > Period)
  <2>1. Registers(total) = 0
    BY <1>2 DEF Registers
  <2>2. Remaining(total) = total
    BY <2>1, SMT DEF Remaining
  <2> QED
    BY <2>1, <2>2, <1>2, SMT
<1> QED
  BY <1>1, <1>2

-----------------------------------------------------------------------------
(***************************************************************************)
(* Type correctness.                                                       *)
(***************************************************************************)
LEMMA CardinalityNat ==
  ASSUME NEW S \in SUBSET Signals
  PROVE  Cardinality(S) \in Nat
BY SchedulerAssumption, FS_Subset, FS_CardinalityType

LEMMA TypeInit == Init => TypeOK
BY SchedulerAssumption DEF Init, TypeOK, Edges

LEMMA TypeConstruct == TypeOK /\ Construct => TypeOK'
<1> SUFFICES ASSUME TypeOK, Construct PROVE TypeOK'
  OBVIOUS
<1> USE SchedulerAssumption DEF TypeOK, Edges, Building, SignalsOf, IO,
          timingVars, loopVars, instanceVars, graphVars
<1>1. ASSUME NEW s \in SignalsOf(current), NEW c \in Contributions, Declare(s, c)
      PROVE  TypeOK'
  BY <1>1 DEF Declare, NewWire
<1>2. ASSUME NEW s \in SignalsOf(current), NEW c \in Contributions,
             NEW R \in SUBSET Reads[s], DeclareAssign(s, c, R)
      PROVE  TypeOK'
  <2>1. R \subseteq Signals
    OBVIOUS
  <2> QED
    BY <1>2, <2>1 DEF DeclareAssign, NewWire
<1>3. ASSUME NEW s \in SignalsOf(current), NEW R \in SUBSET Reads[s], Assign(s, R)
      PROVE  TypeOK'
  <2>1. R \subseteq Signals
    OBVIOUS
  <2> QED
    BY <1>3, <2>1 DEF Assign
<1>4. ASSUME NEW s \in SignalsOf(current), NEW source \in SignalsOf(current) \ {s},
             AddRegisteredSignalCopy(s, source)
      PROVE  TypeOK'
  BY <1>4 DEF AddRegisteredSignalCopy, NewWire
<1>5. ASSUME NEW f \in SignalsOf(current), AddInput(f)
      PROVE  TypeOK'
  BY <1>5 DEF AddInput, PortEdges
<1>6. ASSUME NEW f \in SignalsOf(current), AddOutput(f)
      PROVE  TypeOK'
  BY <1>6 DEF AddOutput, PortEdges
<1>7. ASSUME NEW f \in IO, NEW actual \in SignalsOf(Root), InPortMap(f, actual)
      PROVE  TypeOK'
  BY <1>7 DEF InPortMap, FreePort
<1>8. ASSUME NEW f \in IO, NEW actual \in SignalsOf(Root), InPortMapCst(f, actual)
      PROVE  TypeOK'
  BY <1>8 DEF InPortMapCst, FreePort, NewWire
<1>9. ASSUME NEW f \in IO, NEW actual \in SignalsOf(Root), OutPortMap(f, actual)
      PROVE  TypeOK'
  BY <1>9 DEF OutPortMap, FreePort
<1>10. ASSUME NEW op \in Operators, OpenInstance(op)
       PROVE  TypeOK'
  BY <1>10 DEF OpenInstance
<1>11. CASE Instance
  BY <1>11 DEF Instance
<1>12. ASSUME NEW outs \in SharedInstances, NewSharedInstance(outs)
       PROVE  TypeOK'
  <2>1. outs \subseteq Edges /\ Ends(outs) \subseteq Signals /\ Actuals(outs) \subseteq Signals
    BY DEF Ends, Actuals
  <2>2. PICK delay \in [Actuals(outs) -> Contributions] :
          criticalPathContribution' =
            [s \in Signals |-> IF s \in Actuals(outs) THEN delay[s]
                               ELSE criticalPathContribution[s]]
    BY <1>12 DEF NewSharedInstance
  <2>3. criticalPathContribution' \in [Signals -> Nat]
    BY <2>2
  <2>4. PICK ins \in SUBSET Signals :
          /\ graph' = graph \cup SharedEdges(ins, outs)
          /\ sharedActuals' = sharedActuals \cup {<<ins, {o[1] : o \in outs}>>}
    BY <1>12 DEF NewSharedInstance
  <2>5. SharedEdges(ins, outs) \subseteq Edges
    BY <2>1 DEF SharedEdges
  <2>6. {o[1] : o \in outs} \in SUBSET Signals
    BY <2>1
  <2>7. graph' \subseteq Edges /\ sharedActuals' \subseteq (SUBSET Signals) \X (SUBSET Signals)
    BY <2>4, <2>5, <2>6
  <2> QED
    BY <1>12, <2>1, <2>3, <2>7 DEF NewSharedInstance
<1> QED
  BY <1>1, <1>2, <1>3, <1>4, <1>5, <1>6, <1>7, <1>8, <1>9, <1>10, <1>11, <1>12
  DEF Construct

LEMMA TypeStartSchedule == TypeOK /\ StartSchedule => TypeOK'
<1> SUFFICES ASSUME TypeOK, StartSchedule PROVE TypeOK'
  OBVIOUS
<1>1. Moved \subseteq Edges
  BY DEF TypeOK, Moved
<1>2. ListedSignals \subseteq Signals
  BY DEF TypeOK, ListedSignals
<1> QED
  BY <1>1, <1>2, SchedulerAssumption
  DEF TypeOK, StartSchedule, SignalsOf, instanceVars

\* What timing one signal does to the state.
LEMMA TimingFacts ==
  ASSUME TypeOK, NEW s \in Signals, NEW latest \in Signals, SetSignalTiming(s, latest)
  PROVE  /\ cycle' \in [Signals -> Nat]
         /\ criticalPath' \in [Signals -> Nat]
         /\ lifeSpan' \in [Signals -> Nat]
         /\ \A t \in Signals \ {s} : /\ cycle'[t] = cycle[t]
                                     /\ criticalPath'[t] = criticalPath[t]
         /\ \A t \in Signals : lifeSpan'[t] >= lifeSpan[t]
         /\ hasBeenScheduled' = hasBeenScheduled \cup {s}
<1> USE SchedulerAssumption DEF TypeOK
<1> DEFINE total == criticalPath[latest] + criticalPathContribution[s]
           span(p) == cycle'[s] - cycle[p]
<1>1. total \in Nat
  OBVIOUS
<1>2. Registers(total) \in Nat /\ Remaining(total) \in Nat
  BY <1>1, RegistersFacts
<1>3. /\ cycle' = [cycle EXCEPT ![s] = cycle[latest] + Registers(total)]
      /\ criticalPath' = [criticalPath EXCEPT ![s] = Remaining(total)]
      /\ hasBeenScheduled' = hasBeenScheduled \cup {s}
      /\ lifeSpan' = [p \in Signals |->
            IF /\ p \in Predecessors(s)
               /\ ~LeavesSubcomponent(p, s)
               /\ span(p) > lifeSpan[p]
            THEN span(p) ELSE lifeSpan[p]]
  BY DEF SetSignalTiming
<1>4. cycle' \in [Signals -> Nat] /\ criticalPath' \in [Signals -> Nat]
  BY <1>2, <1>3
<1>5. \A p \in Signals : span(p) \in Int /\ lifeSpan[p] \in Nat
  BY <1>4
<1>6. \A p \in Signals : lifeSpan'[p] \in Nat /\ lifeSpan'[p] >= lifeSpan[p]
  BY <1>3, <1>5
<1>7. lifeSpan' \in [Signals -> Nat]
  BY <1>3, <1>6
<1> HIDE DEF total, span
<1> QED
  BY <1>3, <1>4, <1>6, <1>7

LEMMA TypeScheduleStep == TypeOK /\ ScheduleStep => TypeOK'
<1> SUFFICES ASSUME TypeOK, ScheduleStep PROVE TypeOK'
  OBVIOUS
<1> USE DEF timingVars, loopVars, instanceVars, graphVars
<1>1. CASE NextIteration
  BY <1>1, CardinalityNat DEF TypeOK, NextIteration
<1>2. ASSUME NEW s \in Signals, ScheduleCandidate(s)
      PROVE  TypeOK'
  <2>1. PICK latest \in Signals : SetSignalTiming(s, latest)
    BY <1>2 DEF ScheduleCandidate, Predecessors
  <2>2. /\ cycle' \in [Signals -> Nat]
        /\ criticalPath' \in [Signals -> Nat]
        /\ lifeSpan' \in [Signals -> Nat]
        /\ hasBeenScheduled' \subseteq Signals
    BY <2>1, TimingFacts DEF TypeOK
  <2> QED
    BY <1>2, <2>2 DEF TypeOK, ScheduleCandidate, Successors
<1>3. ASSUME NEW s \in Signals, KeepCandidate(s)
      PROVE  TypeOK'
  BY <1>3 DEF TypeOK, KeepCandidate
<1>4. CASE EndIteration
  BY <1>4 DEF TypeOK, EndIteration
<1>5. CASE EndSchedule
  BY <1>5 DEF TypeOK, EndSchedule
<1> QED
  BY <1>1, <1>2, <1>3, <1>4, <1>5 DEF ScheduleStep

LEMMA TypeNext == TypeOK /\ [Next]_vars => TypeOK'
<1> SUFFICES ASSUME TypeOK, [Next]_vars PROVE TypeOK'
  OBVIOUS
<1>1. CASE Next
  BY <1>1, TypeConstruct, TypeStartSchedule, TypeScheduleStep DEF Next
<1>2. CASE UNCHANGED vars
  BY <1>2 DEF TypeOK, vars, timingVars, loopVars, instanceVars, graphVars
<1> QED
  BY <1>1, <1>2

\* Type correctness, in every execution: in particular no time is negative and
\* the wavefront holds nothing but signals.
THEOREM TypeCorrect == Spec => []TypeOK
BY TypeInit, TypeNext, PTL DEF Spec

-----------------------------------------------------------------------------
(***************************************************************************)
(* Every signal fits in its clock period.                                  *)
(***************************************************************************)
LEMMA FitsInit == Init => FitsPeriod
BY SchedulerAssumption DEF Init, FitsPeriod

LEMMA FitsNext == TypeOK /\ FitsPeriod /\ [Next]_vars => FitsPeriod'
<1> SUFFICES ASSUME TypeOK, FitsPeriod, [Next]_vars PROVE FitsPeriod'
  OBVIOUS
<1>1. ASSUME NEW s \in Signals, ScheduleCandidate(s)
      PROVE  FitsPeriod'
  <2>1. PICK latest \in Signals : SetSignalTiming(s, latest)
    BY <1>1 DEF ScheduleCandidate, Predecessors
  <2> DEFINE total == criticalPath[latest] + criticalPathContribution[s]
  <2>2. total \in Nat
    BY DEF TypeOK
  <2>3. /\ IsShared => Registers(total) = 0
        /\ ~IsShared => Remaining(total) <= Period
    BY <2>2, RegistersFacts
  <2>4. /\ cycle' = [cycle EXCEPT ![s] = cycle[latest] + Registers(total)]
        /\ criticalPath' = [criticalPath EXCEPT ![s] = Remaining(total)]
    BY <2>1 DEF SetSignalTiming
  <2> HIDE DEF total
  <2> QED
    BY <2>3, <2>4 DEF FitsPeriod, TypeOK
<1>2. ASSUME UNCHANGED <<cycle, criticalPath>>
      PROVE  FitsPeriod'
  BY <1>2 DEF FitsPeriod
<1>3. \/ \E s \in Signals : ScheduleCandidate(s)
      \/ UNCHANGED <<cycle, criticalPath>>
  BY DEF Next, Construct, StartSchedule, ScheduleStep, Declare, DeclareAssign,
         Assign, AddRegisteredSignalCopy, InPortMap, InPortMapCst, OutPortMap,
         OpenInstance, AddInput, AddOutput, Instance, NewSharedInstance, NextIteration,
         KeepCandidate, EndIteration, EndSchedule, vars, timingVars
<1> QED
  BY <1>1, <1>2, <1>3

\* No critical path exceeds the clock period, and a shared operator has no
\* register, whatever the graph and the order of the calls.
THEOREM SignalsFitPeriod == Spec => []FitsPeriod
BY TypeInit, TypeNext, FitsInit, FitsNext, PTL DEF Spec

-----------------------------------------------------------------------------
(***************************************************************************)
(* A signal that has a time keeps it.                                      *)
(***************************************************************************)
\* The wavefront only holds signals without a time, and it is empty while the
\* constructor runs.
FrontInv ==
  /\ phase # "iterate" => successorsFront = {}
  /\ phase = "build" => nextIterationFront = {}
  /\ successorsFront \cap hasBeenScheduled = {}
  /\ nextIterationFront \cap hasBeenScheduled = {}

LEMMA FrontInit == Init => FrontInv
BY DEF Init, FrontInv

LEMMA FrontNext == TypeOK /\ FrontInv /\ [Next]_vars => FrontInv'
<1> SUFFICES ASSUME TypeOK, FrontInv, [Next]_vars PROVE FrontInv'
  OBVIOUS
<1> USE DEF FrontInv, timingVars, loopVars, graphVars, instanceVars
<1>1. CASE Construct
  <2>1. phase = "build" /\ UNCHANGED loopVars
    BY <1>1 DEF Construct, Declare, DeclareAssign, Assign, AddRegisteredSignalCopy,
         InPortMap, InPortMapCst, OutPortMap, OpenInstance, AddInput, AddOutput,
         Instance, NewSharedInstance, NewWire, FreePort, Building
  <2> QED
    BY <2>1
<1>2. CASE StartSchedule
  BY <1>2 DEF StartSchedule
<1>3. CASE NextIteration
  BY <1>3 DEF NextIteration
<1>4. ASSUME NEW s \in Signals, ScheduleCandidate(s)
      PROVE  FrontInv'
  <2>1. hasBeenScheduled' = hasBeenScheduled \cup {s}
    BY <1>4 DEF ScheduleCandidate, SetSignalTiming
  <2>2. phase' = "iterate"
    BY <1>4 DEF ScheduleCandidate
  <2> QED
    BY <1>4, <2>1, <2>2 DEF ScheduleCandidate
<1>5. ASSUME NEW s \in Signals, KeepCandidate(s)
      PROVE  FrontInv'
  BY <1>5 DEF KeepCandidate
<1>6. CASE EndIteration
  BY <1>6 DEF EndIteration
<1>7. CASE EndSchedule
  <2>1. phase' = "build" /\ successorsFront' = successorsFront
    BY <1>7 DEF EndSchedule
  <2> QED
    BY <1>7, <2>1 DEF EndSchedule
<1>8. CASE UNCHANGED vars
  BY <1>8 DEF vars
<1> QED
  BY <1>1, <1>2, <1>3, <1>4, <1>5, <1>6, <1>7, <1>8 DEF Next, ScheduleStep

\* A step either times one signal of the wavefront, or moves no time and only
\* adds to the scheduled signals.
LEMMA TimingStep ==
  ASSUME [Next]_vars
  PROVE  \/ \E s \in Signals : ScheduleCandidate(s)
         \/ /\ UNCHANGED <<cycle, criticalPath, lifeSpan>>
            /\ hasBeenScheduled \subseteq hasBeenScheduled'
BY DEF Next, Construct, StartSchedule, ScheduleStep, Declare, DeclareAssign,
       Assign, AddRegisteredSignalCopy, InPortMap, InPortMapCst, OutPortMap,
       OpenInstance, AddInput, AddOutput, Instance, NewSharedInstance, NextIteration,
       KeepCandidate, EndIteration, EndSchedule, vars, timingVars

KeepsTimes == \A s \in hasBeenScheduled :
                 /\ s \in hasBeenScheduled'
                 /\ cycle'[s] = cycle[s]
                 /\ criticalPath'[s] = criticalPath[s]

LEMMA StepKeepsTimes == TypeOK /\ FrontInv /\ [Next]_vars => KeepsTimes
<1> SUFFICES ASSUME TypeOK, FrontInv, [Next]_vars PROVE KeepsTimes
  OBVIOUS
<1>1. ASSUME NEW s \in Signals, ScheduleCandidate(s)
      PROVE  KeepsTimes
  <2>1. s \notin hasBeenScheduled
    BY <1>1 DEF ScheduleCandidate, FrontInv
  <2>2. PICK latest \in Signals : SetSignalTiming(s, latest)
    BY <1>1 DEF ScheduleCandidate, Predecessors
  <2> QED
    BY <2>1, <2>2, TimingFacts DEF KeepsTimes, TypeOK
<1> QED
  BY <1>1, TimingStep DEF KeepsTimes

\* schedule() may be called many times while the graph is being built: it
\* never moves a signal it has already placed.
THEOREM TimesAreFinal == Spec => TimingIsFinal
<1>1. TypeOK /\ FrontInv /\ [Next]_vars => [KeepsTimes]_vars
  BY StepKeepsTimes
<1>2. Spec => [](TypeOK /\ FrontInv)
  BY TypeInit, TypeNext, FrontInit, FrontNext, PTL DEF Spec
<1>3. Spec => [][KeepsTimes]_vars
  BY <1>1, <1>2, PTL DEF Spec
<1> QED
  BY <1>3 DEF TimingIsFinal, KeepsTimes

-----------------------------------------------------------------------------
(***************************************************************************)
(* The invariant of a construction in the documented order.                *)
(***************************************************************************)
LEMMA ConstructionInit == Init => ConstructionInv
BY SchedulerAssumption
DEF Init, ConstructionInv, SignalsInv, DependenciesInv, PortMapInv, Dependencies

\* Declaring a wire with the statement that drives it.
LEMMA ConstructionDeclareAssign ==
  ASSUME Disciplined, TypeOK, ConstructionInv, NEW s \in SignalsOf(current),
         NEW c \in Contributions, NEW R \in SUBSET Reads[s], DeclareAssign(s, c, R)
  PROVE  ConstructionInv'
<1> USE SchedulerAssumption DEF TypeOK, Edges, Building, SignalsOf, IO, instanceVars,
          timingVars, loopVars, DeclareAssign, NewWire, ConstructionInv
<1>1. SignalsInv'
  BY DEF SignalsInv
<1>2. DependenciesInv'
  BY DEF SignalsInv, DependenciesInv, Dependencies
<1>3. PortMapInv'
  BY DEF SignalsInv, PortMapInv
<1> QED
  BY <1>1, <1>2, <1>3

\* A statement that drives an output.
LEMMA ConstructionAssign ==
  ASSUME Disciplined, TypeOK, ConstructionInv, NEW s \in SignalsOf(current),
         NEW R \in SUBSET Reads[s], Assign(s, R)
  PROVE  ConstructionInv'
<1> USE SchedulerAssumption DEF TypeOK, Edges, Building, SignalsOf, IO, instanceVars,
          timingVars, loopVars, Assign, ConstructionInv
<1>1. SignalsInv'
  BY DEF SignalsInv
<1>2. DependenciesInv'
  BY DEF SignalsInv, DependenciesInv, Dependencies
<1>3. PortMapInv'
  BY DEF SignalsInv, PortMapInv
<1> QED
  BY <1>1, <1>2, <1>3

LEMMA ConstructionCopy ==
  ASSUME Disciplined, TypeOK, ConstructionInv, NEW s \in SignalsOf(current),
         NEW source \in SignalsOf(current) \ {s}, AddRegisteredSignalCopy(s, source)
  PROVE  ConstructionInv'
<1> USE SchedulerAssumption DEF TypeOK, Edges, Building, SignalsOf, IO, instanceVars,
          loopVars, AddRegisteredSignalCopy, NewWire, ConstructionInv
<1>1. SignalsInv'
  BY DEF SignalsInv
<1>2. DependenciesInv'
  BY DEF SignalsInv, DependenciesInv, Dependencies
<1>3. PortMapInv'
  BY DEF SignalsInv, PortMapInv
<1> QED
  BY <1>1, <1>2, <1>3

\* The three ways of mapping a port.
LEMMA ConstructionPortMap ==
  ASSUME Disciplined, TypeOK, ConstructionInv, NEW f \in IO,
         NEW actual \in SignalsOf(Root),
         InPortMap(f, actual) \/ InPortMapCst(f, actual) \/ OutPortMap(f, actual)
  PROVE  ConstructionInv'
<1> USE SchedulerAssumption DEF TypeOK, Edges, Building, SignalsOf, IO, graphVars,
          timingVars, loopVars, FreePort, ConstructionInv
<1>0. f \notin declared
  BY DEF InPortMap, InPortMapCst, OutPortMap, SignalsInv
<1>1. CASE InPortMap(f, actual)
  <2>1. SignalsInv'
    BY <1>1 DEF InPortMap, SignalsInv
  <2>2. DependenciesInv'
    BY <1>1 DEF InPortMap, DependenciesInv, Dependencies
  <2>3. PortMapInv'
    BY <1>1 DEF InPortMap, PortMapInv
  <2> QED
    BY <2>1, <2>2, <2>3
<1>2. CASE InPortMapCst(f, actual)
  <2>1. SignalsInv'
    BY <1>2 DEF InPortMapCst, NewWire, SignalsInv
  <2>2. DependenciesInv'
    BY <1>2 DEF InPortMapCst, NewWire, DependenciesInv, Dependencies
  <2>3. PortMapInv'
    BY <1>2 DEF InPortMapCst, NewWire, PortMapInv
  <2> QED
    BY <2>1, <2>2, <2>3
<1>3. CASE OutPortMap(f, actual)
  <2>1. SignalsInv'
    BY <1>3 DEF OutPortMap, SignalsInv
  <2>2. DependenciesInv'
    BY <1>3 DEF OutPortMap, DependenciesInv, Dependencies
  <2>3. actual \notin hasBeenScheduled
    BY <1>3 DEF OutPortMap, SignalsInv
  <2>4. PortMapInv'
    BY <1>0, <1>3, <2>3 DEF OutPortMap, PortMapInv
  <2> QED
    BY <2>1, <2>2, <2>4
<1> QED
  BY <1>1, <1>2, <1>3

\* The ports created by the constructor of a subcomponent, or of the root.
LEMMA ConstructionAddPort ==
  ASSUME Disciplined, TypeOK, ConstructionInv, NEW f \in SignalsOf(current),
         AddInput(f) \/ AddOutput(f)
  PROVE  ConstructionInv'
<1> USE SchedulerAssumption DEF TypeOK, Edges, Building, SignalsOf, IO, instanceVars,
          timingVars, loopVars, PortEdges, ConstructionInv
<1>1. CASE AddInput(f)
  <2>1. SignalsInv'
    BY <1>1 DEF AddInput, SignalsInv
  <2>2. DependenciesInv'
    BY <1>1 DEF AddInput, DependenciesInv, Dependencies, PortMapInv
  <2>3. PortMapInv'
    BY <1>1 DEF AddInput, PortMapInv
  <2> QED
    BY <2>1, <2>2, <2>3
<1>2. CASE AddOutput(f)
  <2>0. /\ f \in Outputs
        /\ graph' = graph \cup {m \in portMap : m[1] = f}
    <3> DEFINE M == {m \in portMap : m[1] = f}
    <3>0. \A m \in M : m = <<m[1], m[2]>> /\ m[1] = f
      OBVIOUS
    <3>1. {<<e[2], e[1]>> : e \in {<<m[2], f>> : m \in M}} = M
      <4>1. ASSUME NEW m \in M PROVE m \in {<<e[2], e[1]>> : e \in {<<n[2], f>> : n \in M}}
        <5>1. <<m[2], f>> \in {<<n[2], f>> : n \in M}
          OBVIOUS
        <5>2. m = <<<<m[2], f>>[2], <<m[2], f>>[1]>>
          BY <3>0
        <5> HIDE DEF M
        <5> QED
          BY <5>1, <5>2
      <4>2. ASSUME NEW e \in {<<m[2], f>> : m \in M} PROVE <<e[2], e[1]>> \in M
        BY <3>0
      <4> QED
        BY <4>1, <4>2
    <3> QED
      BY <1>2, <3>1 DEF AddOutput
  <2>1. SignalsInv'
    BY <1>2 DEF AddOutput, SignalsInv
  <2>2. DependenciesInv'
    BY <1>2, <2>0 DEF AddOutput, DependenciesInv, Dependencies, PortMapInv
  <2>3. PortMapInv'
    BY <1>2, <2>0 DEF AddOutput, PortMapInv
  <2> QED
    BY <2>1, <2>2, <2>3
<1> QED
  BY <1>1, <1>2

\* Entering and leaving the constructor of a subcomponent.
LEMMA ConstructionInstance ==
  ASSUME Disciplined, TypeOK, ConstructionInv,
         (\E op \in Operators : OpenInstance(op)) \/ Instance
  PROVE  ConstructionInv'
<1> USE DEF TypeOK, Building, graphVars, timingVars, loopVars, ConstructionInv
<1>1. SignalsInv'
  BY DEF OpenInstance, Instance, SignalsInv
<1>2. DependenciesInv'
  BY DEF OpenInstance, Instance, DependenciesInv, Dependencies
<1>3. PortMapInv'
  BY DEF OpenInstance, Instance, PortMapInv
<1> QED
  BY <1>1, <1>2, <1>3

\* A shared instance: nothing it declares has a time or is read yet.
LEMMA ConstructionShared ==
  ASSUME Disciplined, TypeOK, ConstructionInv,
         NEW outs \in SharedInstances, NewSharedInstance(outs)
  PROVE  ConstructionInv'
<1> USE SchedulerAssumption DEF TypeOK, Edges, Building, SignalsOf, IO, timingVars,
          loopVars, ConstructionInv
<1>1. PICK ins \in SUBSET declared : graph' = graph \cup SharedEdges(ins, outs)
  BY DEF NewSharedInstance
<1>2. \A e \in SharedEdges(ins, outs) \cup outs :
        e[1] \in declared' /\ e[2] \in Ends(outs)
  BY DEF SharedEdges, Ends, Actuals, NewSharedInstance
<1>3. SignalsInv'
  BY DEF NewSharedInstance, SignalsInv
<1>4. DependenciesInv'
  BY <1>1, <1>2 DEF NewSharedInstance, SignalsInv, DependenciesInv, Dependencies
<1>5. PortMapInv'
  BY DEF NewSharedInstance, PortMapInv
<1> QED
  BY <1>3, <1>4, <1>5

\* The whole dependence table moves to the graph; what becomes scheduled then
\* has no predecessor.
LEMMA StartFacts ==
  ASSUME Disciplined, TypeOK, ConstructionInv, StartSchedule
  PROVE  /\ graph' = Dependencies
         /\ dependenceTable' = {}
         /\ phase' = "test"
         /\ \A m \in portMap : m[1] \in declared
         /\ \A s \in hasBeenScheduled' \ hasBeenScheduled :
              /\ s \in declared \cap driven
              /\ \A e \in graph' : e[2] # s
<1> USE SchedulerAssumption DEF TypeOK, ConstructionInv
<1>1. Moved = dependenceTable
  BY DEF Moved, SignalsInv, DependenciesInv, Dependencies
<1>2. graph' = Dependencies /\ dependenceTable' = {}
  BY <1>1 DEF StartSchedule, Dependencies
<1>3. phase' = "test" /\ \A m \in portMap : m[1] \in declared
  BY DEF StartSchedule
<1>4. ASSUME NEW s \in hasBeenScheduled' \ hasBeenScheduled
      PROVE  s \in declared \cap driven /\ \A e \in graph' : e[2] # s
  <2>1. CASE s \in declared \cap Inputs \cap SignalsOf(Root)
    BY <1>2, <2>1 DEF SignalsInv, DependenciesInv, SignalsOf
  <2>2. CASE s \in ListedSignals /\ \A e \in graph' : e[2] # s
    BY <2>2 DEF SignalsInv, ListedSignals, IO
  <2> QED
    BY <1>4, <2>1, <2>2 DEF StartSchedule
<1> QED
  BY <1>2, <1>3, <1>4

LEMMA ConstructionStartSchedule ==
  ASSUME Disciplined, TypeOK, ConstructionInv, StartSchedule
  PROVE  ConstructionInv'
<1> USE DEF TypeOK, ConstructionInv, instanceVars
<1>1. SignalsInv'
  BY StartFacts DEF StartSchedule, SignalsInv
<1>2. DependenciesInv'
  BY StartFacts DEF StartSchedule, DependenciesInv, Dependencies
<1>3. PortMapInv'
  BY StartFacts DEF StartSchedule, PortMapInv, Dependencies
<1> QED
  BY <1>1, <1>2, <1>3

LEMMA ConstructionScheduleStep ==
  ASSUME TypeOK, ConstructionInv, ScheduleStep
  PROVE  ConstructionInv'
<1> USE DEF TypeOK, ConstructionInv, graphVars, instanceVars
<1>0. phase # "build" /\ UNCHANGED <<graphVars, instanceVars>>
  BY DEF ScheduleStep, NextIteration, ScheduleCandidate, KeepCandidate,
         EndIteration, EndSchedule
<1>1. ASSUME NEW s \in Signals, ScheduleCandidate(s)
      PROVE  ConstructionInv'
  <2>1. hasBeenScheduled' = hasBeenScheduled \cup {s}
    BY <1>1 DEF ScheduleCandidate, SetSignalTiming
  <2>2. s \in declared \cap driven
    BY <1>1 DEF ScheduleCandidate, Predecessors, DependenciesInv, Dependencies
  <2> QED
    BY <1>0, <2>1, <2>2
    DEF SignalsInv, DependenciesInv, PortMapInv, Dependencies
<1>2. CASE UNCHANGED hasBeenScheduled
  BY <1>0, <1>2 DEF SignalsInv, DependenciesInv, PortMapInv, Dependencies
<1>3. (\E s \in Signals : ScheduleCandidate(s)) \/ UNCHANGED hasBeenScheduled
  BY DEF ScheduleStep, NextIteration, KeepCandidate, EndIteration, EndSchedule, timingVars
<1> QED
  BY <1>1, <1>2, <1>3

LEMMA ConstructionNext ==
  ASSUME Disciplined, TypeOK, ConstructionInv, [Next]_vars
  PROVE  ConstructionInv'
<1>1. CASE Construct
  <2>1. \A s \in Signals, d \in Contributions : ~Declare(s, d)
    BY DEF Declare
  <2> QED
    BY <1>1, <2>1, ConstructionDeclareAssign, ConstructionAssign, ConstructionCopy,
       ConstructionPortMap, ConstructionAddPort, ConstructionInstance, ConstructionShared
    DEF Construct, SignalsOf
<1>2. CASE UNCHANGED vars
  BY <1>2 DEF vars, graphVars, instanceVars, timingVars, loopVars, ConstructionInv,
              SignalsInv, DependenciesInv, PortMapInv, Dependencies
<1> QED
  BY <1>1, <1>2, ConstructionStartSchedule, ConstructionScheduleStep DEF Next

-----------------------------------------------------------------------------
(***************************************************************************)
(* There is one schedule: every signal is timed from all of its final      *)
(* predecessors.                                                           *)
(***************************************************************************)
\* How a step changes the graph and the scheduled signals: no predecessor is
\* added to a signal that has a time, and a signal gets its time from the
\* wavefront unless it has no predecessor.
LEMMA GraphStep ==
  ASSUME Disciplined, TypeOK, ConstructionInv, [Next]_vars
  PROVE  /\ graph \subseteq graph'
         /\ copies \subseteq copies'
         /\ \A e \in graph' \ graph : e[2] \notin hasBeenScheduled' \ copies'
         /\ \A s \in hasBeenScheduled :
              criticalPathContribution'[s] = criticalPathContribution[s]
         /\ \A s \in hasBeenScheduled' \ (hasBeenScheduled \cup copies') :
              \/ ScheduleCandidate(s)
              \/ \A e \in graph' : e[2] # s
<1> DEFINE Goal == /\ graph \subseteq graph'
                   /\ copies \subseteq copies'
                   /\ \A e \in graph' \ graph : e[2] \notin hasBeenScheduled' \ copies'
                   /\ \A s \in hasBeenScheduled :
                        criticalPathContribution'[s] = criticalPathContribution[s]
                   /\ \A s \in hasBeenScheduled' \ (hasBeenScheduled \cup copies') :
                        \/ ScheduleCandidate(s)
                        \/ \A e \in graph' : e[2] # s
<1> USE SchedulerAssumption DEF TypeOK, ConstructionInv
<1>1. CASE Construct
  <2>1. ASSUME UNCHANGED <<graph, copies, hasBeenScheduled, criticalPathContribution>>
        PROVE  Goal
    BY <2>1
  <2>2. ASSUME NEW s \in Signals, NEW c \in Contributions, NEW R \in SUBSET Reads[s],
               DeclareAssign(s, c, R)
        PROVE  Goal
    BY <2>2 DEF DeclareAssign, NewWire, timingVars, SignalsInv
  <2>3. ASSUME NEW s \in Signals, NEW source \in Signals,
               AddRegisteredSignalCopy(s, source)
        PROVE  Goal
    BY <2>3 DEF AddRegisteredSignalCopy, NewWire, SignalsInv
  <2>4. ASSUME NEW f \in Signals, NEW constant \in Signals, InPortMapCst(f, constant)
        PROVE  Goal
    BY <2>4 DEF InPortMapCst, NewWire, SignalsInv, DependenciesInv, Dependencies
  <2>5. ASSUME NEW f \in Signals, AddInput(f)
        PROVE  Goal
    <3>1. f \notin hasBeenScheduled
      BY <2>5 DEF AddInput, SignalsInv
    <3>2. \A e \in graph' \ graph : e[2] = f
      BY <2>5 DEF AddInput, PortEdges
    <3> QED
      BY <2>5, <3>1, <3>2 DEF AddInput, timingVars
  <2>6. ASSUME NEW f \in Signals, AddOutput(f)
        PROVE  Goal
    <3>1. \A e \in graph' \ graph : \E m \in portMap : m[1] = f /\ m[2] = e[2]
      BY <2>6 DEF AddOutput, PortEdges
    <3>2. \A m \in portMap : m[1] = f => m[2] \notin hasBeenScheduled
      BY <2>6 DEF AddOutput, PortMapInv
    <3> QED
      BY <2>6, <3>1, <3>2 DEF AddOutput, timingVars
  <2>7. ASSUME NEW outs \in SharedInstances, NewSharedInstance(outs)
        PROVE  Goal
    <3>1. PICK ins \in SUBSET declared : graph' = graph \cup SharedEdges(ins, outs)
      BY <2>7 DEF NewSharedInstance
    <3>2. \A s \in Ends(outs) : s \notin hasBeenScheduled
      BY <2>7 DEF NewSharedInstance, SignalsInv
    <3>3. \A e \in graph' \ graph : e[2] \in Ends(outs)
      BY <3>1 DEF SharedEdges, Ends
    <3>4. \A s \in Signals \ Actuals(outs) :
            criticalPathContribution'[s] = criticalPathContribution[s]
      BY <2>7 DEF NewSharedInstance
    <3> QED
      BY <2>7, <3>1, <3>2, <3>3, <3>4 DEF NewSharedInstance, Ends, timingVars
  <2> QED
    BY <1>1, <2>1, <2>2, <2>3, <2>4, <2>5, <2>6, <2>7
    DEF Construct, Declare, Assign, InPortMap, OutPortMap, OpenInstance, Instance,
        SignalsOf, IO, graphVars, timingVars
<1>2. CASE StartSchedule
  <2>1. UNCHANGED <<copies, criticalPathContribution>>
    BY <1>2 DEF StartSchedule
  <2>2. \A e \in graph' \ graph : e[2] \in hasBeenScheduled => e[2] \in copies
    BY <1>2, StartFacts DEF DependenciesInv, Dependencies
  <2>3. \A e \in graph' : e[2] \in hasBeenScheduled' => e[2] \in hasBeenScheduled
    BY <1>2, StartFacts
  <2> QED
    BY <1>2, <2>1, <2>2, <2>3, StartFacts DEF Dependencies
<1>3. CASE ScheduleStep
  <2>1. UNCHANGED <<graph, copies, criticalPathContribution>>
    BY <1>3 DEF ScheduleStep, NextIteration, ScheduleCandidate, KeepCandidate,
                EndIteration, EndSchedule, graphVars
  <2>2. \A s \in hasBeenScheduled' \ hasBeenScheduled : ScheduleCandidate(s)
    BY <1>3 DEF ScheduleStep, NextIteration, ScheduleCandidate, SetSignalTiming,
                KeepCandidate, EndIteration, EndSchedule, timingVars
  <2> QED
    BY <2>1, <2>2
<1>4. CASE UNCHANGED vars
  BY <1>4 DEF vars, graphVars, timingVars
<1> QED
  BY <1>1, <1>2, <1>3, <1>4 DEF Next

\* The predecessors of a signal that has a time are the ones it had.
LEMMA FinalPredecessors ==
  ASSUME Disciplined, TypeOK, ConstructionInv, [Next]_vars,
         NEW s \in hasBeenScheduled \ copies'
  PROVE  /\ s \in hasBeenScheduled \ copies
         /\ s \in hasBeenScheduled' => Predecessors(s)' = Predecessors(s)
BY GraphStep DEF Predecessors, TypeOK

TimedFromLatest(s) ==
  \E p \in Predecessors(s) :
     LET total == criticalPath[p] + criticalPathContribution[s]
     IN /\ Predecessors(s) \subseteq hasBeenScheduled
        /\ IsLatest(p, Predecessors(s))
        /\ cycle[s] = cycle[p] + Registers(total)
        /\ criticalPath[s] = Remaining(total)

LEMMA AsapInit == Init => AsSoonAsPossible
BY DEF Init, AsSoonAsPossible

LEMMA AsapNext ==
  ASSUME Disciplined, TypeOK, TypeOK', FrontInv, ConstructionInv, AsSoonAsPossible, [Next]_vars
  PROVE  AsSoonAsPossible'
<1> SUFFICES ASSUME NEW s \in (hasBeenScheduled \ copies)', Predecessors(s)' # {}
             PROVE  TimedFromLatest(s)'
  BY DEF AsSoonAsPossible, TimedFromLatest
<1>0. KeepsTimes
  BY StepKeepsTimes
<1>1. CASE s \in hasBeenScheduled
  <2>1. s \in hasBeenScheduled \ copies /\ Predecessors(s)' = Predecessors(s)
    BY <1>1, FinalPredecessors
  <2>2. PICK p \in Predecessors(s) :
           /\ Predecessors(s) \subseteq hasBeenScheduled
           /\ IsLatest(p, Predecessors(s))
           /\ cycle[s] = cycle[p] + Registers(criticalPath[p] + criticalPathContribution[s])
           /\ criticalPath[s] = Remaining(criticalPath[p] + criticalPathContribution[s])
    BY <2>1 DEF AsSoonAsPossible
  <2>3. /\ \A t \in hasBeenScheduled : /\ t \in hasBeenScheduled'
                                       /\ cycle'[t] = cycle[t]
                                       /\ criticalPath'[t] = criticalPath[t]
        /\ criticalPathContribution'[s] = criticalPathContribution[s]
    BY <1>0, <1>1, GraphStep DEF KeepsTimes
  <2>4. \A q \in Predecessors(s) : NoLater(q, p)'
    BY <2>2, <2>3 DEF IsLatest, NoLater
  <2>5. /\ cycle'[s] = cycle'[p] + Registers(criticalPath'[p] + criticalPathContribution'[s])
        /\ criticalPath'[s] = Remaining(criticalPath'[p] + criticalPathContribution'[s])
    BY <1>1, <2>2, <2>3
  <2> QED
    BY <2>1, <2>2, <2>3, <2>4, <2>5 DEF TimedFromLatest, IsLatest, Registers, Remaining
<1>2. CASE s \notin hasBeenScheduled
  <2>0. s \in Signals
    BY DEF TypeOK
  <2>1. ScheduleCandidate(s)
    BY <1>2, GraphStep DEF Predecessors
  <2>2. PICK p \in Predecessors(s) :
           IsLatest(p, Predecessors(s)) /\ SetSignalTiming(s, p)
    BY <2>1 DEF ScheduleCandidate
  <2>3. /\ Predecessors(s) \subseteq hasBeenScheduled
        /\ UNCHANGED <<graph, criticalPathContribution>>
    BY <2>1 DEF ScheduleCandidate, graphVars
  <2>4. Predecessors(s)' = Predecessors(s)
    BY <2>3 DEF Predecessors
  <2>5. /\ cycle' = [cycle EXCEPT
                       ![s] = cycle[p] + Registers(criticalPath[p] + criticalPathContribution[s])]
        /\ criticalPath' = [criticalPath EXCEPT
                       ![s] = Remaining(criticalPath[p] + criticalPathContribution[s])]
    BY <2>2 DEF SetSignalTiming
  <2>6. /\ cycle'[s] = cycle[p] + Registers(criticalPath[p] + criticalPathContribution[s])
        /\ criticalPath'[s] = Remaining(criticalPath[p] + criticalPathContribution[s])
    BY <2>0, <2>5 DEF TypeOK
  <2>7. \A t \in hasBeenScheduled : /\ t \in hasBeenScheduled'
                                    /\ cycle'[t] = cycle[t]
                                    /\ criticalPath'[t] = criticalPath[t]
    BY <1>0 DEF KeepsTimes
  <2>8. \A q \in Predecessors(s) : NoLater(q, p)'
    BY <2>2, <2>3, <2>7 DEF IsLatest, NoLater
  <2>9. /\ cycle'[s] = cycle'[p] + Registers(criticalPath'[p] + criticalPathContribution'[s])
        /\ criticalPath'[s] = Remaining(criticalPath'[p] + criticalPathContribution'[s])
    BY <2>2, <2>3, <2>6, <2>7
  <2>10. Predecessors(s) \subseteq hasBeenScheduled'
    BY <2>3, <2>7
  <2> QED
    BY <2>2, <2>4, <2>8, <2>9, <2>10 DEF TimedFromLatest, IsLatest, Registers, Remaining
<1> QED
  BY <1>1, <1>2

DisciplinedInv == TypeOK /\ FrontInv /\ ConstructionInv /\ AsSoonAsPossible

LEMMA DisciplinedInvariant ==
  ASSUME Disciplined
  PROVE  Spec => []DisciplinedInv
<1>1. Init => DisciplinedInv
  BY TypeInit, FrontInit, ConstructionInit, AsapInit DEF DisciplinedInv
<1>2. DisciplinedInv /\ [Next]_vars => DisciplinedInv'
  BY TypeNext, FrontNext, ConstructionNext, AsapNext DEF DisciplinedInv
<1> QED
  BY <1>1, <1>2, PTL DEF Spec

\* When constructors are written in the documented order, each signal has the
\* time that the latest of its final predecessors gives it: the schedule does
\* not depend on when schedule() was called nor on the order of the wavefront.
THEOREM ScheduleIsAsap ==
  ASSUME Disciplined
  PROVE  Spec => []AsSoonAsPossible
<1>1. DisciplinedInv => AsSoonAsPossible
  BY DEF DisciplinedInv
<1> QED
  BY <1>1, DisciplinedInvariant, PTL

LEMMA AsapIsCausal ==
  ASSUME TypeOK, AsSoonAsPossible
  PROVE  Causal
<1> SUFFICES ASSUME NEW e \in TimedEdges PROVE NoLater(e[1], e[2])
  BY DEF Causal
<1> DEFINE s == e[2]
<1>1. e \in Edges /\ e[1] \in Predecessors(s) /\ s \in hasBeenScheduled \ copies
  BY DEF TimedEdges, Predecessors, TypeOK, Edges
<1>2. PICK p \in Predecessors(s) :
         /\ NoLater(e[1], p)
         /\ cycle[s] = cycle[p] + Registers(criticalPath[p] + criticalPathContribution[s])
         /\ criticalPath[s] = Remaining(criticalPath[p] + criticalPathContribution[s])
  BY <1>1 DEF AsSoonAsPossible, IsLatest
<1> DEFINE total == criticalPath[p] + criticalPathContribution[s]
<1>3. /\ total \in Nat
      /\ total >= criticalPath[p]
      /\ {cycle[e[1]], cycle[p], criticalPath[e[1]], criticalPath[p]} \subseteq Nat
  BY <1>1 DEF TypeOK, Edges, Predecessors
<1>4. Registers(total) \in Nat /\ (Registers(total) = 0 => Remaining(total) = total)
  BY <1>3, RegistersFacts
<1>5. cycle[s] = cycle[p] + Registers(total) /\ criticalPath[s] = Remaining(total)
  BY <1>2
<1> HIDE DEF total, s
<1>6. NoLater(e[1], s)
  BY <1>2, <1>3, <1>4, <1>5 DEF NoLater
<1> QED
  BY <1>6 DEF s

\* The developer manual's guarantee: no statement reads a signal that is only
\* available later than the signal it assigns.
THEOREM ScheduleIsCausal ==
  ASSUME Disciplined
  PROVE  Spec => []Causal
<1>1. DisciplinedInv => Causal
  BY AsapIsCausal DEF DisciplinedInv
<1> QED
  BY <1>1, DisciplinedInvariant, PTL

-----------------------------------------------------------------------------
(***************************************************************************)
(* Every delayed name that doApplySchedule() emits has its registers.      *)
(***************************************************************************)
LEMMA LifeSpanNext ==
  ASSUME Disciplined, DisciplinedInv, TypeOK', LifeSpanCoversDelays, [Next]_vars
  PROVE  LifeSpanCoversDelays'
<1> USE DEF DisciplinedInv
<1> SUFFICES ASSUME NEW e \in TimedEdges', ~LeavesSubcomponent(e[1], e[2])
             PROVE  lifeSpan'[e[1]] >= cycle'[e[2]] - cycle'[e[1]]
  BY DEF LifeSpanCoversDelays, LeavesSubcomponent
<1> DEFINE p == e[1]
           s == e[2]
<1>0. /\ e \in graph' /\ e = <<p, s>> /\ p \in Signals /\ s \in Signals
      /\ s \in hasBeenScheduled' \ copies'
      /\ p \in Predecessors(s)'
  BY DEF TimedEdges, TypeOK, Edges, Predecessors
<1>1. KeepsTimes
  BY StepKeepsTimes
<1>2. CASE s \in hasBeenScheduled
  <2>1. s \in hasBeenScheduled \ copies /\ p \in Predecessors(s)
    BY <1>0, <1>2, FinalPredecessors
  <2>2. e \in graph /\ p \in hasBeenScheduled
    <3>1. p \in hasBeenScheduled
      BY <2>1 DEF AsSoonAsPossible
    <3>2. <<p, s>> \in graph
      BY <2>1 DEF Predecessors
    <3> HIDE DEF p, s
    <3> QED
      BY <1>0, <3>1, <3>2
  <2>3. lifeSpan[p] >= cycle[s] - cycle[p]
    BY <2>1, <2>2 DEF LifeSpanCoversDelays, TimedEdges
  <2>4. lifeSpan'[p] >= lifeSpan[p]
    <3>1. CASE \E t \in Signals : ScheduleCandidate(t)
      <4>1. PICK t \in Signals, latest \in Signals : SetSignalTiming(t, latest)
        BY <3>1 DEF ScheduleCandidate, Predecessors
      <4> QED
        BY <1>0, <4>1, TimingFacts
    <3>2. CASE UNCHANGED lifeSpan
      BY <1>0, <3>2 DEF TypeOK
    <3> QED
      BY <3>1, <3>2, TimingStep
  <2>5. cycle'[s] = cycle[s] /\ cycle'[p] = cycle[p]
    BY <1>1, <2>1, <2>2 DEF KeepsTimes
  <2> QED
    BY <1>0, <2>3, <2>4, <2>5 DEF TypeOK
<1>3. CASE s \notin hasBeenScheduled
  <2>1. ScheduleCandidate(s)
    BY <1>0, <1>3, GraphStep DEF Predecessors
  <2>2. /\ p \in Predecessors(s) /\ p \in hasBeenScheduled
        /\ \E latest \in Signals : SetSignalTiming(s, latest)
    BY <1>0, <2>1 DEF ScheduleCandidate, graphVars, Predecessors
  <2>3. cycle'[p] = cycle[p]
    BY <1>1, <2>2 DEF KeepsTimes
  <2>4. lifeSpan'[p] >= cycle'[s] - cycle[p]
    <3>1. lifeSpan'[p] = IF cycle'[s] - cycle[p] > lifeSpan[p]
                         THEN cycle'[s] - cycle[p] ELSE lifeSpan[p]
      BY <1>0, <2>2 DEF SetSignalTiming
    <3> QED
      BY <1>0, <3>1 DEF TypeOK
  <2> QED
    BY <2>3, <2>4
<1> QED
  BY <1>2, <1>3 DEF p, s

\* In the documented order the lifespan of a signal covers the difference of
\* cycle with each of its readers, so no undeclared delayed name is emitted.
THEOREM LifeSpansCover ==
  ASSUME Disciplined
  PROVE  Spec => []LifeSpanCoversDelays
<1>1. Init => LifeSpanCoversDelays
  BY DEF Init, LifeSpanCoversDelays, TimedEdges
<1>2. /\ DisciplinedInv /\ DisciplinedInv' /\ LifeSpanCoversDelays /\ [Next]_vars
      => LifeSpanCoversDelays'
  BY LifeSpanNext DEF DisciplinedInv
<1> QED
  BY <1>1, <1>2, DisciplinedInvariant, PTL DEF Spec
-----------------------------------------------------------------------------
(***************************************************************************)
(* The registers change no delay: the scheduler implements TimedGraph.     *)
(***************************************************************************)
\* A signal that schedule() has not reached yet is at cycle 0 without delay.
UntimedAtZero == \A s \in Signals \ hasBeenScheduled : cycle[s] = 0 /\ criticalPath[s] = 0

LEMMA UntimedInit == Init => UntimedAtZero
BY DEF Init, UntimedAtZero

LEMMA UntimedNext == TypeOK /\ UntimedAtZero /\ [Next]_vars => UntimedAtZero'
<1> SUFFICES ASSUME TypeOK, UntimedAtZero, [Next]_vars PROVE UntimedAtZero'
  OBVIOUS
<1>1. ASSUME NEW s \in Signals, ScheduleCandidate(s)
      PROVE  UntimedAtZero'
  <2>1. PICK latest \in Signals : SetSignalTiming(s, latest)
    BY <1>1 DEF ScheduleCandidate, Predecessors
  <2> QED
    BY <2>1, TimingFacts DEF UntimedAtZero
<1> QED
  BY <1>1, TimingStep DEF UntimedAtZero

Instant(s) == cycle[s] * Period + criticalPath[s]

\* A delay of total after a signal of cycle c is cut by registers into cycles
\* and a rest that make the same delay together.
LEMMA CutKeepsDelay ==
  ASSUME NEW c \in Nat, NEW total \in Nat
  PROVE  (c + Registers(total)) * Period + Remaining(total) = c * Period + total
<1> DEFINE r == Registers(total)
<1>1. r \in Nat /\ Period \in Nat
  BY RegistersFacts, SchedulerAssumption
<1>2. Remaining(total) = total - r * Period
  BY DEF Remaining
<1> HIDE DEF r
<1>3. (c + r) * Period = c * Period + r * Period
  BY <1>1, SMT
<1>4. r * Period \in Nat /\ c * Period \in Nat
  BY <1>1, SMT
<1>5. (c + r) * Period + Remaining(total) = c * Period + total
  BY <1>2, <1>3, <1>4, SMT
<1> QED
  BY <1>5 DEF r

\* The order of the scheduler on cycles and critical paths is the one of the
\* instants, because a critical path fits in a period.
LEMMA NoLaterInstant ==
  ASSUME TypeOK, FitsPeriod, NEW p \in Signals, NEW q \in Signals, NoLater(q, p)
  PROVE  Instant(q) <= Instant(p)
<1> DEFINE cp == cycle[p]
           cq == cycle[q]
           dp == criticalPath[p]
           dq == criticalPath[q]
<1>1. cp \in Nat /\ cq \in Nat /\ dp \in Nat /\ dq \in Nat /\ Period \in Nat
  BY SchedulerAssumption DEF TypeOK
<1>2. cq < cp => dq <= Period
  BY <1>1 DEF FitsPeriod
<1>3. cq < cp \/ (cq = cp /\ dq <= dp)
  BY DEF NoLater
<1> HIDE DEF cp, cq, dp, dq
<1>4. CASE cq < cp
  <2>1. PICK k \in Nat : cp = cq + 1 + k
    <3>1. cp - cq - 1 \in Nat /\ cp = cq + 1 + (cp - cq - 1)
      BY <1>1, <1>4
    <3> QED
      BY <3>1
  <2>2. cp * Period = cq * Period + Period + k * Period
    BY <1>1, <2>1, SMT
  <2>3. k * Period \in Nat /\ cq * Period \in Nat
    BY <1>1, <2>1, SMT
  <2>4. cq * Period + dq <= cp * Period + dp
    BY <1>1, <1>2, <1>4, <2>2, <2>3, SMT
  <2> QED
    BY <2>4 DEF Instant, cp, cq, dp, dq
<1>5. CASE cq = cp /\ dq <= dp
  <2>1. cq * Period \in Int
    BY <1>1, SMT
  <2>2. cq * Period + dq <= cp * Period + dp
    BY <1>1, <1>5, <2>1, SMT
  <2> QED
    BY <2>2 DEF Instant, cp, cq, dp, dq
<1> QED
  BY <1>3, <1>4, <1>5

\* A functional copy has its time from the start.
CopiesInv == copies \subseteq hasBeenScheduled

LEMMA CopiesInit == Init => CopiesInv
BY DEF Init, CopiesInv

LEMMA CopiesNext == CopiesInv /\ [Next]_vars => CopiesInv'
<1> SUFFICES ASSUME CopiesInv, [Next]_vars PROVE CopiesInv'
  OBVIOUS
<1>1. hasBeenScheduled \subseteq hasBeenScheduled'
  BY TimingStep DEF ScheduleCandidate, SetSignalTiming
<1>2. copies' \subseteq copies \cup hasBeenScheduled'
  BY DEF Next, Construct, StartSchedule, ScheduleStep, Declare, DeclareAssign,
         Assign, AddRegisteredSignalCopy, InPortMap, InPortMapCst, OutPortMap,
         OpenInstance, AddInput, AddOutput, Instance, NewSharedInstance, NextIteration, ScheduleCandidate,
         KeepCandidate, EndIteration, EndSchedule, vars, graphVars
<1> QED
  BY <1>1, <1>2 DEF CopiesInv

PromiseEdges == {e \in graph : e[2] \notin copies}
PromiseInstant == [s \in hasBeenScheduled |-> cycle[s] * Period + criticalPath[s]]

LEMMA PromiseInit == Init => Promise!Init
<1> SUFFICES ASSUME Init PROVE Promise!Init
  OBVIOUS
<1>1. PromiseEdges = {}
  BY DEF Init, PromiseEdges
<1>2. PromiseInstant = [s \in {} |-> 0]
  BY DEF Init, PromiseInstant
<1>3. criticalPathContribution = [s \in Signals |-> 0]
  BY DEF Init
<1> QED
  BY <1>1, <1>2, <1>3 DEF Promise!Init, PromiseEdges, PromiseInstant

\* Timing a signal of the wavefront is the arrival of its value.
LEMMA PromiseArrive ==
  ASSUME TypeOK, FrontInv, FitsPeriod, NEW s \in Signals, ScheduleCandidate(s), s \notin copies
  PROVE  s \in Signals \ Promise!Timed /\ Promise!Arrive(s)
<1> USE DEF TypeOK
<1>1. PICK latest \in Predecessors(s) :
         IsLatest(latest, Predecessors(s)) /\ SetSignalTiming(s, latest)
  BY DEF ScheduleCandidate
<1>2. /\ s \notin hasBeenScheduled
      /\ Predecessors(s) \subseteq hasBeenScheduled
      /\ UNCHANGED <<graph, copies, criticalPathContribution>>
  BY DEF ScheduleCandidate, FrontInv, graphVars
<1>3. latest \in Signals /\ latest \in hasBeenScheduled
  BY <1>1, <1>2 DEF Predecessors
<1> DEFINE total == criticalPath[latest] + criticalPathContribution[s]
<1>4. /\ cycle' = [cycle EXCEPT ![s] = cycle[latest] + Registers(total)]
      /\ criticalPath' = [criticalPath EXCEPT ![s] = Remaining(total)]
      /\ hasBeenScheduled' = hasBeenScheduled \cup {s}
  BY <1>1 DEF SetSignalTiming
<1>5. cycle'[s] = cycle[latest] + Registers(total) /\ criticalPath'[s] = Remaining(total)
  BY <1>4
<1>6. cycle[latest] \in Nat /\ total \in Nat
  BY <1>3
<1>7. cycle'[s] * Period + criticalPath'[s] = cycle[latest] * Period + total
  BY <1>5, <1>6, CutKeepsDelay
<1>8. cycle[latest] * Period \in Nat
  BY <1>6, SchedulerAssumption, SMT
<1>9. cycle'[s] * Period + criticalPath'[s] = PromiseInstant[latest] + criticalPathContribution[s]
  BY <1>3, <1>7, <1>8 DEF PromiseInstant
<1>10. \A t \in hasBeenScheduled :
         cycle'[t] * Period + criticalPath'[t] = cycle[t] * Period + criticalPath[t]
  BY <1>1, <1>2, <1>3, TimingFacts
<1>11. PromiseInstant' = [t \in hasBeenScheduled \cup {s} |->
          IF t = s THEN PromiseInstant[latest] + criticalPathContribution[s]
                   ELSE PromiseInstant[t]]
  BY <1>2, <1>4, <1>9, <1>10 DEF PromiseInstant
<1>12. \A q \in Predecessors(s) : PromiseInstant[q] <= PromiseInstant[latest]
  BY <1>1, <1>2, <1>3, NoLaterInstant DEF IsLatest, Instant, PromiseInstant, Predecessors
<1>13. {p \in Signals : <<p, s>> \in PromiseEdges} = Predecessors(s)
  BY DEF PromiseEdges, Predecessors
<1>14. PromiseEdges' = PromiseEdges
  BY <1>2 DEF PromiseEdges
<1>15. DOMAIN PromiseInstant = hasBeenScheduled
  BY DEF PromiseInstant
<1> HIDE DEF total
<1> QED
  BY <1>1, <1>2, <1>11, <1>12, <1>13, <1>14, <1>15
  DEF Promise!Arrive, Promise!Timed, Promise!Into, PromiseEdges, PromiseInstant

\* Any other step adds edges and sources, or nothing.
LEMMA PromiseGrow ==
  ASSUME Disciplined, TypeOK, TypeOK', ConstructionInv, UntimedAtZero, [Next]_vars,
         \A s \in Signals : ~ScheduleCandidate(s)
  PROVE  Promise!Grow
<1> USE DEF TypeOK
<1>1. /\ UNCHANGED <<cycle, criticalPath>>
      /\ hasBeenScheduled \subseteq hasBeenScheduled'
  BY TimingStep
<1>2. /\ PromiseEdges' \subseteq Signals \X Signals
      /\ criticalPathContribution' \in [Signals -> Nat]
  BY DEF PromiseEdges, Edges
<1>3. copies' \cap {e[2] : e \in graph} \subseteq copies
  BY DEF Next, Construct, StartSchedule, ScheduleStep, Declare, DeclareAssign,
         Assign, AddRegisteredSignalCopy, InPortMap, InPortMapCst, OutPortMap,
         OpenInstance, AddInput, AddOutput, Instance, NewSharedInstance, NextIteration, NewWire,
         KeepCandidate, EndIteration, EndSchedule, vars, graphVars,
         ConstructionInv, DependenciesInv, Dependencies
<1>4. PromiseEdges \subseteq PromiseEdges'
  BY <1>3, GraphStep DEF PromiseEdges
<1>5. \A e \in PromiseEdges' \ PromiseEdges : e[2] \notin hasBeenScheduled'
  BY GraphStep DEF PromiseEdges
<1>6. \A s \in hasBeenScheduled :
         criticalPathContribution'[s] = criticalPathContribution[s]
  BY GraphStep
<1> DEFINE sources == hasBeenScheduled' \ hasBeenScheduled
<1>7. \A e \in PromiseEdges' : e[2] \notin sources
  BY GraphStep DEF PromiseEdges, Edges
<1>8. \A s \in sources : cycle'[s] * Period + criticalPath'[s] = 0
  BY <1>1, SchedulerAssumption DEF UntimedAtZero
<1>9. PromiseInstant' = [s \in hasBeenScheduled \cup sources |->
          IF s \in hasBeenScheduled THEN PromiseInstant[s] ELSE 0]
  BY <1>1, <1>8 DEF PromiseInstant
<1>10. DOMAIN PromiseInstant = hasBeenScheduled
  BY DEF PromiseInstant
<1>11. sources \in SUBSET (Signals \ hasBeenScheduled)
  OBVIOUS
<1>12. \E S \in SUBSET (Signals \ hasBeenScheduled) :
          /\ \A e \in PromiseEdges' : e[2] \notin S
          /\ PromiseInstant' = [s \in hasBeenScheduled \cup S |->
                IF s \in hasBeenScheduled THEN PromiseInstant[s] ELSE 0]
  BY <1>7, <1>9, <1>11
<1>13. \A e \in PromiseEdges' \ PromiseEdges : e[2] \notin hasBeenScheduled
  BY <1>1, <1>5
<1> HIDE DEF sources, TypeOK
<1> QED
  BY ZenonT(40), <1>2, <1>4, <1>6, <1>10, <1>12, <1>13
  DEF Promise!Grow, Promise!Timed, PromiseEdges, PromiseInstant

\* In the documented order the scheduler is the longest-path timing of the
\* signal graph, however often and whenever schedule() is called: pipelining
\* neither adds to nor removes from the delay of a path.
THEOREM SchedulerImplementsTimedGraph ==
  ASSUME Disciplined
  PROVE  Spec => ImplementsTimedGraph
<1> DEFINE Inv == DisciplinedInv /\ FitsPeriod /\ UntimedAtZero /\ CopiesInv
<1>1. Init => Promise!Init
  BY PromiseInit
<1>2. Inv /\ Inv' /\ [Next]_vars => [Promise!Next]_(Promise!graphVars)
  <2> SUFFICES ASSUME Inv, Inv', [Next]_vars PROVE Promise!Next
    OBVIOUS
  <2>1. ASSUME NEW s \in Signals, ScheduleCandidate(s) PROVE Promise!Next
    <3>1. s \notin copies
      BY <2>1 DEF ScheduleCandidate, DisciplinedInv, FrontInv, CopiesInv
    <3> QED
      BY <2>1, <3>1, PromiseArrive DEF DisciplinedInv, Promise!Next
  <2>2. ASSUME \A s \in Signals : ~ScheduleCandidate(s) PROVE Promise!Next
    BY <2>2, PromiseGrow DEF DisciplinedInv, Promise!Next
  <2> QED
    BY <2>1, <2>2
<1>3. Spec => []Inv
  BY DisciplinedInvariant, TypeInit, TypeNext, FitsInit, FitsNext, UntimedInit,
     UntimedNext, CopiesInit, CopiesNext, PTL DEF Spec
<1> QED
  BY <1>1, <1>2, <1>3, PTL DEF Spec, ImplementsTimedGraph, Promise!Spec


-----------------------------------------------------------------------------
(***************************************************************************)
(* schedule() leaves nothing behind that it could have timed, in whatever  *)
(* order the constructors declare, assign and connect.                     *)
(***************************************************************************)
\* The signals schedule() may still time: a successor of what it has walked.
OpenFront == {t \in Signals \ hasBeenScheduled : \E s \in alreadyScheduled : <<s, t>> \in graph}

\* While schedule() runs, the wavefront holds all of those, and if the current
\* iteration has timed nothing yet, none of those it has examined is ready.
Progress == Cardinality(alreadyScheduled) > numberScheduled

WavefrontInv ==
  /\ alreadyScheduled \subseteq hasBeenScheduled
  /\ phase # "build" =>
       /\ \A s \in ListedSignals : Predecessors(s) = {} => s \in hasBeenScheduled
       /\ OpenFront \subseteq successorsFront \cup nextIterationFront
       /\ Progress \/ \A t \in nextIterationFront : ~Ready(t)
  /\ phase = "iterate" => Cardinality(alreadyScheduled) >= numberScheduled

CompleteInv == TypeOK /\ FrontInv /\ WavefrontInv

LEMMA WavefrontInit == Init => WavefrontInv
BY DEF Init, WavefrontInv

\* The constructor runs outside of schedule().
LEMMA WavefrontConstruct == TypeOK /\ WavefrontInv /\ Construct => WavefrontInv'
<1> SUFFICES ASSUME TypeOK, WavefrontInv, Construct PROVE WavefrontInv'
  OBVIOUS
<1>1. phase' = "build"
  BY DEF Construct, Declare, DeclareAssign, Assign, AddRegisteredSignalCopy,
         InPortMap, InPortMapCst, OutPortMap, OpenInstance, AddInput, AddOutput,
         Instance, NewSharedInstance, NewWire, FreePort, Building, loopVars
<1>2. alreadyScheduled' \subseteq hasBeenScheduled'
  BY DEF Construct, Declare, DeclareAssign, Assign, AddRegisteredSignalCopy,
         InPortMap, InPortMapCst, OutPortMap, OpenInstance, AddInput, AddOutput,
         Instance, NewSharedInstance, timingVars, WavefrontInv
<1> QED
  BY <1>1, <1>2 DEF WavefrontInv

LEMMA WavefrontStart == TypeOK /\ TypeOK' /\ FrontInv /\ WavefrontInv /\ StartSchedule => WavefrontInv'
<1> SUFFICES ASSUME TypeOK, TypeOK', FrontInv, WavefrontInv, StartSchedule PROVE WavefrontInv'
  OBVIOUS
<1>1. alreadyScheduled' \subseteq hasBeenScheduled'
  BY DEF StartSchedule, WavefrontInv
<1>2. ListedSignals' = ListedSignals /\ ListedSignals \subseteq Signals
  BY DEF StartSchedule, ListedSignals, instanceVars, TypeOK
<1>3. ASSUME NEW s \in ListedSignals, Predecessors(s)' = {} PROVE s \in hasBeenScheduled'
  <2>1. \A e \in graph' : e[2] # s
    BY <1>2, <1>3 DEF Predecessors, TypeOK, Edges
  <2> QED
    BY <2>1 DEF StartSchedule
<1>4. nextIterationFront' = OpenFront' /\ successorsFront' = {} /\ phase' = "test"
  BY DEF StartSchedule, Front, OpenFront
<1>5. Progress' \/ \A t \in nextIterationFront' : ~Ready(t)'
  <2>1. CASE alreadyScheduled' = {}
    BY <1>4, <2>1 DEF OpenFront
  <2>2. CASE alreadyScheduled' # {}
    <3>1. IsFiniteSet(alreadyScheduled')
      BY SchedulerAssumption, FS_Subset DEF TypeOK
    <3>2. Cardinality(alreadyScheduled') \in Nat /\ Cardinality(alreadyScheduled') # 0
      BY <2>2, <3>1, FS_CardinalityType, FS_EmptySet
    <3> QED
      BY <3>2 DEF StartSchedule, Progress
  <2> QED
    BY <2>1, <2>2
<1> QED
  BY <1>1, <1>2, <1>3, <1>4, <1>5 DEF WavefrontInv

LEMMA WavefrontCandidate ==
  ASSUME TypeOK, TypeOK', FrontInv, WavefrontInv, NEW s \in Signals, ScheduleCandidate(s)
  PROVE  WavefrontInv'
<1>1. s \notin hasBeenScheduled /\ s \notin alreadyScheduled
  BY DEF ScheduleCandidate, FrontInv, WavefrontInv
<1>2. /\ hasBeenScheduled' = hasBeenScheduled \cup {s}
      /\ alreadyScheduled' = alreadyScheduled \cup {s}
      /\ UNCHANGED <<graph, declared, subComponents, numberScheduled, phase>>
      /\ phase = "iterate"
  BY DEF ScheduleCandidate, SetSignalTiming, graphVars, instanceVars
<1>3. \A t \in ListedSignals' : Predecessors(t)' = {} => t \in hasBeenScheduled'
  BY <1>2 DEF ListedSignals, Predecessors, WavefrontInv
<1>4. OpenFront' \subseteq successorsFront' \cup nextIterationFront'
  <2> SUFFICES ASSUME NEW t \in OpenFront' PROVE t \in successorsFront' \cup nextIterationFront'
    OBVIOUS
  <2>1. t \in Signals \ hasBeenScheduled' /\ t # s
    BY <1>2 DEF OpenFront
  <2>2. CASE <<s, t>> \in graph
    BY <2>1, <2>2 DEF ScheduleCandidate, Woken, Successors
  <2>3. CASE <<s, t>> \notin graph
    <3>1. t \in OpenFront
      BY <1>2, <2>1, <2>3 DEF OpenFront
    <3> QED
      BY <1>2, <2>1, <3>1 DEF WavefrontInv, ScheduleCandidate
  <2> QED
    BY <2>2, <2>3
<1>5. Progress'
  <2>1. IsFiniteSet(alreadyScheduled)
    BY SchedulerAssumption, FS_Subset DEF TypeOK
  <2>2. Cardinality(alreadyScheduled') = Cardinality(alreadyScheduled) + 1
    BY <1>1, <1>2, <2>1, FS_AddElement
  <2>3. Cardinality(alreadyScheduled) \in Nat /\ numberScheduled \in Nat
    BY <2>1, FS_CardinalityType DEF TypeOK
  <2> QED
    BY <1>2, <2>2, <2>3 DEF WavefrontInv, Progress
<1>6. Cardinality(alreadyScheduled') >= numberScheduled'
  BY <1>5, CardinalityNat DEF Progress, TypeOK
<1> QED
  BY <1>1, <1>2, <1>3, <1>4, <1>5, <1>6 DEF WavefrontInv

LEMMA WavefrontStep == TypeOK /\ TypeOK' /\ FrontInv /\ WavefrontInv /\ [Next]_vars => WavefrontInv'
<1> SUFFICES ASSUME TypeOK, TypeOK', FrontInv, WavefrontInv, [Next]_vars PROVE WavefrontInv'
  OBVIOUS
<1> USE DEF graphVars, instanceVars, timingVars, loopVars
<1>1. CASE NextIteration
  <2>1. Cardinality(alreadyScheduled) \in Nat
    BY CardinalityNat DEF TypeOK
  <2>2. OpenFront' \subseteq successorsFront' \cup nextIterationFront'
    BY <1>1 DEF NextIteration, FrontInv, WavefrontInv, OpenFront
  <2> QED
    BY <1>1, <2>1, <2>2 DEF NextIteration, WavefrontInv, ListedSignals, Predecessors
<1>2. ASSUME NEW s \in Signals, KeepCandidate(s) PROVE WavefrontInv'
  <2>1. OpenFront' \subseteq successorsFront' \cup nextIterationFront'
    BY <1>2 DEF KeepCandidate, WavefrontInv, OpenFront
  <2>2. Progress' \/ \A t \in nextIterationFront' : ~Ready(t)'
    BY <1>2 DEF KeepCandidate, WavefrontInv, Progress, Ready, Predecessors
  <2> QED
    BY <1>2, <2>1, <2>2 DEF KeepCandidate, WavefrontInv, ListedSignals, Predecessors
<1>3. CASE EndIteration
  <2>1. OpenFront' \subseteq successorsFront' \cup nextIterationFront'
    BY <1>3 DEF EndIteration, WavefrontInv, OpenFront
  <2>2. Progress' \/ \A t \in nextIterationFront' : ~Ready(t)'
    BY <1>3 DEF EndIteration, WavefrontInv, Progress, Ready, Predecessors
  <2> QED
    BY <1>3, <2>1, <2>2 DEF EndIteration, WavefrontInv, ListedSignals, Predecessors
<1>4. CASE EndSchedule
  BY <1>4 DEF EndSchedule, WavefrontInv
<1>5. CASE UNCHANGED vars
  BY <1>5 DEF vars, WavefrontInv, ListedSignals, Predecessors, OpenFront, Progress, Ready
<1> QED
  BY <1>1, <1>2, <1>3, <1>4, <1>5, WavefrontConstruct, WavefrontStart, WavefrontCandidate
  DEF Next, ScheduleStep

\* What the end of schedule() finds, as the property says it.
EndsComplete ==
  phase = "test" /\ phase' = "build" =>
    \A s \in Untimed : \/ s \in IO /\ Predecessors(s) = {}
                       \/ \E p \in Predecessors(s) : p \notin alreadyScheduled

LEMMA CompleteEnd == CompleteInv /\ [Next]_vars => EndsComplete
<1> SUFFICES ASSUME CompleteInv, [Next]_vars, phase = "test", phase' = "build", NEW s \in Untimed,
                    Predecessors(s) \subseteq alreadyScheduled
             PROVE  s \in IO /\ Predecessors(s) = {}
  BY DEF EndsComplete
<1> USE DEF CompleteInv
<1>1. EndSchedule
  BY DEF Next, Construct, Declare, DeclareAssign, Assign, AddRegisteredSignalCopy,
         InPortMap, InPortMapCst, OutPortMap, OpenInstance, AddInput, AddOutput,
         Instance, NewSharedInstance, NewWire, FreePort, Building, StartSchedule, ScheduleStep,
         NextIteration, ScheduleCandidate, KeepCandidate, EndIteration, vars, loopVars
<1>2. \A t \in nextIterationFront : ~Ready(t)
  BY <1>1 DEF EndSchedule, StillMoving, WavefrontInv, Progress
<1>3. s \in Signals /\ s \notin hasBeenScheduled
  BY DEF Untimed, TypeOK
<1>4. Predecessors(s) = {}
  <2> SUFFICES ASSUME NEW p \in Predecessors(s) PROVE FALSE
    OBVIOUS
  <2>1. s \in OpenFront
    BY <1>3 DEF OpenFront, Predecessors
  <2>2. s \in nextIterationFront
    BY <2>1 DEF WavefrontInv, FrontInv
  <2> QED
    BY <1>2, <2>2 DEF Ready, WavefrontInv
<1>5. s \in IO
  BY <1>3, <1>4 DEF WavefrontInv, ListedSignals, Untimed
<1> QED
  BY <1>4, <1>5

\* When schedule() returns it has timed every signal all of whose predecessors
\* have a time, whatever was declared, driven or connected when it was called,
\* loops and half-built statements included.
THEOREM NothingIsLeftBehind == Spec => ScheduleIsComplete
<1>1. CompleteInv /\ [Next]_vars => CompleteInv'
  BY TypeNext, FrontNext, WavefrontStep DEF CompleteInv
<1>2. Spec => []CompleteInv
  BY <1>1, TypeInit, FrontInit, WavefrontInit, PTL DEF Spec, CompleteInv
<1>3. CompleteInv /\ [Next]_vars => [EndsComplete]_vars
  BY CompleteEnd
<1>4. Spec => [][EndsComplete]_vars
  BY <1>2, <1>3, PTL DEF Spec
<1> QED
  BY <1>4 DEF ScheduleIsComplete, EndsComplete

-----------------------------------------------------------------------------
(***************************************************************************)
(* No register is needed on the port map of an instance, and all the ports *)
(* of a shared instance agree on the delay of each of its inputs.          *)
(***************************************************************************)

\* What a construction in the documented order says of the signals that are
\* connected by a port: such a signal has no other predecessor, and no delay.
OnlyEdge(e) == \A other \in Dependencies : other[2] = e[2] => other = e

ContributionsInv ==
  \A s \in Signals : s \in IO \/ s \notin declared => criticalPathContribution[s] = 0

CrossEdgesInv ==
  \A e \in Dependencies : Owner[e[1]] # Owner[e[2]] =>
     OnlyEdge(e) /\ criticalPathContribution[e[2]] = 0

WaitingPortsInv ==
  /\ \A m, n \in portMap : m[1] = n[1] => m = n
  /\ \A m \in portMap : m[1] \in Outputs =>
       /\ \A n \in portMap : n[1] \in Outputs /\ m[2] = n[2] => m = n
       /\ OnlyEdge(m)
       /\ criticalPathContribution[m[2]] = 0
       /\ m[2] \notin Clones

\* A clone depends on the actual inputs of its instance, and has no delay.
ClonesInv ==
  /\ copies \cap Clones = {}
  /\ \A shared \in sharedActuals : \A clone \in shared[2] :
       /\ clone \in Clones \cap declared \cap driven
       /\ criticalPathContribution[clone] = 0
       /\ \A p \in Signals : <<p, clone>> \in graph <=> p \in shared[1]
       /\ \A e \in Dependencies : e[2] = clone => e \in graph

PortsInv == ContributionsInv /\ CrossEdgesInv /\ WaitingPortsInv /\ ClonesInv

LEMMA PortsInit == Init => PortsInv
BY SchedulerAssumption
DEF Init, PortsInv, ContributionsInv, CrossEdgesInv, WaitingPortsInv, ClonesInv, Dependencies

-----------------------------------------------------------------------------
(***************************************************************************)
(* Each step of the construction keeps it.                                 *)
(***************************************************************************)
LEMMA PortsDeclareAssign ==
  ASSUME Disciplined, TypeOK, ConstructionInv, PortsInv, NEW s \in SignalsOf(current),
         NEW c \in Contributions, NEW R \in SUBSET Reads[s], DeclareAssign(s, c, R)
  PROVE  PortsInv'
<1> USE SchedulerAssumption DEF TypeOK, Edges, Building, SignalsOf, IO, instanceVars,
          timingVars, loopVars, DeclareAssign, NewWire, PortsInv
<1>1. /\ Dependencies' = Dependencies \cup {<<p, s>> : p \in R}
      /\ \A e \in Dependencies : e[2] # s
      /\ \A p \in R : Owner[p] = Owner[s]
  BY DEF Dependencies, ConstructionInv, DependenciesInv
<1>2. ContributionsInv'
  BY DEF ContributionsInv
<1>3. CrossEdgesInv'
  BY <1>1 DEF CrossEdgesInv, OnlyEdge
<1>4. WaitingPortsInv'
  BY <1>1 DEF WaitingPortsInv, OnlyEdge, ConstructionInv, PortMapInv
<1>5. ClonesInv'
  BY <1>1 DEF ClonesInv
<1> QED
  BY <1>2, <1>3, <1>4, <1>5

LEMMA PortsAssign ==
  ASSUME Disciplined, TypeOK, ConstructionInv, PortsInv, NEW s \in SignalsOf(current),
         NEW R \in SUBSET Reads[s], Assign(s, R)
  PROVE  PortsInv'
<1> USE SchedulerAssumption DEF TypeOK, Edges, Building, SignalsOf, IO, instanceVars,
          timingVars, loopVars, Assign, PortsInv
<1>1. /\ Dependencies' = Dependencies \cup {<<p, s>> : p \in R}
      /\ \A e \in Dependencies : e[2] # s
      /\ \A p \in R : Owner[p] = Owner[s]
  BY DEF Dependencies, ConstructionInv, DependenciesInv
<1>2. ContributionsInv'
  BY DEF ContributionsInv
<1>3. CrossEdgesInv'
  BY <1>1 DEF CrossEdgesInv, OnlyEdge
<1>4. WaitingPortsInv'
  BY <1>1 DEF WaitingPortsInv, OnlyEdge, ConstructionInv, PortMapInv
<1>5. ClonesInv'
  BY <1>1 DEF ClonesInv
<1> QED
  BY <1>2, <1>3, <1>4, <1>5

LEMMA PortsCopy ==
  ASSUME Disciplined, TypeOK, ConstructionInv, PortsInv, NEW s \in SignalsOf(current),
         NEW source \in SignalsOf(current) \ {s}, AddRegisteredSignalCopy(s, source)
  PROVE  PortsInv'
<1> USE SchedulerAssumption DEF TypeOK, Edges, Building, SignalsOf, IO, instanceVars,
          loopVars, AddRegisteredSignalCopy, NewWire, PortsInv
<1>1. /\ Dependencies' = Dependencies \cup {<<source, s>>}
      /\ \A e \in Dependencies : e[2] # s
      /\ Owner[source] = Owner[s]
  BY DEF Dependencies, ConstructionInv, DependenciesInv
<1>2. ContributionsInv'
  BY DEF ContributionsInv
<1>3. CrossEdgesInv'
  BY <1>1 DEF CrossEdgesInv, OnlyEdge
<1>4. WaitingPortsInv'
  BY <1>1 DEF WaitingPortsInv, OnlyEdge, ConstructionInv, PortMapInv
<1>5. ClonesInv'
  BY <1>1 DEF ClonesInv
<1> QED
  BY <1>2, <1>3, <1>4, <1>5

LEMMA PortsPortMap ==
  ASSUME Disciplined, TypeOK, ConstructionInv, PortsInv, NEW f \in IO,
         NEW actual \in SignalsOf(Root),
         InPortMap(f, actual) \/ InPortMapCst(f, actual) \/ OutPortMap(f, actual)
  PROVE  PortsInv'
<1> USE SchedulerAssumption DEF TypeOK, Edges, Building, SignalsOf, IO, graphVars,
          timingVars, loopVars, FreePort, PortsInv
<1>0. Dependencies' = Dependencies /\ portMap' = portMap \cup {<<f, actual>>}
  BY DEF Dependencies, InPortMap, InPortMapCst, OutPortMap
<1>1. CASE InPortMap(f, actual)
  BY <1>0, <1>1 DEF InPortMap, ContributionsInv, CrossEdgesInv, WaitingPortsInv,
                    ClonesInv, OnlyEdge
<1>2. CASE InPortMapCst(f, actual)
  <2>1. actual \notin declared /\ \A e \in Dependencies : e[2] # actual
    BY <1>2 DEF InPortMapCst, NewWire, ConstructionInv, DependenciesInv
  <2>2. ContributionsInv'
    BY <1>2 DEF InPortMapCst, NewWire, ContributionsInv
  <2>3. CrossEdgesInv'
    BY <1>0, <1>2, <2>1 DEF InPortMapCst, NewWire, CrossEdgesInv, OnlyEdge
  <2>4. WaitingPortsInv'
    BY <1>0, <1>2, <2>1 DEF InPortMapCst, NewWire, WaitingPortsInv, OnlyEdge
  <2>5. ClonesInv'
    BY <1>0, <1>2, <2>1 DEF InPortMapCst, NewWire, ClonesInv
  <2> QED
    BY <2>2, <2>3, <2>4, <2>5
<1>3. CASE OutPortMap(f, actual)
  <2>1. /\ \A e \in Dependencies : e[2] # actual
        /\ actual \in declared => actual \in Outputs
    BY <1>3 DEF OutPortMap, ConstructionInv, SignalsInv, DependenciesInv
  <2>2. ContributionsInv'
    BY <1>3 DEF OutPortMap, ContributionsInv
  <2>3. CrossEdgesInv'
    BY <1>0, <1>3 DEF OutPortMap, CrossEdgesInv, OnlyEdge
  <2>4. criticalPathContribution[actual] = 0
    BY <2>1 DEF ContributionsInv
  <2>5. WaitingPortsInv'
    BY <1>0, <1>3, <2>1, <2>4 DEF OutPortMap, WaitingPortsInv, OnlyEdge
  <2>6. ClonesInv'
    BY <1>0, <1>3 DEF OutPortMap, ClonesInv
  <2> QED
    BY <2>2, <2>3, <2>5, <2>6
<1> QED
  BY <1>1, <1>2, <1>3

\* What the two ways of adding a port add to the graph.
LEMMA PortEdgesFacts ==
  ASSUME TypeOK, NEW f \in Signals
  PROVE  /\ PortEdges(f) = {<<m[2], f>> : m \in {n \in portMap : n[1] = f}}
         /\ {<<e[2], e[1]>> : e \in PortEdges(f)} = {m \in portMap : m[1] = f}
<1> DEFINE M == {m \in portMap : m[1] = f}
<1>1. \A m \in M : m = <<f, m[2]>>
  BY DEF TypeOK, Edges
<1>2. ASSUME NEW m \in M PROVE m \in {<<e[2], e[1]>> : e \in {<<n[2], f>> : n \in M}}
  <2>1. <<m[2], f>> \in {<<n[2], f>> : n \in M}
    OBVIOUS
  <2>2. m = <<<<m[2], f>>[2], <<m[2], f>>[1]>>
    BY <1>1
  <2> HIDE DEF M
  <2> QED
    BY <2>1, <2>2
<1>3. ASSUME NEW e \in {<<m[2], f>> : m \in M} PROVE <<e[2], e[1]>> \in M
  BY <1>1
<1> QED
  BY <1>2, <1>3 DEF PortEdges

LEMMA PortsAddInput ==
  ASSUME Disciplined, TypeOK, ConstructionInv, PortsInv, NEW f \in SignalsOf(current), AddInput(f)
  PROVE  PortsInv'
<1> USE SchedulerAssumption DEF TypeOK, Edges, Building, SignalsOf, IO, instanceVars,
          timingVars, loopVars, AddInput, PortsInv
<1>1. /\ \A e \in Dependencies : e[2] # f
      /\ \A e \in Dependencies' \ Dependencies : \E m \in portMap : m[1] = f /\ e = <<m[2], f>>
      /\ Dependencies \subseteq Dependencies'
  BY PortEdgesFacts DEF Dependencies, ConstructionInv, DependenciesInv
<1>2. criticalPathContribution[f] = 0
  BY DEF ContributionsInv
<1>3. ContributionsInv'
  BY DEF ContributionsInv
<1>4. \A e, n \in Dependencies' \ Dependencies : e = n /\ e[2] = f
  BY <1>1 DEF WaitingPortsInv
<1>5. CrossEdgesInv'
  BY <1>1, <1>2, <1>4 DEF CrossEdgesInv, OnlyEdge
<1>6. \A m \in portMap : m[1] \in Outputs => m[2] # f
  BY DEF ConstructionInv, PortMapInv
<1>7. WaitingPortsInv'
  BY <1>1, <1>4, <1>6 DEF WaitingPortsInv, OnlyEdge
<1>8. ClonesInv'
  BY <1>1, <1>4 DEF ClonesInv, Dependencies
<1> QED
  BY <1>3, <1>5, <1>7, <1>8

LEMMA PortsAddOutput ==
  ASSUME Disciplined, TypeOK, ConstructionInv, PortsInv, NEW f \in SignalsOf(current), AddOutput(f)
  PROVE  PortsInv'
<1> USE SchedulerAssumption DEF TypeOK, Edges, Building, SignalsOf, IO, instanceVars,
          timingVars, loopVars, AddOutput, PortsInv
<1>1. /\ graph' = graph \cup {m \in portMap : m[1] = f}
      /\ Dependencies' = Dependencies \cup {m \in portMap : m[1] = f}
  BY PortEdgesFacts DEF Dependencies
<1>2. \A m \in portMap : m[1] = f => /\ OnlyEdge(m)
                                     /\ criticalPathContribution[m[2]] = 0
                                     /\ m[2] \notin Clones
                                     /\ \A n \in portMap : n[1] = f => m = n
  BY DEF WaitingPortsInv
<1>3. ContributionsInv'
  BY DEF ContributionsInv
<1>4. CrossEdgesInv'
  BY <1>1, <1>2 DEF CrossEdgesInv, OnlyEdge
<1>5. WaitingPortsInv'
  BY <1>1, <1>2 DEF WaitingPortsInv, OnlyEdge
<1>6. ClonesInv'
  BY <1>1, <1>2 DEF ClonesInv
<1> QED
  BY <1>3, <1>4, <1>5, <1>6

LEMMA PortsInstance ==
  ASSUME TypeOK, PortsInv, (\E op \in Operators : OpenInstance(op)) \/ Instance
  PROVE  PortsInv'
BY DEF TypeOK, OpenInstance, Instance, graphVars, timingVars, PortsInv, ContributionsInv,
       CrossEdgesInv, WaitingPortsInv, ClonesInv, OnlyEdge, Dependencies

LEMMA PortsShared ==
  ASSUME Disciplined, TypeOK, ConstructionInv, PortsInv,
         NEW outs \in SharedInstances, NewSharedInstance(outs)
  PROVE  PortsInv'
<1> USE SchedulerAssumption DEF TypeOK, Edges, Building, SignalsOf, IO, timingVars,
          loopVars, PortsInv
<1>1. PICK ins \in SUBSET (declared \cap SignalsOf(Root)) :
         /\ graph' = graph \cup SharedEdges(ins, outs)
         /\ sharedActuals' = sharedActuals \cup {<<ins, {o[1] : o \in outs}>>}
  BY DEF NewSharedInstance
<1>2. /\ outs \subseteq Edges
      /\ Dependencies' = Dependencies \cup SharedEdges(ins, outs) \cup outs
      /\ \A e \in Dependencies : e[2] \notin Ends(outs)
  BY <1>1 DEF NewSharedInstance, Dependencies, ConstructionInv, DependenciesInv
<1>3. /\ \A e \in SharedEdges(ins, outs) \cup outs : Owner[e[1]] = Owner[e[2]] /\ e[2] \in Ends(outs)
      /\ \A e \in SharedEdges(ins, outs) : e[2] \in Clones
      /\ \A e \in outs : e[2] \in Actuals(outs) \ Clones
  BY <1>2 DEF SharedEdges, Ends, Actuals, Clones, NewSharedInstance
<1>4. \A s \in Signals \ Actuals(outs) : criticalPathContribution'[s] = criticalPathContribution[s]
  BY DEF NewSharedInstance
<1>5. ContributionsInv'
  BY <1>4 DEF ContributionsInv, NewSharedInstance, Ends
<1>6. CrossEdgesInv'
  <2> SUFFICES ASSUME NEW e \in Dependencies', Owner[e[1]] # Owner[e[2]]
               PROVE  OnlyEdge(e)' /\ criticalPathContribution'[e[2]] = 0
    BY DEF CrossEdgesInv
  <2>1. e \in Dependencies
    BY <1>2, <1>3
  <2>2. \A other \in Dependencies' : other[2] = e[2] => other \in Dependencies
    BY <1>2, <1>3, <2>1
  <2>3. e[2] \in Signals \ Actuals(outs)
    BY <1>2, <2>1 DEF Ends, Dependencies
  <2> QED
    BY <1>4, <2>1, <2>2, <2>3 DEF CrossEdgesInv, OnlyEdge
<1>7. WaitingPortsInv'
  BY DEF NewSharedInstance, WaitingPortsInv
<1>8. ClonesInv'
  <2>1. ASSUME NEW shared \in sharedActuals', NEW clone \in shared[2]
        PROVE  /\ clone \in Clones \cap declared' \cap driven'
               /\ criticalPathContribution'[clone] = 0
               /\ \A p \in Signals : <<p, clone>> \in graph' <=> p \in shared[1]
               /\ \A e \in Dependencies' : e[2] = clone => e \in graph'
    <3>1. CASE shared \in sharedActuals
      <4>1. /\ clone \in Clones \cap declared \cap driven
            /\ clone \notin Ends(outs)
            /\ criticalPathContribution[clone] = 0
            /\ \A p \in Signals : <<p, clone>> \in graph <=> p \in shared[1]
            /\ \A e \in Dependencies : e[2] = clone => e \in graph
        BY <3>1 DEF ClonesInv, NewSharedInstance
      <4>2. clone \in declared' \cap driven' /\ criticalPathContribution'[clone] = 0
        BY <4>1, <1>4 DEF NewSharedInstance, Ends
      <4>3. \A p : <<p, clone>> \in graph' <=> <<p, clone>> \in graph
        BY <1>1, <1>3, <4>1
      <4> QED
        BY <1>1, <1>2, <1>3, <4>1, <4>2, <4>3
    <3>2. CASE shared = <<ins, {o[1] : o \in outs}>>
      <4>1. PICK o \in outs : clone = o[1]
        BY <3>2
      <4>2. clone \in Ends(outs) /\ clone \in Clones
        BY <4>1 DEF Ends, Clones
      <4>3. clone \in Signals \ declared /\ clone \notin Actuals(outs)
        BY <1>3, <4>2 DEF NewSharedInstance, Actuals
      <4>4. clone \in declared' \cap driven' /\ criticalPathContribution'[clone] = 0
        BY <1>4, <4>2, <4>3 DEF NewSharedInstance, ContributionsInv
      <4>5. \A p \in Signals : <<p, clone>> \in graph' <=> p \in ins
        <5>1. \A p \in Signals : <<p, clone>> \notin graph
          BY <1>2, <4>2 DEF Dependencies
        <5>2. ASSUME NEW p \in ins PROVE <<p, clone>> \in SharedEdges(ins, outs)
          BY <4>1 DEF SharedEdges
        <5>3. ASSUME NEW p \in Signals, <<p, clone>> \in SharedEdges(ins, outs) PROVE p \in ins
          BY <5>3 DEF SharedEdges
        <5> QED
          BY <1>1, <5>1, <5>2, <5>3
      <4>6. \A e \in Dependencies' : e[2] = clone => e \in graph'
        BY <1>1, <1>2, <1>3, <4>2
      <4> QED
        BY <3>2, <4>2, <4>4, <4>5, <4>6
    <3> QED
      BY <1>1, <3>1, <3>2
  <2> QED
    BY <2>1 DEF ClonesInv, NewSharedInstance
<1> QED
  BY <1>5, <1>6, <1>7, <1>8

LEMMA PortsNext ==
  ASSUME Disciplined, TypeOK, ConstructionInv, PortsInv, [Next]_vars
  PROVE  PortsInv'
<1>1. CASE Construct
  <2>1. \A s \in Signals, d \in Contributions : ~Declare(s, d)
    BY DEF Declare
  <2> QED
    BY <1>1, <2>1, PortsDeclareAssign, PortsAssign, PortsCopy, PortsPortMap, PortsAddInput,
       PortsAddOutput, PortsInstance, PortsShared
    DEF Construct, SignalsOf
<1>2. CASE StartSchedule
  <2>1. Dependencies' = Dependencies /\ graph \subseteq graph'
    BY <1>2, StartFacts, GraphStep DEF Dependencies
  <2>2. UNCHANGED <<declared, driven, copies, criticalPathContribution, instanceVars>>
    BY <1>2 DEF StartSchedule
  <2>3. graph' = Dependencies
    BY <1>2, StartFacts
  <2>4. ClonesInv'
    BY <2>1, <2>2, <2>3 DEF PortsInv, ClonesInv, instanceVars, Dependencies
  <2> QED
    BY <2>1, <2>2, <2>4 DEF PortsInv, ContributionsInv, CrossEdgesInv, WaitingPortsInv,
                            OnlyEdge, instanceVars
<1>3. CASE ScheduleStep \/ UNCHANGED vars
  <2>1. UNCHANGED <<graphVars, instanceVars>>
    BY <1>3 DEF ScheduleStep, NextIteration, ScheduleCandidate, KeepCandidate,
                EndIteration, EndSchedule, vars
  <2> QED
    BY <2>1 DEF graphVars, instanceVars, PortsInv, ContributionsInv, CrossEdgesInv,
                WaitingPortsInv, ClonesInv, OnlyEdge, Dependencies
<1> QED
  BY <1>1, <1>2, <1>3 DEF Next

-----------------------------------------------------------------------------
(***************************************************************************)
(* Aligned ports.                                                          *)
(***************************************************************************)
\* A signal without predecessors that has a time has time zero.
SourcesAtZero == \A s \in hasBeenScheduled : Predecessors(s) = {} => cycle[s] = 0

LEMMA SourcesInit == Init => SourcesAtZero
BY DEF Init, SourcesAtZero

LEMMA SourcesNext ==
  ASSUME Disciplined, TypeOK, ConstructionInv, UntimedAtZero, SourcesAtZero, [Next]_vars
  PROVE  SourcesAtZero'
<1> SUFFICES ASSUME NEW s \in hasBeenScheduled', Predecessors(s)' = {}
             PROVE  cycle'[s] = 0
  BY DEF SourcesAtZero
<1>1. Predecessors(s) = {}
  BY GraphStep DEF Predecessors
<1>2. ASSUME NEW t \in Signals, ScheduleCandidate(t)
      PROVE  cycle'[s] = 0
  <2>1. s # t
    BY <1>1, <1>2 DEF ScheduleCandidate
  <2>2. PICK latest \in Signals : SetSignalTiming(t, latest)
    BY <1>2 DEF ScheduleCandidate, Predecessors
  <2>3. s \in hasBeenScheduled /\ s \in Signals /\ cycle'[s] = cycle[s]
    BY <2>1, <2>2, TimingFacts DEF TypeOK
  <2> QED
    BY <1>1, <2>3 DEF SourcesAtZero
<1>3. CASE UNCHANGED cycle
  <2>1. s \in Signals
    BY TypeNext DEF TypeOK
  <2> QED
    BY <1>1, <1>3, <2>1 DEF SourcesAtZero, UntimedAtZero
<1> QED
  BY <1>2, <1>3, TimingStep

AlignedInv == DisciplinedInv /\ FitsPeriod /\ UntimedAtZero /\ PortsInv /\ SourcesAtZero

\* A signal without a delay of its own is in the cycle of its latest predecessor.
LEMMA NoDelayNoRegister ==
  ASSUME AlignedInv, NEW s \in hasBeenScheduled \ copies, Predecessors(s) # {},
         criticalPathContribution[s] = 0
  PROVE  /\ Predecessors(s) \subseteq hasBeenScheduled
         /\ \E p \in Predecessors(s) : IsLatest(p, Predecessors(s)) /\ cycle[s] = cycle[p]
<1> USE DEF AlignedInv, DisciplinedInv
<1>1. PICK p \in Predecessors(s) :
         /\ Predecessors(s) \subseteq hasBeenScheduled
         /\ IsLatest(p, Predecessors(s))
         /\ cycle[s] = cycle[p] + Registers(criticalPath[p] + criticalPathContribution[s])
  BY DEF AsSoonAsPossible
<1>2. cycle[p] \in Nat /\ criticalPath[p] \in Nat
  BY DEF TypeOK, Predecessors
<1>3. IsShared \/ criticalPath[p] <= Period
  BY DEF FitsPeriod, Predecessors
<1>4. Registers(criticalPath[p] + 0) = 0
  BY <1>2, <1>3, SchedulerAssumption DEF Registers
<1> QED
  BY <1>1, <1>2, <1>4

LEMMA AlignedPorts == AlignedInv => PortsAligned
<1> SUFFICES ASSUME AlignedInv PROVE PortsAligned
  OBVIOUS
<1> USE DEF AlignedInv, DisciplinedInv, PortsInv
<1>1. ASSUME NEW e \in TimedEdges, Owner[e[1]] # Owner[e[2]]
      PROVE  cycle[e[1]] = cycle[e[2]]
  <2>1. /\ e \in Dependencies /\ e = <<e[1], e[2]>>
        /\ e[2] \in hasBeenScheduled \ copies
        /\ e[1] \in Predecessors(e[2])
    BY DEF TimedEdges, Dependencies, Predecessors, TypeOK, Edges
  <2>2. criticalPathContribution[e[2]] = 0 /\ OnlyEdge(e)
    BY <1>1, <2>1 DEF CrossEdgesInv
  <2>3. \A p \in Predecessors(e[2]) : p = e[1]
    <3>1. ASSUME NEW p \in Predecessors(e[2]) PROVE p = e[1]
      <4>1. <<p, e[2]>> \in Dependencies
        BY DEF Predecessors, Dependencies
      <4>2. <<p, e[2]>> = e
        BY <2>2, <4>1 DEF OnlyEdge
      <4> QED
        BY <4>2
    <3> QED
      BY <3>1
  <2> QED
    BY <2>1, <2>2, <2>3, NoDelayNoRegister
<1>2. ASSUME NEW shared \in sharedActuals, NEW clone \in shared[2] \cap hasBeenScheduled
      PROVE  /\ clone \in hasBeenScheduled \ copies
             /\ criticalPathContribution[clone] = 0
             /\ Predecessors(clone) = shared[1]
  BY DEF ClonesInv, Predecessors, TypeOK
<1>3. ASSUME NEW shared \in sharedActuals, NEW clone \in shared[2] \cap hasBeenScheduled
      PROVE  /\ \A other \in shared[2] \cap hasBeenScheduled : cycle[other] = cycle[clone]
             /\ \A actual \in shared[1] : /\ actual \in hasBeenScheduled
                                         /\ cycle[actual] <= cycle[clone]
  <2>1. CASE shared[1] = {}
    BY <1>2, <2>1 DEF SourcesAtZero
  <2>2. CASE shared[1] # {}
    <3>1. PICK p \in shared[1] : IsLatest(p, shared[1]) /\ cycle[clone] = cycle[p]
      BY <1>2, <2>2, NoDelayNoRegister
    <3>2. shared[1] \subseteq hasBeenScheduled
      BY <1>2, <2>2, NoDelayNoRegister
    <3>3. \A q \in shared[1] : cycle[q] \in Nat /\ cycle[q] <= cycle[p]
      BY <3>1, <3>2 DEF IsLatest, NoLater, TypeOK
    <3>4. ASSUME NEW other \in shared[2] \cap hasBeenScheduled PROVE cycle[other] = cycle[clone]
      <4>1. PICK q \in shared[1] : IsLatest(q, shared[1]) /\ cycle[other] = cycle[q]
        BY <1>2, <2>2, NoDelayNoRegister
      <4>2. cycle[p] <= cycle[q]
        BY <3>3, <4>1 DEF IsLatest, NoLater
      <4> QED
        BY <3>1, <3>3, <4>1, <4>2
    <3> QED
      BY <3>1, <3>2, <3>3, <3>4
  <2> QED
    BY <2>1, <2>2
<1> QED
  BY <1>1, <1>3 DEF PortsAligned

\* In the documented order the port maps of doApplySchedule() are right: no
\* register is needed between a port and its actual, and the delay of each
\* input of a shared instance, counted from its first output, suits them all.
THEOREM PortsAreAligned ==
  ASSUME Disciplined
  PROVE  Spec => []PortsAligned
<1>1. Init => AlignedInv
  BY TypeInit, FrontInit, ConstructionInit, AsapInit, FitsInit, UntimedInit, PortsInit,
     SourcesInit DEF AlignedInv, DisciplinedInv
<1>2. AlignedInv /\ [Next]_vars => AlignedInv'
  BY TypeNext, FrontNext, ConstructionNext, AsapNext, FitsNext, UntimedNext, PortsNext,
     SourcesNext DEF AlignedInv, DisciplinedInv
<1> QED
  BY <1>1, <1>2, AlignedPorts, PTL DEF Spec

\* The construction never leaves a signal half connected, in the documented order.
THEOREM ConstructionIsSound ==
  ASSUME Disciplined
  PROVE  Spec => []ConstructionInv
<1>1. DisciplinedInv => ConstructionInv
  BY DEF DisciplinedInv
<1> QED
  BY <1>1, DisciplinedInvariant, PTL
=============================================================================
