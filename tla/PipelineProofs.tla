--------------------------- MODULE PipelineProofs ---------------------------
(***************************************************************************)
(* Proofs about Pipeline, for every datapath and every schedule of it that *)
(* satisfies the properties proved of Scheduler.                           *)
(***************************************************************************)
EXTENDS Pipeline, TLAPS

\* The operators the code handles: pipelined ones whose functional delays read
\* signals of cycle 0, and those without any functional delay.
HandledDelays ==
  /\ FunctionalCycle = 0
  /\ IsSequential \/ FunctionalSets = {{}}

\* Schedules, without the part on lifespans that ApplySchedule changes.
ScheduleInv ==
  /\ \A s \in Inputs \cup copies : cycle[s] = 0
  /\ \A s \in copies : \A p \in reads[s] : cycle[p] <= FunctionalCycle
  /\ \A p \in Signals : \A s \in Readers(p) : /\ cycle[p] <= cycle[s]
                                              /\ cycle[s] - cycle[p] <= lifeSpan[p]
  /\ ~IsSequential => \A s \in Signals : cycle[s] = 0

\* Once applied, the delays are those of doApplySchedule() and each has its
\* register.
DelayInv ==
  applied => \A s, p \in Signals : /\ delay[s][p] = DelayedBy(s, p)
                                   /\ delay[s][p] <= lifeSpan[p]

\* The strengthening that makes alignment inductive: it holds of the values
\* left by the previous tick and of the content of the registers as well.
AgesInv ==
  /\ \A s \in Signals : wire[s] \subseteq {cycle[s]}
  /\ \A p \in Signals : \A n \in 1 .. MaxCycle + 1 :
       register[p][n] \subseteq {cycle[p] + n}

PipelineInv == TypeOK /\ ScheduleInv /\ DelayInv /\ AgesInv

LEMMA PipelineInit == Init => PipelineInv
<1> SUFFICES ASSUME Init PROVE PipelineInv
  OBVIOUS
<1> USE PipelineAssumption DEF Init
<1>0. lifeSpan \in [Signals -> 0 .. MaxCycle + 1]
  <2>1. 0 .. MaxCycle \subseteq 0 .. MaxCycle + 1
    OBVIOUS
  <2> QED
    BY <2>1
<1>1. TypeOK
  <2>1. delay \in [Signals -> [Signals -> 0 .. MaxCycle + 1]]
    OBVIOUS
  <2>2. wire \in [Signals -> SUBSET Int]
    OBVIOUS
  <2>3. register \in [Signals -> [1 .. MaxCycle + 1 -> SUBSET Int]]
    OBVIOUS
  <2> QED
    BY <1>0, <2>1, <2>2, <2>3 DEF TypeOK
<1>2. ScheduleInv
  BY DEF Schedules, ScheduleInv
<1>3. DelayInv /\ AgesInv
  BY DEF DelayInv, AgesInv
<1> QED
  BY <1>1, <1>2, <1>3 DEF PipelineInv

LEMMA PipelineApply == PipelineInv /\ ApplySchedule => PipelineInv'
<1> SUFFICES ASSUME PipelineInv, ApplySchedule PROVE PipelineInv'
  OBVIOUS
<1> USE PipelineAssumption DEF PipelineInv, ApplySchedule, datapathVars, hardwareVars
<1>0. /\ \A s \in Signals : cycle[s] \in 0 .. MaxCycle
      /\ \A p \in Signals : lifeSpan[p] \in 0 .. MaxCycle + 1
      /\ copies \subseteq Signals /\ reads \in [Signals -> SUBSET Signals]
  BY DEF TypeOK
<1>1. \A s, p \in Signals : DelayedBy(s, p) \in 0 .. MaxCycle + 1
  BY <1>0 DEF DelayedBy
<1>2. \A p \in Signals : FunctionalLifeSpan(p) \in 0 .. MaxCycle + 1
  BY <1>0 DEF FunctionalLifeSpan
<1>3. \A p \in Signals : lifeSpan'[p] = FunctionalLifeSpan(p) /\ lifeSpan'[p] >= lifeSpan[p]
  BY <1>0 DEF FunctionalLifeSpan
<1>4. TypeOK'
  BY <1>1, <1>2 DEF TypeOK
<1>5. ScheduleInv'
  BY <1>0, <1>2, <1>3 DEF ScheduleInv, Readers
<1>6. DelayInv'
  <2> SUFFICES ASSUME NEW s \in Signals, NEW p \in Signals
               PROVE  delay'[s][p] = DelayedBy(s, p)' /\ delay'[s][p] <= lifeSpan'[p]
    BY DEF DelayInv
  <2>1. delay'[s][p] = DelayedBy(s, p)
    OBVIOUS
  <2>0. DelayedBy(s, p)' = DelayedBy(s, p)
    BY DEF DelayedBy
  <2>2. CASE s \in copies
    BY <1>0, <1>3, <2>0, <2>1, <2>2 DEF DelayedBy, FunctionalLifeSpan
  <2>3. CASE s \notin copies
    <3>1. CASE p \in reads[s]
      <4>1. cycle[s] - cycle[p] <= lifeSpan[p]
        BY <2>3, <3>1 DEF ScheduleInv, Readers
      <4>2. /\ cycle[s] \in Int /\ cycle[p] \in Int
            /\ lifeSpan[p] \in Int /\ lifeSpan[p] >= 0
            /\ lifeSpan'[p] \in Int /\ lifeSpan'[p] >= lifeSpan[p]
        BY <1>0, <1>2, <1>3
      <4>3. DelayedBy(s, p) \in Int /\ DelayedBy(s, p) <= lifeSpan[p]
        BY <2>3, <4>1, <4>2 DEF DelayedBy
      <4> QED
        BY <2>0, <2>1, <4>2, <4>3
    <3>2. CASE p \notin reads[s]
      <4>1. DelayedBy(s, p) = 0
        BY <3>2 DEF DelayedBy
      <4>2. lifeSpan[p] >= 0 /\ lifeSpan'[p] >= lifeSpan[p] /\ lifeSpan'[p] \in Int
        BY <1>0, <1>2, <1>3
      <4> QED
        BY <1>0, <2>0, <2>1, <4>1, <4>2
    <3> QED
      BY <3>1, <3>2
  <2> QED
    BY <2>1, <2>2, <2>3
<1>7. AgesInv'
  BY DEF AgesInv
<1> QED
  BY <1>4, <1>5, <1>6, <1>7

\* What a statement reads has the age its own cycle calls for.
LEMMA ReadAges ==
  ASSUME HandledDelays, PipelineInv, applied, NEW s \in Signals, NEW p \in reads[s]
  PROVE  ValueOf(p, delay[s][p]) \subseteq {IF s \in copies THEN 1 ELSE cycle[s]}
<1> USE PipelineAssumption DEF PipelineInv
<1>0. /\ p \in Signals /\ cycle[s] \in 0 .. MaxCycle /\ cycle[p] \in 0 .. MaxCycle
      /\ delay[s][p] \in 0 .. MaxCycle + 1 /\ delay[s][p] = DelayedBy(s, p)
  BY DEF TypeOK, DelayInv
<1>1. ValueOf(p, delay[s][p]) \subseteq {cycle[p] + delay[s][p]}
  BY <1>0 DEF ValueOf, AgesInv
<1>2. CASE s \in copies
  <2>1. IsSequential
    BY <1>2 DEF HandledDelays, TypeOK
  <2>2. cycle[p] = 0
    BY <1>0, <1>2 DEF HandledDelays, ScheduleInv
  <2> QED
    BY <1>0, <1>1, <1>2, <2>1, <2>2 DEF DelayedBy
<1>3. CASE s \notin copies
  <2>1. cycle[p] <= cycle[s]
    BY <1>0, <1>3 DEF ScheduleInv, Readers
  <2>2. cycle[p] + delay[s][p] = cycle[s]
    BY <1>0, <1>3, <2>1 DEF DelayedBy, ScheduleInv
  <2> QED
    BY <1>1, <1>3, <2>2
<1> QED
  BY <1>2, <1>3

LEMMA PipelineDrive ==
  ASSUME PipelineInv, NEW s \in Signals, DriveInput(s)
  PROVE  PipelineInv'
<1> USE PipelineAssumption DEF PipelineInv, DriveInput, datapathVars
<1>1. TypeOK'
  BY DEF TypeOK
<1>2. ScheduleInv' /\ DelayInv'
  BY DEF ScheduleInv, DelayInv, DelayedBy, Readers
<1>3. AgesInv'
  BY DEF AgesInv, TypeOK, ScheduleInv
<1> QED
  BY <1>1, <1>2, <1>3

LEMMA PipelineEvaluate ==
  ASSUME HandledDelays, PipelineInv, NEW s \in Signals, Evaluate(s)
  PROVE  PipelineInv'
<1> USE PipelineAssumption DEF PipelineInv, datapathVars
<1> DEFINE ages == UNION {ValueOf(p, delay[s][p]) : p \in reads[s]}
           value == IF s \in copies THEN Reference(ages) ELSE ages
<1>1. ages \subseteq {IF s \in copies THEN 1 ELSE cycle[s]}
  BY ReadAges DEF Evaluate
<1>2. cycle[s] \in Int /\ (s \in copies => cycle[s] = 0)
  BY DEF TypeOK, ScheduleInv
<1> HIDE DEF ages
<1>3. value \subseteq {cycle[s]}
  <2>1. CASE s \in copies
    <3>1. ages \subseteq {1}
      BY <1>1, <2>1
    <3>2. \A n \in Reference(ages) : n = 0
      BY <3>1 DEF Reference
    <3> QED
      BY <1>2, <2>1, <3>2
  <2>2. CASE s \notin copies
    BY <1>1, <2>2
  <2> QED
    BY <2>1, <2>2
<1>4. wire' = [wire EXCEPT ![s] = value]
  BY DEF Evaluate, ages
<1>f. /\ settled' = settled \cup {s}
      /\ UNCHANGED <<reads, copies, cycle, lifeSpan, delay, applied, register>>
  BY DEF Evaluate
<1> HIDE DEF value
<1>v. wire \in [Signals -> SUBSET Int]
  BY DEF TypeOK
<1>w. /\ wire' \in [Signals -> SUBSET Int]
      /\ \A t \in Signals : wire'[t] = IF t = s THEN value ELSE wire[t]
  BY <1>2, <1>3, <1>4, <1>v
<1>5. TypeOK'
  BY <1>f, <1>w DEF TypeOK
<1>6. ScheduleInv' /\ DelayInv'
  BY <1>f DEF ScheduleInv, DelayInv, DelayedBy, Readers
<1>7. AgesInv'
  BY <1>3, <1>f, <1>w DEF AgesInv
<1> QED
  BY <1>5, <1>6, <1>7

LEMMA PipelineClock ==
  ASSUME PipelineInv, ClockEdge
  PROVE  PipelineInv'
<1> USE PipelineAssumption DEF PipelineInv, ClockEdge, datapathVars
<1>1. \A p \in Signals : \A n \in 1 .. MaxCycle + 1 :
        Registered(p, n) \subseteq {cycle[p] + n}
  <2> SUFFICES ASSUME NEW p \in Signals, NEW n \in 1 .. MaxCycle + 1
               PROVE  Registered(p, n) \subseteq {cycle[p] + n}
    OBVIOUS
  <2>0. cycle[p] \in Int
    BY DEF TypeOK
  <2>1. CASE n = 1
    BY <2>0, <2>1 DEF Registered, Aged, AgesInv
  <2>2. CASE n # 1
    <3>1. n - 1 \in 1 .. MaxCycle + 1
      BY <2>2
    <3>2. register[p][n - 1] \subseteq {cycle[p] + (n - 1)}
      BY <3>1 DEF AgesInv
    <3> QED
      BY <2>0, <2>2, <3>2 DEF Registered, Aged
  <2> QED
    BY <2>1, <2>2
<1>2. \A p \in Signals : cycle[p] \in Int
  BY DEF TypeOK
<1>3. \A p \in Signals : \A n \in 1 .. MaxCycle + 1 : Registered(p, n) \in SUBSET Int
  BY <1>1, <1>2
<1>4. TypeOK'
  BY <1>3 DEF TypeOK
<1>5. ScheduleInv' /\ DelayInv'
  BY DEF ScheduleInv, DelayInv, DelayedBy, Readers
<1>6. AgesInv'
  BY <1>1 DEF AgesInv
<1> QED
  BY <1>4, <1>5, <1>6

LEMMA PipelineInvariant ==
  ASSUME HandledDelays
  PROVE  Spec => []PipelineInv
<1>1. PipelineInv /\ [Next]_vars => PipelineInv'
  <2> SUFFICES ASSUME PipelineInv, [Next]_vars PROVE PipelineInv'
    OBVIOUS
  <2>1. CASE UNCHANGED vars
    BY <2>1 DEF vars, datapathVars, hardwareVars, PipelineInv, TypeOK, ScheduleInv,
                DelayInv, AgesInv, DelayedBy, Readers
  <2> QED
    BY <2>1, PipelineApply, PipelineDrive, PipelineEvaluate, PipelineClock DEF Next
<1> QED
  BY <1>1, PipelineInit, PTL DEF Spec

\* The pipelined operator never combines two waves: every settled signal of
\* cycle c carries the wave that entered c ticks ago, whatever the datapath,
\* its schedule and the order in which the statements settle.
THEOREM Alignment ==
  ASSUME HandledDelays
  PROVE  Spec => []WavesAligned
<1>1. PipelineInv => WavesAligned
  BY DEF PipelineInv, AgesInv, WavesAligned, TypeOK
<1> QED
  BY <1>1, PipelineInvariant, PTL

\* Every delayed name of the generated VHDL is declared.
THEOREM RegistersDeclared ==
  ASSUME HandledDelays
  PROVE  Spec => []NoUndeclaredRegister
<1>1. PipelineInv => NoUndeclaredRegister
  BY DEF PipelineInv, DelayInv, NoUndeclaredRegister
<1> QED
  BY <1>1, PipelineInvariant, PTL

\* The generated hardware keeps its type: no delay or lifespan exceeds the last
\* register there can be, and every register holds ages.
THEOREM HardwareTypes ==
  ASSUME HandledDelays
  PROVE  Spec => []TypeOK
<1>1. PipelineInv => TypeOK
  BY DEF PipelineInv
<1> QED
  BY <1>1, PipelineInvariant, PTL
=============================================================================
