------------------------------ MODULE Pipeline ------------------------------
(***************************************************************************)
(* What the generated VHDL of one operator does, clock tick after clock    *)
(* tick.  Operator::applySchedule() turns the cycles of a finished schedule*)
(* into delayed names (doApplySchedule) and registers (buildVHDLRegisters);*)
(* the architecture then runs, its statements settling in any order        *)
(* between two clock edges.                                                *)
(*                                                                         *)
(* Data is abstracted to its age: a value is the set of the ages, in clock *)
(* ticks, of the input waves it was computed from.  {} depends on no input *)
(* (a constant, or the content of a register at power-up), {n} on the wave *)
(* that entered n ticks ago, and two ages mean that a statement combined   *)
(* data of two different waves.                                            *)
(***************************************************************************)
EXTENDS Integers

CONSTANTS
  Signals, Inputs, Outputs,
  Datapaths,      \* the possible datapaths: reads[s] is what s is computed from
  FunctionalSets, \* the possible sets of addRegisteredSignalCopy() targets
  MaxCycle,       \* bound: the last cycle a signal may be scheduled at
  FunctionalCycle,\* bound: the last cycle of the source of a functional copy
  IsSequential    \* isSequential(): FALSE when the target frequency is 0

ASSUME PipelineAssumption ==
  /\ Inputs \subseteq Signals
  /\ Outputs \subseteq Signals
  /\ Datapaths \subseteq [Signals -> SUBSET Signals]
  /\ FunctionalSets \subseteq SUBSET Signals
  /\ MaxCycle \in Nat
  /\ FunctionalCycle \in Nat
  /\ IsSequential \in BOOLEAN

VARIABLES
  reads, copies,     \* the datapath, fixed once built
  cycle, lifeSpan,   \* its schedule
  delay,             \* delay[s][p]: the n of p_dn in the statement of s
  applied,           \* TRUE once the VHDL is generated
  wire,              \* the value of each signal
  register,          \* register[p][n]: the value of p_dn
  settled            \* the signals with their final value in this tick

datapathVars == <<reads, copies, cycle>>
hardwareVars == <<wire, register, settled>>
vars == <<datapathVars, lifeSpan, delay, applied, hardwareVars>>

Aged(ages) == {n + 1 : n \in ages}

\* One functional delay in the specification of the operator: the wave of z^-1
\* at some tick is the one its source had at the tick before.
Reference(ages) == {n - 1 : n \in ages}

-----------------------------------------------------------------------------
(***************************************************************************)
(* The schedules schedule() can leave: Causal and LifeSpanCoversDelays of  *)
(* module Scheduler.  A functional copy stays at cycle 0 and, scheduled by *)
(* hand, does not count in the lifespan of its source.                     *)
(***************************************************************************)
Readers(p) == {s \in Signals \ copies : p \in reads[s]}

Schedules ==
  /\ \A s \in Inputs \cup copies : cycle[s] = 0
  /\ \A s \in Signals : reads[s] = {} => cycle[s] = 0
  /\ \A s \in copies : \A p \in reads[s] : cycle[p] <= FunctionalCycle
  /\ \A p \in Signals : \A s \in Readers(p) : /\ cycle[p] <= cycle[s]
                                              /\ cycle[s] - cycle[p] <= lifeSpan[p]
  /\ \A p \in Signals :
       lifeSpan[p] = 0 \/ \E s \in Readers(p) : lifeSpan[p] = cycle[s] - cycle[p]
  /\ ~IsSequential => \A s \in Signals : cycle[s] = 0

Init ==
  /\ reads \in Datapaths
  /\ copies \in FunctionalSets
  /\ cycle \in [Signals -> 0 .. MaxCycle]
  /\ lifeSpan \in [Signals -> 0 .. MaxCycle]
  /\ Schedules
  /\ delay = [s \in Signals |-> [p \in Signals |-> 0]]
  /\ applied = FALSE
  /\ wire = [s \in Signals |-> {}]
  /\ register = [p \in Signals |-> [n \in 1 .. MaxCycle + 1 |-> {}]]
  /\ settled = {}

-----------------------------------------------------------------------------
\* A wrong variant of DelayedBy, for a mutation run.
DelayedBySwapped(s, p) ==
  IF ~IsSequential \/ p \notin reads[s] THEN 0
  ELSE IF s \in copies THEN 1
  ELSE IF cycle[s] > cycle[p] THEN cycle[p] - cycle[s] ELSE 0

\* doApplySchedule(): rhs becomes rhs_d(lhs.cycle - rhs.cycle) if that is
\* positive, and the ^1 of a functional copy becomes _d1 with a register of its
\* own; a combinatorial operator gets neither.
DelayedBy(s, p) ==
  IF ~IsSequential \/ p \notin reads[s] THEN 0
  ELSE IF s \in copies THEN 1
  ELSE IF cycle[s] > cycle[p] THEN cycle[s] - cycle[p] ELSE 0

\* A wrong variant of FunctionalLifeSpan, for a mutation run.
LifeSpanAsScheduled(p) == lifeSpan[p]

\* The lifespan of a source reaches at least 1 for its functional register.
FunctionalLifeSpan(p) ==
  IF IsSequential /\ lifeSpan[p] = 0 /\ \E s \in copies : p \in reads[s]
  THEN 1 ELSE lifeSpan[p]

ApplySchedule ==
  /\ ~applied
  /\ applied' = TRUE
  /\ delay' = [s \in Signals |-> [p \in Signals |-> DelayedBy(s, p)]]
  /\ lifeSpan' = [p \in Signals |-> FunctionalLifeSpan(p)]
  /\ UNCHANGED <<datapathVars, hardwareVars>>

\* The name p_dn, p itself for n = 0.
ValueOf(p, n) == IF n = 0 THEN wire[p] ELSE register[p][n]

\* The environment drives a new wave in all the inputs at each tick.
DriveInput(s) ==
  /\ applied
  /\ s \in Inputs \ settled
  /\ wire' = [wire EXCEPT ![s] = {0}]
  /\ settled' = settled \cup {s}
  /\ UNCHANGED <<datapathVars, lifeSpan, delay, applied, register>>

\* A concurrent statement, once the undelayed signals it reads are stable.
Evaluate(s) ==
  /\ applied
  /\ s \in Signals \ (Inputs \cup settled)
  /\ \A p \in reads[s] : delay[s][p] = 0 => p \in settled
  /\ LET ages == UNION {ValueOf(p, delay[s][p]) : p \in reads[s]}
     IN wire' = [wire EXCEPT ![s] = IF s \in copies THEN Reference(ages) ELSE ages]
  /\ settled' = settled \cup {s}
  /\ UNCHANGED <<datapathVars, lifeSpan, delay, applied, register>>

\* A wrong variant of Registered, for a mutation run.
RegisteredFromSource(p, n) ==
  IF ~IsSequential \/ n > lifeSpan[p] THEN {} ELSE Aged(wire[p])

\* A wrong variant of Registered, for a mutation run.
RegisteredTooFew(p, n) ==
  IF ~IsSequential \/ n >= lifeSpan[p] THEN {}
  ELSE IF n = 1 THEN Aged(wire[p])
  ELSE Aged(register[p][n - 1])

\* The clock processes: p_d1 <= p, p_dn <= p_d(n-1) up to the lifespan of p.
Registered(p, n) ==
  IF ~IsSequential \/ n > lifeSpan[p] THEN {}
  ELSE IF n = 1 THEN Aged(wire[p])
  ELSE Aged(register[p][n - 1])

ClockEdge ==
  /\ applied
  /\ settled = Signals
  /\ register' = [p \in Signals |-> [n \in 1 .. MaxCycle + 1 |-> Registered(p, n)]]
  /\ settled' = {}
  /\ UNCHANGED <<datapathVars, lifeSpan, delay, applied, wire>>

Next ==
  \/ ApplySchedule
  \/ \E s \in Signals : DriveInput(s) \/ Evaluate(s)
  \/ ClockEdge

\* Signals settle before the next edge and the clock does not stop.
Spec == Init /\ [][Next]_vars /\ WF_vars(Next)

-----------------------------------------------------------------------------
\* Every variable of the generated hardware keeps its type.
TypeOK ==
  /\ reads \in Datapaths
  /\ copies \in FunctionalSets
  /\ cycle \in [Signals -> 0 .. MaxCycle]
  /\ lifeSpan \in [Signals -> 0 .. MaxCycle + 1]
  /\ delay \in [Signals -> [Signals -> 0 .. MaxCycle + 1]]
  /\ applied \in BOOLEAN
  /\ wire \in [Signals -> SUBSET Int]
  /\ register \in [Signals -> [1 .. MaxCycle + 1 -> SUBSET Int]]
  /\ settled \subseteq Signals

\* No statement ever combines data of two waves: a settled signal of cycle c
\* carries the wave that entered c ticks ago.  With functional delays this is
\* also the promise of addRegisteredSignalCopy(), "irrespective of what happens
\* during pipelining" (Operator.hpp).
WavesAligned == \A s \in settled : wire[s] \subseteq {cycle[s]}

\* The registers that the statements name are the ones buildVHDLRegisters()
\* declares: p_dn only for n up to the lifespan of p.
NoUndeclaredRegister ==
  applied => \A s, p \in Signals : delay[s][p] <= lifeSpan[p]

\* Data goes through: the outputs keep settling, and one that reads the inputs,
\* through any number of signals, finally delivers one wave per tick, cycle[o]
\* ticks old: no register of its path is missing from buildVHDLRegisters().
ClosedUnderReads(S) ==
  \A s \in Signals : (s \in Inputs \/ \E p \in reads[s] : p \in S) => s \in S
FromInputs == {s \in Signals : \A S \in SUBSET Signals : ClosedUnderReads(S) => s \in S}

DataFlows == \A o \in Outputs :
  /\ []<>(o \in settled)
  /\ <>[](o \in FromInputs /\ o \in settled => wire[o] = {cycle[o]})
=============================================================================
