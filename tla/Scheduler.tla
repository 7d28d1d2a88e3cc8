----------------------------- MODULE Scheduler -----------------------------
(***************************************************************************)
(* The construction of an operator's signal graph and its scheduling, as   *)
(* done by Operator (src/src/Operator.cpp): the constructor of an operator *)
(* declares signals, emits VHDL statements and instantiates subcomponents; *)
(* schedule() may be called at any moment of that construction and gives   *)
(* every signal whose predecessors are known a cycle and a critical path.  *)
(*                                                                         *)
(* Times are integers in an arbitrary unit.  The hierarchy has two levels: *)
(* the root operator and the subcomponents it instantiates.                *)
(***************************************************************************)
EXTENDS Integers, FiniteSets

CONSTANTS
  Signals,        \* all the signals of all the operators
  Inputs,         \* those created by addInput()
  Outputs,        \* those created by addOutput()
  Operators,      \* the root operator and its possible subcomponents
  Root,           \* the operator whose parentOp_ is null
  Owner,          \* Owner[s] is the parentOp() of signal s
  Contributions,  \* the critical path contributions passed to declare()
  Period,         \* 1/frequency - ffDelay, what fits between two registers
  IsShared,       \* isShared() of the root operator
  SharedInstances,  \* the possible instances of shared operators, each the set of
                    \* its outputs, pairs of a clone and of the actual it is copied to
  Disciplined,    \* TRUE: constructors written in the documented order
  Reads           \* Reads[s]: the signals a statement assigning s may read

IO == Inputs \cup Outputs
Edges == Signals \X Signals

\* A clone has a name of its own, that nothing else declares.
Clones == {o[1] : o \in UNION SharedInstances}

ASSUME SchedulerAssumption ==
  /\ IsFiniteSet(Signals)
  /\ Inputs \subseteq Signals
  /\ Outputs \subseteq Signals
  /\ Inputs \cap Outputs = {}
  /\ Root \in Operators
  /\ Owner \in [Signals -> Operators]
  /\ Contributions \subseteq Nat
  /\ Period \in Nat \ {0}
  /\ IsShared \in BOOLEAN
  /\ SharedInstances \subseteq SUBSET Edges
  /\ \A outs \in SharedInstances : \A o \in outs : o[2] \notin Clones
  /\ Disciplined \in BOOLEAN
  /\ Reads \in [Signals -> SUBSET Signals]
  /\ \A s \in Signals : \A p \in Reads[s] : Owner[p] = Owner[s]

VARIABLES
  declared,                 \* signalMap_ of all the operators
  driven,                   \* signals with a statement or a port that drives them
  copies,                   \* targets of addRegisteredSignalCopy()
  criticalPathContribution,
  dependenceTable,          \* dependencies not moved to the graph yet
  graph,                    \* predecessors_ and successors_ of all the signals
  current,                  \* the operator whose constructor is running
  subComponents,            \* subComponentList_ of the root operator
  portMap,                  \* tmpInPortMap_ and tmpOutPortMap_ of the root
  sharedActuals,            \* the shared instances of the root, in instanceActualIO_:
                            \* pairs of the actual inputs and of the clones
  hasBeenScheduled,         \* the signals whose flag is set
  alreadyScheduled,         \* the root operator's list
  cycle, criticalPath, lifeSpan,
  phase,                    \* where schedule() is; "build" outside of it
  successorsFront,          \* candidates left in the current iteration
  nextIterationFront,
  numberScheduled

graphVars == <<declared, driven, copies, criticalPathContribution,
               dependenceTable, graph>>
instanceVars == <<current, subComponents, portMap, sharedActuals>>
timingVars == <<hasBeenScheduled, alreadyScheduled, cycle, criticalPath, lifeSpan>>
loopVars == <<phase, successorsFront, nextIterationFront, numberScheduled>>
vars == <<graphVars, instanceVars, timingVars, loopVars>>

Predecessors(s) == {p \in Signals : <<p, s>> \in graph}
Successors(s) == {t \in Signals : <<s, t>> \in graph}
SignalsOf(op) == {s \in Signals : Owner[s] = op}

\* Lexicographic order on (cycle, critical path).
NoLater(p, q) == \/ cycle[p] < cycle[q]
                 \/ cycle[p] = cycle[q] /\ criticalPath[p] <= criticalPath[q]

Init ==
  /\ declared = {}
  /\ driven = {}
  /\ copies = {}
  /\ criticalPathContribution = [s \in Signals |-> 0]
  /\ dependenceTable = {}
  /\ graph = {}
  /\ current = Root
  /\ subComponents = {}
  /\ portMap = {}
  /\ sharedActuals = {}
  /\ hasBeenScheduled = {}
  /\ alreadyScheduled = {}
  /\ cycle = [s \in Signals |-> 0]
  /\ criticalPath = [s \in Signals |-> 0]
  /\ lifeSpan = [s \in Signals |-> 0]
  /\ phase = "build"
  /\ successorsFront = {}
  /\ nextIterationFront = {}
  /\ numberScheduled = 0

-----------------------------------------------------------------------------
(***************************************************************************)
(* Construction: the calls a constructor makes.                            *)
(***************************************************************************)
Building == phase = "build"

\* A new wire of the running operator (initNewSignal): time (0,0).
NewWire(s, c) ==
  /\ Building
  /\ s \in SignalsOf(current) \ (IO \cup declared \cup Clones)
  /\ declared' = declared \cup {s}
  /\ criticalPathContribution' = [criticalPathContribution EXCEPT ![s] = c]

\* declare() with its statement later, which the documented order excludes.
Declare(s, c) ==
  /\ ~Disciplined
  /\ NewWire(s, c)
  /\ UNCHANGED <<driven, copies, dependenceTable, graph, instanceVars, timingVars, loopVars>>

\* vhdl << declare(c, "s") << " <= " << ... << ";" : the statement reads R.
DeclareAssign(s, c, R) ==
  /\ NewWire(s, c)
  /\ Disciplined => R \subseteq declared
  /\ driven' = driven \cup {s}
  /\ dependenceTable' = dependenceTable \cup {<<p, s>> : p \in R}
  /\ UNCHANGED <<copies, graph, instanceVars, timingVars, loopVars>>

\* vhdl << "s <= " << ... ; s may be assigned several times, slice by slice,
\* and need not be declared yet.  In the documented order an output gets one
\* statement, after the declaration of all it reads.
Assign(s, R) ==
  /\ Building
  /\ s \in SignalsOf(current) \ (Inputs \cup Clones)
  /\ Disciplined => /\ s \in Outputs \cap declared
                    /\ s \notin driven
                    /\ R \subseteq declared
  /\ driven' = driven \cup {s}
  /\ dependenceTable' = dependenceTable \cup {<<p, s>> : p \in R}
  /\ UNCHANGED <<declared, copies, criticalPathContribution, graph,
                 instanceVars, timingVars, loopVars>>

\* A functional register: the copy is marked as scheduled, at time (0,0).
AddRegisteredSignalCopy(s, source) ==
  /\ NewWire(s, 0)
  /\ source \in declared \cap SignalsOf(current)
  /\ driven' = driven \cup {s}
  /\ copies' = copies \cup {s}
  /\ dependenceTable' = dependenceTable \cup {<<source, s>>}
  /\ hasBeenScheduled' = hasBeenScheduled \cup {s}
  /\ UNCHANGED <<graph, instanceVars, alreadyScheduled, cycle, criticalPath, lifeSpan, loopVars>>

-----------------------------------------------------------------------------
(***************************************************************************)
(* Instances.  The port maps are built first, then the constructor of the  *)
(* subcomponent runs and its addInput() and addOutput() connect each port  *)
(* to the mapped signal, then instance() attaches it to its parent.        *)
(***************************************************************************)
FreePort(f) ==
  /\ Building
  /\ current = Root
  /\ f \in IO
  /\ Owner[f] \notin subComponents \cup {Root}
  /\ \A m \in portMap : m[1] # f /\ Owner[m[1]] = Owner[f]

InPortMap(f, actual) ==
  /\ FreePort(f) /\ f \in Inputs
  /\ actual \in declared \cap SignalsOf(Root)
  /\ portMap' = portMap \cup {<<f, actual>>}
  /\ UNCHANGED <<graphVars, current, subComponents, sharedActuals, timingVars, loopVars>>

\* The actual is a constant signal created for this port, scheduled at once.
InPortMapCst(f, constant) ==
  /\ FreePort(f) /\ f \in Inputs
  /\ NewWire(constant, 0)
  /\ driven' = driven \cup {constant}
  /\ hasBeenScheduled' = hasBeenScheduled \cup {constant}
  /\ alreadyScheduled' = alreadyScheduled \cup {constant}
  /\ portMap' = portMap \cup {<<f, constant>>}
  /\ UNCHANGED <<copies, dependenceTable, graph, current, subComponents, sharedActuals,
                 cycle, criticalPath, lifeSpan, loopVars>>

\* The actual is declared here unless it exists already.
OutPortMap(f, actual) ==
  /\ FreePort(f) /\ f \in Outputs
  /\ actual \in SignalsOf(Root) \ (Inputs \cup Clones)
  /\ actual \in Outputs => actual \in declared
  /\ Disciplined => /\ actual \notin driven
                    /\ \A m \in portMap : m[2] # actual
  /\ declared' = declared \cup {actual}
  /\ driven' = driven \cup {actual}
  /\ portMap' = portMap \cup {<<f, actual>>}
  /\ UNCHANGED <<copies, criticalPathContribution, dependenceTable, graph,
                 current, subComponents, sharedActuals, timingVars, loopVars>>

OpenInstance(op) ==
  /\ Building
  /\ current = Root
  /\ op \notin subComponents \cup {Root}
  /\ \A m \in portMap : Owner[m[1]] = op
  /\ current' = op
  /\ UNCHANGED <<graphVars, subComponents, portMap, sharedActuals, timingVars, loopVars>>

\* connectIOFromPortMap(): nothing to connect in the root operator, and an
\* unmapped port of a subcomponent is fatal.
PortEdges(f) == {<<m[2], f>> : m \in {n \in portMap : n[1] = f}}
Connected(f) == current = Root \/ \E m \in portMap : m[1] = f

AddInput(f) ==
  /\ Building
  /\ f \in (Inputs \cap SignalsOf(current)) \ declared
  /\ Connected(f)
  /\ declared' = declared \cup {f}
  /\ driven' = driven \cup {f}
  /\ graph' = graph \cup PortEdges(f)
  /\ UNCHANGED <<copies, criticalPathContribution, dependenceTable,
                 instanceVars, timingVars, loopVars>>

AddOutput(f) ==
  /\ Building
  /\ f \in (Outputs \cap SignalsOf(current)) \ declared
  /\ Connected(f)
  /\ declared' = declared \cup {f}
  /\ graph' = graph \cup {<<e[2], e[1]>> : e \in PortEdges(f)}
  /\ UNCHANGED <<driven, copies, criticalPathContribution, dependenceTable,
                 instanceVars, timingVars, loopVars>>

\* instance() after the constructor: a mapped output that does not exist is an
\* error; the subcomponent enters the list that schedule() walks.
Instance ==
  /\ Building
  /\ current # Root
  /\ \A m \in portMap : m[1] \in declared
  /\ subComponents' = subComponents \cup {current}
  /\ current' = Root
  /\ portMap' = {}
  /\ UNCHANGED <<graphVars, sharedActuals, timingVars, loopVars>>

\* A wrong variant of SharedEdges, for a mutation run.
EdgesToOneClone(ins, outs) ==
  LET first == CHOOSE o \in outs : TRUE IN {<<i, first[1]>> : i \in ins}

\* An instance of a shared operator, already scheduled on its own, in a
\* sequential one: each output goes to a clone, which depends on all the actual
\* inputs at once, and a statement copies the clone to the actual, which takes
\* on the delay that the output has inside the shared operator.  (An actual
\* that is declared before is not connected at all: left out.)
SharedEdges(ins, outs) == {<<i, o[1]>> : i \in ins, o \in outs}
Actuals(outs) == {o[2] : o \in outs}
Ends(outs) == {o[1] : o \in outs} \cup Actuals(outs)

NewSharedInstance(outs) ==
  /\ Building
  /\ current = Root
  /\ portMap = {}
  /\ Ends(outs) \subseteq SignalsOf(Root) \ (IO \cup declared)
  /\ declared' = declared \cup Ends(outs)
  /\ driven' = driven \cup Ends(outs)
  /\ dependenceTable' = dependenceTable \cup outs
  /\ \E delay \in [Actuals(outs) -> Contributions] :
       criticalPathContribution' =
         [s \in Signals |-> IF s \in Actuals(outs) THEN delay[s] ELSE criticalPathContribution[s]]
  /\ \E ins \in SUBSET (declared \cap SignalsOf(Root)) :
       /\ graph' = graph \cup SharedEdges(ins, outs)
       /\ sharedActuals' = sharedActuals \cup {<<ins, {o[1] : o \in outs}>>}
  /\ UNCHANGED <<copies, current, subComponents, portMap, timingVars, loopVars>>

-----------------------------------------------------------------------------
(***************************************************************************)
(* schedule()                                                              *)
(***************************************************************************)
\* A wrong variant of Moved, for a mutation run.
MovedOfRoot == {e \in dependenceTable :
                  e[1] \in declared /\ e[2] \in declared /\ Owner[e[2]] = Root}

\* The operators whose dependence table is moved: those attached to the root,
\* and the one that called schedule(), attached or not.
Moved == {e \in dependenceTable :
            /\ e[1] \in declared /\ e[2] \in declared
            /\ Owner[e[2]] \in subComponents \cup {Root, current}}

\* A wrong variant of ListedSignals, for a mutation run.
ListedOfRoot == {s \in declared \ IO : Owner[s] = Root}

\* signalList_, which holds neither inputs nor outputs, of the operators that
\* buildAlreadyScheduledList() walks: the caller is not one until attached.
ListedSignals == {s \in declared \ IO : Owner[s] \in subComponents \cup {Root}}

\* A wrong variant of Front, for a mutation run.
FrontUnfiltered(done, edges) ==
  {t \in Signals : \E s \in done : <<s, t>> \in edges}

\* The wavefront: the successors, not scheduled yet, of what is scheduled.
Front(done, edges) ==
  {t \in Signals \ hasBeenScheduled' : \E s \in done : <<s, t>> \in edges}

\* In the documented order schedule() is not called while a mapped port waits
\* for the addInput() or addOutput() that connects it.
StartSchedule ==
  /\ Building
  /\ Disciplined => \A m \in portMap : m[1] \in declared
  /\ dependenceTable' = dependenceTable \ Moved
  /\ graph' = graph \cup Moved
  /\ LET rootInputs == declared \cap Inputs \cap SignalsOf(Root)
         undriven == {s \in ListedSignals : \A e \in graph' : e[2] # s}
     IN /\ hasBeenScheduled' = hasBeenScheduled \cup rootInputs \cup undriven
        /\ alreadyScheduled' = alreadyScheduled \cup rootInputs
                                 \cup (ListedSignals \cap hasBeenScheduled')
  /\ nextIterationFront' = Front(alreadyScheduled', graph')
  /\ successorsFront' = {}
  /\ numberScheduled' = 0
  /\ phase' = "test"
  /\ UNCHANGED <<declared, driven, copies, criticalPathContribution, instanceVars,
                 cycle, criticalPath, lifeSpan>>

\* A wrong variant of StillMoving, for a mutation run.
MovingAtLast == Cardinality(alreadyScheduled) >= numberScheduled

\* while (alreadyScheduled.size() > numberScheduled)
StillMoving == Cardinality(alreadyScheduled) > numberScheduled

NextIteration ==
  /\ phase = "test"
  /\ StillMoving
  /\ numberScheduled' = Cardinality(alreadyScheduled)
  /\ successorsFront' = nextIterationFront
  /\ nextIterationFront' = {}
  /\ phase' = "iterate"
  /\ UNCHANGED <<graphVars, instanceVars, timingVars>>

\* A wrong variant of Registers, for a mutation run.
OneRegisterMore(total) == IF total > Period THEN (total - 1) \div Period + 1 ELSE 0

\* A wrong variant of Registers, for a mutation run.
OneRegister(total) == IF ~IsShared /\ total > Period THEN 1 ELSE 0

\* A wrong variant of Remaining, for a mutation run.
RemainingFromZero(total) == IF total > Period THEN 0 ELSE total

\* setSignalTiming(): the registers that a total delay needs, and what is left
\* of it after the last one.  A shared operator gets none.
Registers(total) == IF ~IsShared /\ total > Period THEN (total - 1) \div Period ELSE 0
Remaining(total) == total - Registers(total) * Period

\* A wrong variant of IsLatest, for a mutation run.
IsSlowest(p, S) == p \in S /\ \A q \in S : criticalPath[q] <= criticalPath[p]

\* The lexicographically latest of a set of signals.
IsLatest(p, S) == p \in S /\ \A q \in S : NoLater(q, p)

\* An output of a subcomponent is never registered on its way to its parent.
LeavesSubcomponent(p, s) == Owner[p] # Owner[s] /\ p \in Outputs

\* A wrong variant of Extended, for a mutation run.
Replaced(old, span) == span

\* updateLifeSpan(): a lifespan only grows.
Extended(old, span) == IF span > old THEN span ELSE old

SetSignalTiming(s, latest) ==
  LET total == criticalPath[latest] + criticalPathContribution[s]
  IN /\ cycle' = [cycle EXCEPT ![s] = cycle[latest] + Registers(total)]
     /\ criticalPath' = [criticalPath EXCEPT ![s] = Remaining(total)]
     /\ lifeSpan' = [p \in Signals |->
          IF p \in Predecessors(s) /\ ~LeavesSubcomponent(p, s)
          THEN Extended(lifeSpan[p], cycle'[s] - cycle[p]) ELSE lifeSpan[p]]
     /\ hasBeenScheduled' = hasBeenScheduled \cup {s}

\* A wrong variant of Ready, for a mutation run.
SomeReady(s) == \E p \in Predecessors(s) : p \in hasBeenScheduled

\* allPredecessorsScheduled, and the successors a scheduled signal wakes up.
Ready(s) == Predecessors(s) \subseteq hasBeenScheduled
Woken(s) == Successors(s) \ hasBeenScheduled'

\* The loop over the wavefront: a set of pointers, so any order.
ScheduleCandidate(s) ==
  /\ phase = "iterate"
  /\ s \in successorsFront
  /\ Ready(s)
  /\ \E latest \in Predecessors(s) :
        IsLatest(latest, Predecessors(s)) /\ SetSignalTiming(s, latest)
  /\ alreadyScheduled' = alreadyScheduled \cup {s}
  /\ successorsFront' = successorsFront \ {s}
  /\ nextIterationFront' = (nextIterationFront \ {s}) \cup Woken(s)
  /\ UNCHANGED <<graphVars, instanceVars, phase, numberScheduled>>

KeepCandidate(s) ==
  /\ phase = "iterate"
  /\ s \in successorsFront
  /\ ~Ready(s)
  /\ successorsFront' = successorsFront \ {s}
  /\ nextIterationFront' = nextIterationFront \cup {s}
  /\ UNCHANGED <<graphVars, instanceVars, timingVars, phase, numberScheduled>>

EndIteration ==
  /\ phase = "iterate"
  /\ successorsFront = {}
  /\ phase' = "test"
  /\ UNCHANGED <<graphVars, instanceVars, timingVars, successorsFront,
                 nextIterationFront, numberScheduled>>

EndSchedule ==
  /\ phase = "test"
  /\ ~StillMoving
  /\ phase' = "build"
  /\ nextIterationFront' = {}
  /\ numberScheduled' = 0
  /\ UNCHANGED <<graphVars, instanceVars, timingVars, successorsFront>>

-----------------------------------------------------------------------------
Construct ==
  \/ \E s \in SignalsOf(current) :
        \/ \E c \in Contributions : Declare(s, c)
        \/ \E c \in Contributions, R \in SUBSET Reads[s] : DeclareAssign(s, c, R)
        \/ \E R \in SUBSET Reads[s] : Assign(s, R)
        \/ \E source \in SignalsOf(current) \ {s} : AddRegisteredSignalCopy(s, source)
        \/ AddInput(s)
        \/ AddOutput(s)
  \/ \E f \in IO, actual \in SignalsOf(Root) :
        \/ InPortMap(f, actual)
        \/ InPortMapCst(f, actual)
        \/ OutPortMap(f, actual)
  \/ \E op \in Operators : OpenInstance(op)
  \/ Instance
  \/ \E outs \in SharedInstances : NewSharedInstance(outs)

ScheduleStep ==
  \/ NextIteration
  \/ \E s \in Signals : ScheduleCandidate(s) \/ KeepCandidate(s)
  \/ EndIteration
  \/ EndSchedule

Next == Construct \/ StartSchedule \/ ScheduleStep

\* A call of schedule() runs to its end; the constructor owes us nothing.
Spec == Init /\ [][Next]_vars /\ WF_vars(ScheduleStep)
-----------------------------------------------------------------------------
(***************************************************************************)
(* Properties.                                                             *)
(***************************************************************************)
\* Every variable of the scheduler keeps its type (Signal.hpp, Operator.hpp).
TypeOK ==
  /\ declared \subseteq Signals
  /\ driven \subseteq Signals
  /\ copies \subseteq Signals
  /\ criticalPathContribution \in [Signals -> Nat]
  /\ dependenceTable \subseteq Edges
  /\ graph \subseteq Edges
  /\ current \in Operators
  /\ subComponents \subseteq Operators
  /\ portMap \subseteq Edges
  /\ sharedActuals \subseteq (SUBSET Signals) \X (SUBSET Signals)
  /\ hasBeenScheduled \subseteq Signals
  /\ alreadyScheduled \subseteq Signals
  /\ cycle \in [Signals -> Nat]
  /\ criticalPath \in [Signals -> Nat]
  /\ lifeSpan \in [Signals -> Nat]
  /\ phase \in {"build", "test", "iterate"}
  /\ successorsFront \subseteq Signals
  /\ nextIterationFront \subseteq Signals
  /\ numberScheduled \in Nat

\* The timing edges: a functional register is not crossed by the pipeline.
TimedEdges == {e \in graph : /\ e[1] \in hasBeenScheduled
                             /\ e[2] \in hasBeenScheduled \ copies}

\* After setSignalTiming() nothing overflows its clock period, unless the
\* scheduled root is a shared operator, which then has no register at all.
FitsPeriod ==
  IF IsShared THEN \A s \in Signals : cycle[s] = 0
              ELSE \A s \in Signals : criticalPath[s] <= Period

\* The developer manual's claim about A <= f(B): the schedule ensures that
\* B.cycle <= A.cycle, so that doApplySchedule() never needs a negative delay.
Causal == \A e \in TimedEdges : NoLater(e[1], e[2])

\* Whatever the number of calls to schedule(), where they fall and the order
\* in which the wavefront is walked, a signal is timed from the latest of all
\* the predecessors it has in the end, so there is one possible schedule.
AsSoonAsPossible ==
  \A s \in hasBeenScheduled \ copies :
     Predecessors(s) # {} =>
       \E p \in Predecessors(s) :
          LET total == criticalPath[p] + criticalPathContribution[s]
          IN /\ Predecessors(s) \subseteq hasBeenScheduled
             /\ IsLatest(p, Predecessors(s))
             /\ cycle[s] = cycle[p] + Registers(total)
             /\ criticalPath[s] = Remaining(total)

\* doApplySchedule() emits B_d(A.cycle - B.cycle) in A <= f(B), and
\* buildVHDLRegisters() declares B_d1 .. B_d(lifeSpan): each delayed name that
\* is used exists.
LifeSpanCoversDelays ==
  \A e \in TimedEdges :
     LeavesSubcomponent(e[1], e[2]) \/ lifeSpan[e[1]] >= cycle[e[2]] - cycle[e[1]]

\* The port map of an instance that is not shared has no delay on its actuals
\* (doApplySchedule), so a port and its actual must share their cycle.  Each
\* actual input of a shared instance is delayed until the cycle of the first
\* output, which must then be the cycle of all and not before any input.
PortsAligned ==
  /\ \A e \in TimedEdges : Owner[e[1]] # Owner[e[2]] => cycle[e[1]] = cycle[e[2]]
  /\ \A shared \in sharedActuals : \A clone \in shared[2] \cap hasBeenScheduled :
       /\ \A other \in shared[2] \cap hasBeenScheduled : cycle[other] = cycle[clone]
       /\ \A actual \in shared[1] : actual \in hasBeenScheduled /\ cycle[actual] <= cycle[clone]

\* "once it is computed, it will no longer change" (developer manual): code
\* that read a cycle with getCycle() and used it remains valid.
TimingIsFinal ==
  [][\A s \in hasBeenScheduled :
        /\ s \in hasBeenScheduled'
        /\ cycle'[s] = cycle[s]
        /\ criticalPath'[s] = criticalPath[s]]_vars

\* schedule() leaves no signal behind: when it returns, a signal of an attached
\* operator is without timing only if a predecessor is, or if it is a port
\* nothing drives yet.
Untimed == {s \in declared : /\ Owner[s] \in subComponents \cup {Root}
                             /\ s \notin hasBeenScheduled}
ScheduleIsComplete ==
  [][phase = "test" /\ phase' = "build" =>
       \A s \in Untimed :
          \/ s \in IO /\ Predecessors(s) = {}
          \/ \E p \in Predecessors(s) : p \notin alreadyScheduled]_vars

\* The main loop of schedule() ends, also on a cyclic or half-built graph.
ScheduleReturns == phase # "build" ~> phase = "build"

\* Where the registers are put makes no path longer or shorter: the instant of
\* a signal, counted from the inputs in the unit of the delays, is the delay of
\* the longest path to it, as if nothing were pipelined, whenever schedule() is
\* called.  A functional copy is a source of the graph, like an input.
Promise == INSTANCE TimedGraph WITH
  Nodes <- Signals,
  edges <- {e \in graph : e[2] \notin copies},
  contribution <- criticalPathContribution,
  instant <- [s \in hasBeenScheduled |-> cycle[s] * Period + criticalPath[s]]
ImplementsTimedGraph == Promise!Spec

-----------------------------------------------------------------------------
(***************************************************************************)
(* What the documented order guarantees at every point of a construction.  *)
(***************************************************************************)
Dependencies == graph \cup dependenceTable

\* Signals: a declared signal belongs to an operator schedule() reaches, all
\* but an output have a driver, and only declared, driven ones have a time.
SignalsInv ==
  /\ \A s \in declared : Owner[s] \in subComponents \cup {Root, current}
  /\ declared \ Outputs \subseteq driven
  /\ hasBeenScheduled \subseteq declared \cap driven

\* Dependencies: between declared signals, none into an input of the root; the
\* table is empty while schedule() runs, and what it holds concerns signals
\* that are not scheduled.
DependenciesInv ==
  /\ \A e \in Dependencies :
       /\ e[1] \in declared
       /\ e[2] \in declared \cap driven
       /\ ~(e[2] \in Inputs /\ Owner[e[2]] = Root)
  /\ \A e \in dependenceTable : e[2] \in hasBeenScheduled => e[2] \in copies
  /\ phase # "build" => dependenceTable = {}

\* Port maps: the actual of an output has no time before it is connected.
PortMapInv ==
  /\ \A m \in portMap :
       /\ m[1] \in IO
       /\ Owner[m[1]] # Root
       /\ Owner[m[2]] = Root
       /\ m[2] \in declared
       /\ m[1] \in Outputs =>
            /\ m[2] \in driven \ Inputs
            /\ IF m[1] \in declared THEN m \in graph
                                    ELSE m[2] \notin hasBeenScheduled
  /\ phase # "build" => \A m \in portMap : m[1] \in declared

ConstructionInv == SignalsInv /\ DependenciesInv /\ PortMapInv
=============================================================================
