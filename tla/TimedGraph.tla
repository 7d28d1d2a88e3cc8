----------------------------- MODULE TimedGraph -----------------------------
(***************************************************************************)
(* What the scheduler promises, without cycles, registers or wavefronts: a *)
(* graph of signals grows, and each signal is given once and for all the   *)
(* instant at which its value is there, the delay of the longest path that *)
(* leads to it.  Registers do not appear: cutting a path must not make it  *)
(* any longer or shorter.                                                  *)
(***************************************************************************)
EXTENDS Integers

CONSTANT Nodes

VARIABLES
  edges,         \* the dependencies known so far
  contribution,  \* the delay of each node
  instant        \* a function on the nodes that have their instant

graphVars == <<edges, contribution, instant>>

Timed == DOMAIN instant
Into(s) == {p \in Nodes : <<p, s>> \in edges}

Init ==
  /\ edges = {}
  /\ contribution = [s \in Nodes |-> 0]
  /\ instant = [s \in {} |-> 0]

\* The graph grows, but not into a node that has its instant; some nodes
\* without predecessors are known to be there from the start.
Grow ==
  /\ edges' \in SUBSET (Nodes \X Nodes)
  /\ edges \subseteq edges'
  /\ \A e \in edges' \ edges : e[2] \notin Timed
  /\ contribution' \in [Nodes -> Nat]
  /\ \A s \in Timed : contribution'[s] = contribution[s]
  /\ \E sources \in SUBSET (Nodes \ Timed) :
       /\ \A e \in edges' : e[2] \notin sources
       /\ instant' = [s \in Timed \cup sources |-> IF s \in Timed THEN instant[s] ELSE 0]

\* The instant of a node is the latest of its predecessors plus its own delay.
Arrive(s) ==
  /\ Into(s) \subseteq Timed
  /\ \E p \in Into(s) :
       /\ \A q \in Into(s) : instant[q] <= instant[p]
       /\ instant' = [t \in Timed \cup {s} |->
                        IF t = s THEN instant[p] + contribution[s] ELSE instant[t]]
  /\ UNCHANGED <<edges, contribution>>

Next == Grow \/ \E s \in Nodes \ Timed : Arrive(s)

Spec == Init /\ [][Next]_graphVars
=============================================================================
