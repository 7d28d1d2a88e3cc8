----------------------------- MODULE MCPipeline -----------------------------
(***************************************************************************)
(* Small instances of Pipeline for TLC: an input x, two wires, an output r *)
(* and a functional copy z.                                                *)
(***************************************************************************)
EXTENDS Pipeline, TLC

CONSTANTS x, a, b, r, z

AllSignals == {x, a, b, r, z}

\* Every datapath in which the output depends on something, acyclic but for the
\* functional copy z of the input or, in a feedback loop, of the output.
AllDatapaths ==
  {x :> {} @@ z :> {s} @@ a :> A @@ b :> B @@ r :> R :
     s \in {x, r}, A \in {{x}, {x, z}}, B \in SUBSET {x, a},
     R \in SUBSET {x, a, b, z} \ {{}}}
=============================================================================
