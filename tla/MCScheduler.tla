---------------------------- MODULE MCScheduler ----------------------------
(***************************************************************************)
(* Small instances of Scheduler for TLC.                                   *)
(***************************************************************************)
EXTENDS Scheduler, TLC

CONSTANTS x, r, a, b, bb, rr, op, ip, ow, or

\* Three wires, in every datapath, the ones with loops included; two of them may be
\* the outputs of a shared instance, with the clones bb and rr.
SmallSignals == {x, a, b, r, bb, rr}
SmallOwner == [s \in SmallSignals |-> Root]
CyclicReads == x :> {} @@ a :> {x, b} @@ b :> {x, a} @@ r :> {b} @@ bb :> {} @@ rr :> {}
SmallShared == {{<<bb, b>>, <<rr, r>>}}

\* A root operator with two wires, one of which may be reached by two paths,
\* and one possible subcomponent with one.
TreeSignals == {x, a, b, r, ip, ow, or}
TreeOwner == [s \in TreeSignals |-> IF s \in {ip, ow, or} THEN op ELSE Root]
TreeReads == x :> {} @@ a :> {x} @@ b :> {x, a} @@ r :> {b}
               @@ ip :> {} @@ ow :> {ip} @@ or :> {ip, ow}
=============================================================================
