----------------------------- MODULE MCPodUnits -----------------------------
(* Instances of PodUnits for TLC: two stale inits come after all but the last *)
(* of the inits that are still made, or one comes after the only init.         *)
EXTENDS PodUnits, TLC

MCKnows == (6 :> {1, 2}) @@ (7 :> {1, 2, 6})
MCKnowsOnly == [s \in {3} |-> {1}]
=============================================================================
