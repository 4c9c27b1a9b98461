--------------------------- MODULE MCDeployments ----------------------------
(* Small instances of Deployments for TLC. *)
EXTENDS Deployments, TLC

\* Every deployment is native and needs memory; every node has the runner.
MCKind    == [d \in Deps |-> "metal"]
MCMinVram == [d \in Deps |-> 2]
MCRunners == [n \in Nodes |-> {"metal"}]
MCUsable  == [n \in Nodes |-> 2]

Symmetry == Permutations(Nodes) \cup Permutations(Streams) \cup Permutations(Deps)

\* The registry's history variable influences nothing.
View == <<nodeVars, streamVars, mgrVars>>
=============================================================================
