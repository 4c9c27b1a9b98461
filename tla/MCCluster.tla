----------------------------- MODULE MCCluster ------------------------------
(* A small instance of Cluster for TLC. *)
EXTENDS Cluster

\* Every deployment is native and needs memory; every node has the runner.
MCKind    == [d \in Deps |-> "metal"]
MCMinVram == [d \in Deps |-> 2]
MCRunners == [n \in Nodes |-> {"metal"}]
MCUsable  == [n \in Nodes |-> 2]
=============================================================================
