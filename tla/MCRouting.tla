----------------------------- MODULE MCRouting ------------------------------
(* A small instance of Routing for TLC. *)
EXTENDS Routing, TLC

CONSTANTS d1, d2, n1, n2

At(d, n) == [dep |-> d, node |-> n]

Symmetry == Permutations(Reqs)

\* What is kept of an answered request is not read again.
View == <<deployed, ready, cache, gone, stocked,
          [r \in Reqs |-> IF Running(r) THEN req[r] ELSE Fresh("none")]>>

\* Two deployments; the router does not look at the node they are on.
TwoDeployments == {At(d1, n1), At(d2, n2)}
=============================================================================
