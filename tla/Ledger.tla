------------------------------- MODULE Ledger -------------------------------
(***************************************************************************)
(* What the usage records promise, whichever store keeps them: a request   *)
(* is billed at most once, the credit goes to the node that answered it,   *)
(* and what is recorded stays, over restarts of the coordinator too.       *)
(***************************************************************************)
EXTENDS Integers

CONSTANTS
  Requests,   \* request ids
  Nodes,      \* nodes that may answer them
  None        \* no node

VARIABLES
  served,     \* the node that answered each request
  billed,     \* how often each request is recorded
  credit      \* the node each recorded request is credited to

ledgerVars == <<served, billed, credit>>

LedgerInit ==
  /\ served = [r \in Requests |-> None]
  /\ billed = [r \in Requests |-> 0]
  /\ credit = [r \in Requests |-> None]

Serve(r, n) ==
  /\ served[r] = None
  /\ served' = [served EXCEPT ![r] = n]
  /\ UNCHANGED <<billed, credit>>

Bill(r) ==
  /\ served[r] # None
  /\ billed[r] = 0
  /\ billed' = [billed EXCEPT ![r] = 1]
  /\ credit' = [credit EXCEPT ![r] = served[r]]
  /\ UNCHANGED served

LedgerNext ==
  \/ \E r \in Requests, n \in Nodes : Serve(r, n)
  \/ \E r \in Requests : Bill(r)

LedgerSpec == LedgerInit /\ [][LedgerNext]_ledgerVars
=============================================================================
