----------------------------- MODULE JobStream ------------------------------
(***************************************************************************)
(* What Run of the Runner interface promises its caller (runner.go): a     *)
(* stream of updates, one of them terminal and that one the last, and then *)
(* the channel is closed.  What it promises of a cancelled job is not part *)
(* of this module: see CancelReported in Runner.                           *)
(***************************************************************************)
EXTENDS Sequences

VARIABLES
  sent,       \* the updates so far
  closed      \* whether the channel is closed

Terminal == {"SUCCEEDED", "FAILED", "CANCELLED"}
Live     == {"PENDING", "RUNNING", "LOG"}

Ended == sent # <<>> /\ sent[Len(sent)] \in Terminal

StreamInit == sent = <<>> /\ closed = FALSE

Update(u) ==
  /\ ~Ended /\ ~closed
  /\ sent' = Append(sent, u)
  /\ UNCHANGED closed

CloseStream ==
  /\ Ended /\ ~closed
  /\ closed' = TRUE
  /\ UNCHANGED sent

StreamNext == (\E u \in Live \cup Terminal : Update(u)) \/ CloseStream

StreamSpec == StreamInit /\ [][StreamNext]_<<sent, closed>>
=============================================================================
