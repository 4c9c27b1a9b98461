----------------------------- MODULE DepStream ------------------------------
(***************************************************************************)
(* What a caller of Start of the deployment Manager can rely on            *)
(* (deploy.go): updates in the order of a deployment's life, then a        *)
(* terminal one, and then the channel is closed.  STOPPED is the end of a  *)
(* deployment whose context was cancelled, and of no other.                *)
(*                                                                         *)
(* The interface says that cancelling "must ... emit STOPPED".  This is    *)
(* what NativeManager keeps of it: a deployment that was cancelled before  *)
(* its end was decided is STOPPED, except while its engine is being        *)
(* started, where it may be FAILED; and a terminal update, like any other, *)
(* is dropped when the caller has not made room for it in time.            *)
(***************************************************************************)
EXTENDS Integers

VARIABLES
  shown,      \* the last update on the channel, "NONE" before the first
  phase,      \* "off"; "open" and "starting" (of the engine) while updates may
              \* follow; "failing" or "stopping" once the end is decided, "ended"
              \* when the terminal update is out, "closed"
  cancelled,  \* whether the context is dead
  full        \* whether the channel is full; the caller's business

streamVars == <<shown, phase, cancelled>>

Live     == {"PULLING", "LOADING", "READY"}
Underway == {"open", "starting"}

Rank == [NONE |-> 0, PULLING |-> 1, LOADING |-> 2, READY |-> 3]

StreamInit == shown = "NONE" /\ phase = "off" /\ ~cancelled

Begin == phase = "off" /\ phase' = "open" /\ UNCHANGED <<shown, cancelled>>

Cancel == phase # "off" /\ cancelled' = TRUE /\ UNCHANGED <<shown, phase>>

\* Only PULLING comes more than once; the start of the engine begins after
\* LOADING, or after the attempt to send it, ...
Update ==
  /\ phase = "open" /\ phase' \in Underway
  /\ shown' = shown \/ (shown' \in Live /\ Rank[shown'] > Rank[shown])
  /\ UNCHANGED cancelled

\* ... and is over when the engine has said where it listens.
Started == phase = "starting" /\ phase' = "open" /\ UNCHANGED <<shown, cancelled>>

Fail ==
  /\ phase \in Underway /\ phase' = "failing"
  /\ cancelled => phase = "starting"
  /\ UNCHANGED <<shown, cancelled>>

Stop == phase = "open" /\ cancelled /\ phase' = "stopping" /\ UNCHANGED <<shown, cancelled>>

\* The terminal update.
End ==
  /\ \/ phase = "failing"  /\ shown' = "FAILED"
     \/ phase = "stopping" /\ shown' = "STOPPED"
     \/ phase \in {"failing", "stopping"} /\ full /\ UNCHANGED shown
  /\ phase' = "ended"
  /\ UNCHANGED cancelled

Close == phase = "ended" /\ phase' = "closed" /\ UNCHANGED <<shown, cancelled>>

\* The caller has read everything, or its process has ended.
Forget == phase' = "off" /\ shown' = "NONE" /\ cancelled' = FALSE

StreamNext ==
  Begin \/ Cancel \/ Update \/ Started \/ Fail \/ Stop \/ End \/ Close \/ Forget

StreamSpec == StreamInit /\ [][StreamNext]_streamVars
=============================================================================
