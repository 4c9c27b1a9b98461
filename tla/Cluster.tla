------------------------------ MODULE Cluster -------------------------------
(***************************************************************************)
(* The deployment manager and the agents that run its deployments, with    *)
(* the streams between them.  Every step of the coordinator is one of      *)
(* Deployments.tla, but heartbeats and updates are now the ones an agent   *)
(* sent, and starts and stops reach an agent, in the order of the stream,  *)
(* unless they are lost with it.                                           *)
(*                                                                         *)
(* On the agent (startDeployment, runDeployment, stopDeployment and        *)
(* emitDeployment of agent/internal/client) a deployment is pulling, ready *)
(* or stopping, that is, its context is cancelled, or it is over: its last *)
(* update is out, and runDeployment has not yet removed it.                *)
(***************************************************************************)
EXTENDS Deployments, Channels

CONSTANT MaxFaults  \* bound: transport failures, crashes and restarts

\* Whatever an agent can say, the manager is ready for in Deployments.tla.
ASSUME ClusterAssumption ==
  /\ MaxFaults \in Nat
  /\ FALSE \in Addrs /\ Actives = SUBSET Deps /\ Reports = States

VARIABLES
  dep,        \* Client.deployments of each agent
  faults      \* faults so far

hostVars == <<dep, faults>>
cluVars  == <<depVars, chanVars, hostVars>>

DepStates == {"none", "pulling", "ready", "stopping", "over"}

UpFrame ==
  [kind : {"beat"}, active : SUBSET Deps]
    \cup [kind : {"update"}, dep : Deps, state : States]

DownFrame == [kind : {"ack"}] \cup [kind : {"start", "stop"}, dep : Deps]

ClusterTypeOK ==
  /\ DepTypeOK
  /\ ChanTypeOK(UpFrame, DownFrame)
  /\ dep \in [Nodes -> [Deps -> DepStates]]
  /\ faults \in 0..MaxFaults

\* The deployments have been created when there was no node for them (Create
\* and NoNode of Deployments.tla); placing them is up to the reconciler.
ClusterInit ==
  /\ RegInit /\ ChanInit
  /\ minted = Deps
  /\ table = Deps
  /\ replica = [d \in Deps |-> None]
  /\ avoid = [d \in Deps |-> [n \in Nodes |-> 0]]
  /\ placer = [p \in Placers |-> IdlePlacer]
  /\ todo = {}
  /\ work = [s \in Streams |-> Receiving]
  /\ deleting = [d \in Deps |-> None]
  /\ overlapped = {}
  /\ dep = [n \in Nodes |-> [d \in Deps |-> "none"]]
  /\ faults = 0

-----------------------------------------------------------------------------
(* The coordinator. *)

\* Manager steps that touch no stream.
Thinks ==
  /\ \/ \E d \in Deps : Delete(d)
     \/ Reconcile
     \/ ReaperPass
  /\ UNCHANGED <<chanVars, hostVars>>

Places(p) ==
  \/ /\ \/ \E d \in Deps : ReadOccupied(p, d)
        \/ ReadBans(p)
        \/ \E n \in Nodes : SelectNode(p, n)
        \/ NoNode(p)
        \/ Record(p)
     /\ UNCHANGED <<chanVars, hostVars>>
  \/ /\ placer[p].pc = "send"
     /\ \E ok \in BOOLEAN :
          /\ CanSend(placer[p].via, ok)
          /\ SendStart(p, ok)
          /\ IF ok THEN Put(placer[p].via, [kind |-> "start", dep |-> placer[p].dep])
                   ELSE UNCHANGED down
     /\ UNCHANGED <<agent, session, up, hostVars>>

\* sendStop of d to node n: with no handle it fails at once.
CanStop(n, ok) == IF send[n] = None THEN ~ok ELSE CanSend(send[n], ok)

PutStop(n, d, ok) ==
  /\ IF ok THEN Put(send[n], [kind |-> "stop", dep |-> d]) ELSE UNCHANGED down
  /\ UNCHANGED <<agent, session, up, hostVars>>

StopsDeleted(d) ==
  /\ deleting[d] # None
  /\ \E ok \in BOOLEAN :
       /\ CanStop(deleting[d], ok)
       /\ DeleteStop(d, ok)
       /\ PutStop(deleting[d], d, ok)

StopsOrphan(s) ==
  \E d \in work[s].stops, ok \in BOOLEAN :
    /\ CanStop(owner[s], ok)
    /\ StopOrphan(s, d, ok)
    /\ PutStop(owner[s], d, ok)

AckOut(s) ==
  /\ CanSend(s, TRUE)
  /\ Ack(s)
  /\ Put(s, [kind |-> "ack"])
  /\ UNCHANGED <<agent, session, up, hostVars>>

Receives(s) ==
  /\ Arrived(s)
  /\ LET f == Head(up[s])
     IN  IF f.kind = "beat" THEN RecvHeartbeat(s, FALSE, f.active)
                            ELSE OnUpdate(s, f.dep, f.state)
  /\ Take(s)
  /\ UNCHANGED <<agent, session, down, hostVars>>

Applies(s) ==
  /\ OnHeartbeat(s) \/ \E d \in Deps : Unplace(s, d)
  /\ UNCHANGED <<chanVars, hostVars>>

HandlerReturns(s) ==
  /\ AckFailure(s) \/ Disconnect(s)
  /\ Unread(s)
  /\ UNCHANGED <<agent, session, down, hostVars>>

Handler(s) == AckOut(s) \/ Receives(s) \/ Applies(s) \/ StopsOrphan(s) \/ HandlerReturns(s)

-----------------------------------------------------------------------------
(* The agents. *)

FreeSlots == {s \in Streams : Free(s) /\ \A p \in Placers : placer[p].via # s}

\* Slots differ in name only, so any free one will do.
Joins(n) ==
  /\ FreeSlots # {}
  /\ Dial(CHOOSE s \in FreeSlots : TRUE, n)
  /\ UNCHANGED <<mgrVars, hostVars>>

AwaitAck(n) == (FirstFrame(n) \/ AwaitBroken(n)) /\ UNCHANGED <<mgrVars, hostVars>>

Leaves(n) == SessionEnds(n) /\ UNCHANGED <<mgrVars, hostVars>>

\* startDeployment ignores a deployment it has, also one that is stopping or
\* over; stopDeployment cancels one that it has.
Obeyed(state, kind) ==
  CASE kind = "start" /\ state = "none"             -> "pulling"
    [] kind = "stop"  /\ state \notin {"none", "over"} -> "stopping"
    [] OTHER                                        -> state

Obeys(n) ==
  /\ Serving(n) /\ Received(n)
  /\ dep' = [dep EXCEPT ![n][NextFrame(n).dep] = Obeyed(@, NextFrame(n).kind)]
  /\ Consume(n)
  /\ UNCHANGED <<regVars, mgrVars, agent, session, up, faults>>

RunOnce(n) == Joins(n) \/ AwaitAck(n) \/ Leaves(n) \/ Obeys(n)

\* runDeployment forwards an update; the deployment goes from one state to
\* another.
Moves(n, d, from, to, state) ==
  /\ dep[n][d] \in from
  /\ dep' = [dep EXCEPT ![n][d] = to]
  /\ Emit(n, [kind |-> "update", dep |-> d, state |-> state])
  /\ UNCHANGED <<regVars, mgrVars, agent, session, down, faults>>

\* Progress of the download, or of the loading of the model.
Pulls(n, d) == Moves(n, d, {"pulling"}, "pulling", "PULLING")

Loads(n, d) == Moves(n, d, {"pulling"}, "ready", "READY")

Fails(n, d) == Moves(n, d, {"pulling", "ready"}, "over", "FAILED")

\* A cancelled engine ends as STOPPED or, in some places, as FAILED.
Stopped(n, d) ==
  \E state \in {"STOPPED", "FAILED"} : Moves(n, d, {"stopping"}, "over", state)

\* The deferred removeDeployment.
Removes(n, d) ==
  /\ dep[n][d] = "over"
  /\ dep' = [dep EXCEPT ![n][d] = "none"]
  /\ UNCHANGED <<regVars, mgrVars, chanVars, faults>>

Has(n, d) == dep[n][d] # "none"

\* heartbeatLoop.  Bound: a heartbeat is alone on its stream when it sets out.
Beat(n) ==
  /\ Serving(n) /\ up[session[n]] = <<>>
  /\ EmitBeat(n, [kind |-> "beat", active |-> {d \in Deps : Has(n, d)}])
  /\ UNCHANGED <<regVars, mgrVars, agent, session, down, hostVars>>

-----------------------------------------------------------------------------
(* Time and faults. *)

\* A tick is as long as lostAfter.  Sends and the frames sent are through
\* within one, and an agent that serves on a stream that works is heard in
\* every one.
Timely ==
  /\ \A p \in Placers : placer[p].pc \notin {"send", "record"}
  /\ \A d \in Deps : deleting[d] = None
  /\ \A n \in Nodes :
       /\ session[n] # None => down[session[n]] = <<>>
       /\ Serving(n) /\ link[session[n]] => silence[n] = 0

Clock == Timely /\ TimePasses /\ UNCHANGED <<chanVars, hostVars>>

Fault == faults < MaxFaults /\ faults' = faults + 1

LinkFault(s) == Fault /\ LinkFailure(s) /\ UNCHANGED <<chanVars, dep>>

\* Client.deployments is in memory.
AgentRestart(n) ==
  /\ Fault
  /\ AgentDies(n)
  /\ dep' = [dep EXCEPT ![n] = [d \in Deps |-> "none"]]
  /\ UNCHANGED mgrVars

CoordinatorFault ==
  /\ Fault
  /\ CoordinatorRestart
  /\ up' = [s \in Streams |-> <<>>]
  /\ UNCHANGED <<agent, session, down, dep>>

Coordinator ==
  \/ Thinks
  \/ \E p \in Placers : Places(p)
  \/ \E d \in Deps : StopsDeleted(d)
  \/ \E s \in Streams : Handler(s)

Agents ==
  \E n \in Nodes :
    \/ RunOnce(n) \/ Beat(n)
    \/ \E d \in Deps : Pulls(n, d) \/ Loads(n, d) \/ Fails(n, d) \/ Stopped(n, d)
                      \/ Removes(n, d)

Faults ==
  \/ \E s \in Streams : LinkFault(s)
  \/ \E n \in Nodes : AgentRestart(n)
  \/ CoordinatorFault

ClusterNext == Coordinator \/ Agents \/ Clock \/ Faults

ClusterSpec == ClusterInit /\ [][ClusterNext]_cluVars

\* The goroutine of Reconcile: the pass, then place for what is to be placed.
\* Create has returned (ClusterInit), so nobody else calls place.
Reconciles == (Reconcile /\ UNCHANGED <<chanVars, hostVars>>) \/ Places(Reconciler)

\* The goroutine of a deployment whose engine is to end, or has ended.
Ends(n, d) == Stopped(n, d) \/ Removes(n, d)

\* The clock and every goroutine of the coordinator and of the agents run on,
\* and an engine whose context is cancelled ends.  Nothing is asked of an
\* engine otherwise: it may load for ever, fail or run on.
ClusterFairness ==
  /\ WF_cluVars(Clock)
  /\ WF_cluVars(Reconciles)
  /\ WF_cluVars(ReaperPass /\ UNCHANGED <<chanVars, hostVars>>)
  /\ \A d \in Deps : WF_cluVars(StopsDeleted(d))
  /\ \A s \in Streams : WF_cluVars(Handler(s))
  /\ \A n \in Nodes :
       /\ WF_cluVars(RunOnce(n)) /\ SF_cluVars(Beat(n))
       /\ \A d \in Deps : WF_cluVars(Ends(n, d))

ClusterFairSpec == ClusterSpec /\ ClusterFairness

-----------------------------------------------------------------------------
(* Properties. *)

\* A coordinator that wants to can reach the agent of node n.
Reachable(n) == send[n] # None /\ agent[n] = "serve"

\* What nobody wants stops: an agent does not go on with a deployment that was
\* deleted, or forgotten in a restart of the coordinator, while it can be
\* reached, whatever became of the stop that Delete sent and wherever place
\* was at that time (OnHeartbeat, OnUpdate).
\* An id that has left the table does not come back, so what holds again and
\* again of the three conjuncts holds of the last two.
DeletedStops ==
  \A n \in Nodes, d \in Deps : []<>~(d \notin table /\ Has(n, d) /\ Reachable(n))

\* A replica on record as READY that its agent does not have is not there for
\* good: the agent's heartbeats or, when it sends none, the reaper and the
\* reconciler put an end to it.
GhostGone ==
  \A n \in Nodes, d \in Deps :
    []<>~(On(d, n) /\ d \in table /\ replica[d].state = "READY" /\ ~Has(n, d))

\* What is wanted runs, if some agent can be reached: lost starts, starts
\* ignored by an agent that was still stopping the same deployment, failed
\* sends and bans only delay it.
WantedRuns ==
  \A d \in Deps : []<>(d \in table => \E n \in Nodes : Has(n, d) \/ ~Reachable(n))

\* The comment on emitDeployment: a dropped update is made good, as "the
\* coordinator reconciles from the next Heartbeat's active_deployment_ids".
ReadyKnown ==
  \A n \in Nodes, d \in Deps :
    (On(d, n) /\ d \in table /\ dep[n][d] = "ready" /\ Reachable(n))
      ~> (~On(d, n) \/ d \notin table \/ dep[n][d] # "ready" \/ ~Reachable(n)
            \/ replica[d].state = "READY")
=============================================================================
