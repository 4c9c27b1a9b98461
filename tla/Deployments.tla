---------------------------- MODULE Deployments -----------------------------
(***************************************************************************)
(* The deployment manager (coordinator/internal/deployments) on top of the *)
(* registry.  A step is one critical section of Manager.mu or one send on  *)
(* a stream: what the code does between two critical sections is visible   *)
(* to every other goroutine.  The goroutines are the Create call of each   *)
(* deployment, the Delete calls, the reconciler and one Connect handler    *)
(* per stream.                                                             *)
(*                                                                         *)
(* What agents say is arbitrary here: any heartbeat and any update may     *)
(* arrive on any served stream.  What is shown of the manager therefore    *)
(* holds whatever the agents do; Cluster.tla adds the agents themselves.   *)
(*                                                                         *)
(* Times are ages, as in Registry.tla: placed and heard are now - PlacedAt *)
(* and now - LastUpdate and saturate above LostAfter; avoid[d][n] is the   *)
(* time left until the ban of node n for deployment d expires.             *)
(***************************************************************************)
EXTENDS Registry

CONSTANTS
  Deps,        \* deployment ids, each minted by at most one Create
  Reconciler,  \* the reconciler goroutine
  Kinds,       \* runner kinds
  Kind,        \* requiredRunner of a deployment's spec
  MinVram,     \* min_vram_mb of a deployment's spec, 0 when unset
  Runners,     \* the runners a node advertises
  Usable,      \* usable_vram_mb of a node, 0 when it could not be measured
  Actives,     \* the sets of deployments heartbeats list
  Reports,     \* the states updates report
  LostAfter,   \* lostAfter, in ticks
  AvoidFor     \* avoidAfterFailure, in ticks

\* LOADING is not told apart from PULLING: nothing in the manager does.
States == {"PULLING", "READY", "FAILED", "STOPPED"}

ASSUME DeploymentsAssumption ==
  /\ None \notin Deps
  /\ Reconciler \notin Deps
  /\ Kind \in [Deps -> Kinds] /\ MinVram \in [Deps -> Nat]
  /\ Runners \in [Nodes -> SUBSET Kinds] /\ Usable \in [Nodes -> Nat]
  /\ Actives \subseteq SUBSET Deps /\ Reports \subseteq States
  /\ LostAfter \in Nat /\ AvoidFor \in Nat

VARIABLES
  minted,      \* deployment ids given out so far
  table,       \* the keys of Manager.deploy
  replica,     \* Deployment.Replica, None when nil
  avoid,       \* Deployment.avoid, as time left
  placer,      \* the place call a goroutine is in
  todo,        \* toPlace: what the reconciler has still to place
  work,        \* what the handler of a stream is doing with a message
  deleting,    \* the node a Delete call has still to send a stop to
  overlapped   \* history: {d, e} when place calls for d and e overlapped

mgrVars == <<minted, table, replica, avoid, placer, todo, work, deleting, overlapped>>
depVars == <<regVars, mgrVars>>

Replica == [node : Nodes, state : States,
            placed : 0..(LostAfter + 1), heard : 0..(LostAfter + 1)]

Placers == Deps \cup {Reconciler}

Steps == {"idle", "occupied", "bans", "select", "send", "record"}

\* excluded: the nodes the call has ruled out so far.
Placer == [pc : Steps, dep : Deps \cup {None}, excluded : SUBSET Nodes,
           node : Nodes \cup {None}, via : Streams \cup {None}]

Work == [pc : {"recv", "heartbeat", "apply"}, active : SUBSET Deps,
         stops : SUBSET Deps, missing : SUBSET Deps]

Call(pc, d, excluded, n, s) ==
  [pc |-> pc, dep |-> d, excluded |-> excluded, node |-> n, via |-> s]

IdlePlacer == Call("idle", None, {}, None, None)

Receiving == [pc |-> "recv", active |-> {}, stops |-> {}, missing |-> {}]

DepTypeOK ==
  /\ RegTypeOK
  /\ minted \subseteq Deps
  /\ table \subseteq minted
  /\ replica \in [Deps -> Replica \cup {None}]
  /\ avoid \in [Deps -> [Nodes -> 0..AvoidFor]]
  /\ placer \in [Placers -> Placer]
  /\ todo \subseteq Deps
  /\ work \in [Streams -> Work]
  /\ deleting \in [Deps -> Nodes \cup {None}]
  /\ overlapped \subseteq SUBSET Deps

MgrInit ==
  /\ minted = {}
  /\ table = {}
  /\ replica = [d \in Deps |-> None]
  /\ avoid = [d \in Deps |-> [n \in Nodes |-> 0]]
  /\ placer = [p \in Placers |-> IdlePlacer]
  /\ todo = {}
  /\ work = [s \in Streams |-> Receiving]
  /\ deleting = [d \in Deps |-> None]
  /\ overlapped = {}

DepInit == RegInit /\ MgrInit

Placed(d)   == replica[d] # None
On(d, n)    == Placed(d) /\ replica[d].node = n
InFlight(p) == placer[p].pc \in {"bans", "select", "send", "record"}

-----------------------------------------------------------------------------
(* place: choose a node, send StartDeployment, record the replica.  The    *)
(* manager's mutex is taken for each part, never across two of them.       *)

\* Create validates the spec, mints the id and enters it into the table; a
\* refused spec changes nothing.
Create(d) ==
  /\ d \notin minted
  /\ minted' = minted \cup {d}
  /\ table' = table \cup {d}
  /\ replica' = [replica EXCEPT ![d] = None]
  /\ avoid' = [avoid EXCEPT ![d] = [n \in Nodes |-> 0]]
  /\ placer' = [placer EXCEPT ![d] = Call("occupied", d, {}, None, None)]
  /\ UNCHANGED <<regVars, todo, work, deleting, overlapped>>

\* Faulty variant: a replica still being pulled does not count.
OccupiedOnceLoaded(d) ==
  {replica[e].node : e \in {f \in table \ {d} : Placed(f) /\ replica[f].state # "PULLING"}}

OccupiedFor(d) == {replica[e].node : e \in {f \in table \ {d} : Placed(f)}}

\* The first critical section of selectNode, of Create's place call or of the
\* next one in the reconciler's loop.
ReadOccupied(p, d) ==
  /\ \/ /\ p = d /\ placer[p].pc = "occupied"
        /\ UNCHANGED todo
     \/ /\ p = Reconciler /\ placer[p].pc = "idle" /\ d \in todo
        /\ todo' = todo \ {d}
  /\ placer' = [placer EXCEPT ![p] = Call("bans", d, OccupiedFor(d), None, None)]
  /\ overlapped' = overlapped \cup
       {{d, placer[q].dep} : q \in {r \in Placers \ {p} : InFlight(r)}}
  /\ UNCHANGED <<regVars, minted, table, replica, avoid, work, deleting>>

\* Faulty variant: a ban ends one tick early.
BannedNotLastTick(d) == {n \in Nodes : avoid[d][n] > 1}

Banned(d) == {n \in Nodes : avoid[d][n] > 0}

\* The second critical section of selectNode.
ReadBans(p) ==
  /\ placer[p].pc = "bans"
  /\ placer' = [placer EXCEPT ![p] =
                  Call("select", @.dep, @.excluded \cup Banned(@.dep), None, None)]
  /\ UNCHANGED <<regVars, minted, table, replica, avoid, todo, work, deleting,
                 overlapped>>

HasRunner(n, kind) == kind \in Runners[n]

Fits(d, n) ==
  /\ HasRunner(n, Kind[d])
  /\ Usable[n] # 0
  /\ MinVram[d] > 0 => Usable[n] >= MinVram[d]

Eligible(p, n) ==
  /\ n \in known /\ status[n] = "ONLINE" /\ send[n] # None
  /\ n \notin placer[p].excluded
  /\ Fits(placer[p].dep, n)

\* The rest of selectNode: the registry snapshot is scanned in map order.  The
\* handle is the one of the snapshot.
SelectNode(p, n) ==
  /\ placer[p].pc = "select"
  /\ Eligible(p, n)
  /\ placer' = [placer EXCEPT ![p] = Call("send", @.dep, @.excluded, n, send[n])]
  /\ UNCHANGED <<regVars, minted, table, replica, avoid, todo, work, deleting,
                 overlapped>>

\* ErrNoCapacity: the deployment stays in the table, unplaced.
NoNode(p) ==
  /\ placer[p].pc = "select"
  /\ \A n \in Nodes : ~Eligible(p, n)
  /\ placer' = [placer EXCEPT ![p] = IdlePlacer]
  /\ UNCHANGED <<regVars, minted, table, replica, avoid, todo, work, deleting,
                 overlapped>>

\* Send on stream s, which may be gone by now.  It succeeds (ok) or fails;
\* success does not mean delivery.
SendOn(s, ok) == IF ok THEN handler[s] # "none" ELSE ~link[s]

SendStart(p, ok) ==
  /\ placer[p].pc = "send"
  /\ SendOn(placer[p].via, ok)
  /\ placer' = [placer EXCEPT ![p] =
                  IF ok THEN Call("record", @.dep, @.excluded, @.node, @.via)
                  ELSE IdlePlacer]
  /\ UNCHANGED <<regVars, minted, table, replica, avoid, todo, work, deleting,
                 overlapped>>

NewReplica(n) == [node |-> n, state |-> "PULLING", placed |-> 0, heard |-> 0]

\* Neither the table nor the present replica is looked at again.
Record(p) ==
  /\ placer[p].pc = "record"
  /\ replica' = [replica EXCEPT ![placer[p].dep] = NewReplica(placer[p].node)]
  /\ placer' = [placer EXCEPT ![p] = IdlePlacer]
  /\ UNCHANGED <<regVars, minted, table, avoid, todo, work, deleting, overlapped>>

-----------------------------------------------------------------------------
(* Reconcile: one critical section decides what to place, then place is    *)
(* called for each.  The registry is read once for all deployments.        *)

NodeLost(d) ==
  /\ Placed(d)
  /\ replica[d].node \notin known \/ status[replica[d].node] # "ONLINE"
  /\ replica[d].heard > LostAfter

FailedHere(d) ==
  /\ Placed(d) /\ ~NodeLost(d)
  /\ replica[d].state = "FAILED"
  /\ replica[d].heard > LostAfter

\* Faulty variant: what was never placed, or given up, is left to Create.
ToReplace == {d \in table : NodeLost(d) \/ FailedHere(d)}

ToPlace == {d \in table : ~Placed(d) \/ NodeLost(d) \/ FailedHere(d)}

Reconcile ==
  /\ placer[Reconciler].pc = "idle" /\ todo = {}
  /\ todo' = ToPlace
  /\ replica' = [d \in Deps |-> IF d \in ToPlace THEN None ELSE replica[d]]
  /\ avoid' = [d \in Deps |->
                 IF d \in table /\ FailedHere(d)
                 THEN [avoid[d] EXCEPT ![replica[d].node] = AvoidFor]
                 ELSE avoid[d]]
  /\ overlapped' = overlapped \cup {{d} : d \in {e \in ToPlace : placer[e].pc # "idle"}}
  /\ UNCHANGED <<regVars, minted, table, placer, work, deleting>>

-----------------------------------------------------------------------------
(* Delete. *)

Delete(d) ==
  /\ d \in table
  /\ table' = table \ {d}
  /\ deleting' = [deleting EXCEPT ![d] = IF Placed(d) THEN replica[d].node ELSE None]
  /\ UNCHANGED <<regVars, minted, replica, avoid, placer, todo, work, overlapped>>

\* sendStop to node n: on the handle the registry holds at that moment.
StopSent(n, ok) == IF send[n] = None THEN ~ok ELSE SendOn(send[n], ok)

DeleteStop(d, ok) ==
  /\ deleting[d] # None
  /\ StopSent(deleting[d], ok)
  /\ deleting' = [deleting EXCEPT ![d] = None]
  /\ UNCHANGED <<regVars, minted, table, replica, avoid, placer, todo, work, overlapped>>

-----------------------------------------------------------------------------
(* The handler of stream s; it takes the next message when it is done with *)
(* the one before.                                                         *)

Applying(stops, missing) ==
  [pc |-> IF stops \cup missing = {} THEN "recv" ELSE "apply",
   active |-> {}, stops |-> stops, missing |-> missing]

\* A Heartbeat that lists active: Touch comes first.
RecvHeartbeat(s, a, active) ==
  /\ work[s].pc = "recv"
  /\ Heartbeat(s, a)
  /\ work' = [work EXCEPT ![s] = [pc |-> "heartbeat", active |-> active,
                                   stops |-> {}, missing |-> {}]]
  /\ UNCHANGED <<minted, table, replica, avoid, placer, todo, deleting, overlapped>>

\* Faulty variant: a deleted deployment's replica still counts.
WantedThoughDeleted(n) == {d \in Deps : On(d, n)}

Wanted(n) == {d \in table : On(d, n)}

\* Faulty variant: a READY replica is taken to be there.
MissingButReady(n, active) ==
  {d \in Wanted(n) \ active : replica[d].placed > LostAfter /\ replica[d].state # "READY"}

\* A replica that was placed just now is given the time to start.
Missing(n, active) == {d \in Wanted(n) \ active : replica[d].placed > LostAfter}

\* The critical section of OnHeartbeat.
OnHeartbeat(s) ==
  LET n      == owner[s]
      active == work[s].active
  IN
  /\ work[s].pc = "heartbeat"
  /\ work' = [work EXCEPT ![s] = Applying(active \ Wanted(n), Missing(n, active))]
  /\ UNCHANGED <<regVars, minted, table, replica, avoid, placer, todo, deleting,
                 overlapped>>

\* sendStop of an orphan, for OnHeartbeat or OnUpdate; its failure is logged.
StopOrphan(s, d, ok) ==
  /\ work[s].pc = "apply" /\ d \in work[s].stops
  /\ StopSent(owner[s], ok)
  /\ work' = [work EXCEPT ![s] = Applying(@.stops \ {d}, @.missing)]
  /\ UNCHANGED <<regVars, minted, table, replica, avoid, placer, todo, deleting,
                 overlapped>>

\* unplace, of whatever replica the deployment has by now.
Unplace(s, d) ==
  /\ work[s].pc = "apply" /\ work[s].stops = {} /\ d \in work[s].missing
  /\ replica' = [replica EXCEPT ![d] = None]
  /\ work' = [work EXCEPT ![s] = Applying({}, @.missing \ {d})]
  /\ UNCHANGED <<regVars, minted, table, avoid, placer, todo, deleting, overlapped>>

Reported(r, state) == [r EXCEPT !.state = state, !.heard = 0]

\* OnUpdate: from the node the replica is on, it is recorded; from any other,
\* the deployment is an orphan there.
OnUpdate(s, d, state) ==
  /\ handler[s] = "serving" /\ work[s].pc = "recv"
  /\ IF d \in Wanted(owner[s])
     THEN /\ replica' = [replica EXCEPT ![d] = Reported(@, state)]
          /\ UNCHANGED work
     ELSE /\ work' = [work EXCEPT ![s] = Applying({d}, {})]
          /\ UNCHANGED replica
  /\ UNCHANGED <<regVars, minted, table, avoid, placer, todo, deleting, overlapped>>

-----------------------------------------------------------------------------
(* The registry's own steps, in the presence of the manager. *)

\* A slot is not used again while a place call still holds its handle.
Connect(s, n) ==
  /\ \A p \in Placers : placer[p].via # s
  /\ Register(s, n)
  /\ UNCHANGED mgrVars

Ack(s)         == SendAck(s) /\ UNCHANGED mgrVars
AckFailure(s)  == AckFails(s) /\ UNCHANGED mgrVars
Disconnect(s)  == work[s].pc = "recv" /\ StreamEnds(s) /\ UNCHANGED mgrVars
Reregister(s)  == work[s].pc = "recv" /\ ReRegister(s) /\ UNCHANGED mgrVars
LinkFailure(s) == LinkBreaks(s) /\ UNCHANGED mgrVars
ReaperPass     == Reap /\ UNCHANGED mgrVars

Aged(r) == IF r = None THEN None
           ELSE [r EXCEPT !.placed = Older(@, LostAfter),
                          !.heard  = Older(@, LostAfter)]

Left(t) == IF t = 0 THEN 0 ELSE t - 1

TimePasses ==
  /\ Tick
  /\ replica' = [d \in Deps |-> Aged(replica[d])]
  /\ avoid' = [d \in Deps |-> [n \in Nodes |-> Left(avoid[d][n])]]
  /\ UNCHANGED <<minted, table, placer, todo, work, deleting, overlapped>>

\* The deployment table is in memory too, and every goroutine dies.
CoordinatorRestart ==
  /\ Restart
  /\ table' = {}
  /\ replica' = [d \in Deps |-> None]
  /\ avoid' = [d \in Deps |-> [n \in Nodes |-> 0]]
  /\ placer' = [p \in Placers |-> IdlePlacer]
  /\ todo' = {}
  /\ work' = [s \in Streams |-> Receiving]
  /\ deleting' = [d \in Deps |-> None]
  /\ overlapped' = {}
  /\ UNCHANGED minted

Placement ==
  \/ \E d \in Deps : Create(d)
  \/ \E p \in Placers, d \in Deps : ReadOccupied(p, d)
  \/ \E p \in Placers : ReadBans(p)
  \/ \E p \in Placers, n \in Nodes : SelectNode(p, n)
  \/ \E p \in Placers : NoNode(p)
  \/ \E p \in Placers, ok \in BOOLEAN : SendStart(p, ok)
  \/ \E p \in Placers : Record(p)
  \/ Reconcile

Deletion ==
  \/ \E d \in Deps : Delete(d)
  \/ \E d \in Deps, ok \in BOOLEAN : DeleteStop(d, ok)

Messages ==
  \/ \E s \in Streams, a \in Addrs, active \in Actives : RecvHeartbeat(s, a, active)
  \/ \E s \in Streams : OnHeartbeat(s)
  \/ \E s \in Streams, d \in Deps, ok \in BOOLEAN : StopOrphan(s, d, ok)
  \/ \E s \in Streams, d \in Deps : Unplace(s, d)
  \/ \E s \in Streams, d \in Deps, state \in Reports : OnUpdate(s, d, state)

Connections ==
  \/ \E s \in Streams, n \in Nodes : Connect(s, n)
  \/ \E s \in Streams : Ack(s)
  \/ \E s \in Streams : AckFailure(s)
  \/ \E s \in Streams : Disconnect(s)
  \/ \E s \in Streams : Reregister(s)
  \/ \E s \in Streams : LinkFailure(s)
  \/ ReaperPass
  \/ TimePasses
  \/ CoordinatorRestart

DepNext == Placement \/ Deletion \/ Messages \/ Connections

DepSpec == DepInit /\ [][DepNext]_depVars

-----------------------------------------------------------------------------
(* Properties. *)

\* "One deployment per node" (selectNode) can be broken only by place calls
\* that overlap: two deployments of the table share a node only if one call
\* had read the occupied nodes and not yet recorded its replica when the other
\* read them.  Calls that follow one another never share, whatever updates,
\* heartbeats, deletions, losses and re-placements come in between.
SharingNeedsOverlap ==
  \A d, e \in table :
    d # e /\ Placed(d) /\ Placed(e) /\ replica[d].node = replica[e].node
      => {d, e} \in overlapped

\* A deployment sits on a node it is banned from (Reconcile's avoid entry
\* after a failure) only if Create's place call was still under way when
\* Reconcile gave up the failed replica, or overlapped the reconciler's.
BanRespected ==
  \A d \in table, n \in Nodes :
    On(d, n) /\ avoid[d][n] > 0 => {d} \in overlapped

(* What makes the two invariants inductive. *)

\* A place call works on a deployment, Create's on its own; once it has chosen
\* a node it holds a handle, and the node was not ruled out.
CallsWellFormed ==
  \A p \in Placers :
    /\ placer[p].pc # "idle" => placer[p].dep \in Deps /\ (p \in Deps => placer[p].dep = p)
    /\ placer[p].pc \in {"send", "record"} =>
         /\ placer[p].node \in Nodes \ placer[p].excluded
         /\ placer[p].via \in Streams

\* Two calls in flight are in the history.
FlightsOverlap ==
  \A p, q \in Placers :
    p # q /\ InFlight(p) /\ InFlight(q) => {placer[p].dep, placer[q].dep} \in overlapped

\* A call in flight saw every replica of the others that is there now, except
\* those recorded by calls it overlapped.
OccupiedSeen ==
  \A p \in Placers, e \in table :
    InFlight(p) /\ e # placer[p].dep /\ Placed(e) =>
      replica[e].node \in placer[p].excluded \/ {e, placer[p].dep} \in overlapped

\* A call that has read the bans has ruled out every node banned now, or is in
\* the history.
BansSeen ==
  \A p \in Placers, n \in Nodes :
    /\ placer[p].pc \in {"select", "send", "record"}
    /\ avoid[placer[p].dep][n] > 0
    => n \in placer[p].excluded \/ {placer[p].dep} \in overlapped

DepIInv ==
  /\ RegIInv
  /\ DepTypeOK
  /\ CallsWellFormed
  /\ FlightsOverlap
  /\ OccupiedSeen
  /\ SharingNeedsOverlap
  /\ BanRespected
  /\ BansSeen
=============================================================================
