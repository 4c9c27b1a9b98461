--------------------------- MODULE ClusterProofs ----------------------------
(***************************************************************************)
(* Proofs about the deployment manager, for any nodes, streams and         *)
(* deployments, any thresholds, and whatever the agents say, and about the *)
(* manager and its agents together, for any capacity of the streams and    *)
(* any number of faults: every step of the whole is one of the manager or  *)
(* none that it sees, so what is shown of the manager carries over.        *)
(***************************************************************************)
EXTENDS Cluster, ChannelsProofs

(* The manager. *)

USE DeploymentsAssumption

LEMMA DepInitIInv == DepInit => DepIInv
<1> SUFFICES ASSUME DepInit PROVE DepIInv
  OBVIOUS
<1>1. RegIInv
  BY InitIInv DEF DepInit
<1>2. DepTypeOK
  BY <1>1 DEF DepInit, MgrInit, DepTypeOK, RegIInv, IdlePlacer, Call,
              Placer, Steps, Receiving, Work
<1>3. \A p \in Placers : placer[p] = IdlePlacer
  BY DEF DepInit, MgrInit
<1>4. table = {}
  BY DEF DepInit, MgrInit
<1>5. QED
  BY <1>1, <1>2, <1>3, <1>4
  DEF DepIInv, CallsWellFormed, FlightsOverlap, OccupiedSeen, InFlight,
      SharingNeedsOverlap, BanRespected, BansSeen, IdlePlacer, Call

-----------------------------------------------------------------------------
(* The manager touches the registry only through its methods. *)

LEMMA StepIsRegistryStep == [DepNext]_depVars => [RegNext]_regVars
<1> SUFFICES ASSUME [DepNext]_depVars PROVE [RegNext]_regVars
  BY ZenonT(30)
<1>1. CASE Placement
  BY <1>1, ZenonT(30)
  DEF Placement, Create, ReadOccupied, ReadBans, SelectNode, NoNode, SendStart,
      Record, Reconcile
<1>2. CASE Deletion
  BY <1>2 DEF Deletion, Delete, DeleteStop
<1>3. CASE Messages
  <2>1. CASE \E s \in Streams, a \in Addrs, active \in Actives : RecvHeartbeat(s, a, active)
    BY <2>1 DEF RecvHeartbeat, RegNext
  <2>2. CASE \E s \in Streams : OnHeartbeat(s)
    BY <2>2 DEF OnHeartbeat
  <2>3. CASE \E s \in Streams, d \in Deps, ok \in BOOLEAN : StopOrphan(s, d, ok)
    BY <2>3 DEF StopOrphan
  <2>4. CASE \E s \in Streams, d \in Deps : Unplace(s, d)
    BY <2>4 DEF Unplace
  <2>5. CASE \E s \in Streams, d \in Deps, state \in Reports : OnUpdate(s, d, state)
    BY <2>5 DEF OnUpdate
  <2>6. QED
    BY <1>3, <2>1, <2>2, <2>3, <2>4, <2>5 DEF Messages
<1>4. CASE Connections
  BY <1>4 DEF Connections, Connect, Ack, AckFailure, Disconnect, Reregister,
              LinkFailure, ReaperPass, TimePasses, CoordinatorRestart, RegNext
<1>5. CASE UNCHANGED depVars
  BY <1>5 DEF depVars
<1>6. QED
  BY <1>1, <1>2, <1>3, <1>4, <1>5 DEF DepNext

\* With the manager's variables hidden, the coordinator is the registry of
\* Registry.tla: every behaviour of the manager is one of the registry.
THEOREM ManagerImplementsRegistry == DepSpec => RegSpec
<1>1. DepInit => RegInit
  BY DEF DepInit
<1>2. QED
  BY <1>1, StepIsRegistryStep, PTL DEF DepSpec, RegSpec

-----------------------------------------------------------------------------
(* Type correctness, one step per action.  The registry's part comes from  *)
(* the registry's own invariant.                                           *)

MgrTypeOK ==
  /\ minted \subseteq Deps
  /\ table \subseteq minted
  /\ replica \in [Deps -> Replica \cup {None}]
  /\ avoid \in [Deps -> [Nodes -> 0..AvoidFor]]
  /\ placer \in [Placers -> Placer]
  /\ todo \subseteq Deps
  /\ work \in [Streams -> Work]
  /\ deleting \in [Deps -> Nodes \cup {None}]
  /\ overlapped \subseteq SUBSET Deps

LEMMA TypeSplit == DepTypeOK <=> RegTypeOK /\ MgrTypeOK
BY DEF DepTypeOK, MgrTypeOK

LEMMA PlacedType ==
  ASSUME MgrTypeOK, NEW d \in Deps, Placed(d)
  PROVE  replica[d] \in Replica /\ replica[d].node \in Nodes
BY DEF MgrTypeOK, Placed, Replica

LEMMA ApplyingType ==
  ASSUME NEW stops \in SUBSET Deps, NEW missing \in SUBSET Deps
  PROVE  Applying(stops, missing) \in Work
BY DEF Applying, Work

LEMMA CallType ==
  /\ IdlePlacer \in Placer
  /\ \A pc \in Steps, d \in Deps \cup {None}, excluded \in SUBSET Nodes,
        n \in Nodes \cup {None}, s \in Streams \cup {None} :
       Call(pc, d, excluded, n, s) \in Placer
BY DEF Call, IdlePlacer, Placer, Steps

LEMMA ReportedType ==
  ASSUME NEW r \in Replica, NEW state \in Reports
  PROVE  Reported(r, state) \in Replica /\ Reported(r, state).node = r.node
<1>1. state \in States /\ 0 \in 0..(LostAfter + 1)
  OBVIOUS
<1>2. QED
  BY <1>1, ZenonT(30) DEF Reported, Replica

LEMMA AgedType ==
  ASSUME NEW r \in Replica \cup {None}
  PROVE  /\ Aged(r) \in Replica \cup {None}
         /\ Aged(r) # None => r # None /\ Aged(r).node = r.node
<1>1. CASE r = None
  BY <1>1 DEF Aged
<1>2. CASE r # None
  <2>1. r \in Replica /\ Aged(r) = [r EXCEPT !.placed = Older(@, LostAfter),
                                            !.heard  = Older(@, LostAfter)]
    BY <1>2 DEF Aged
  <2>2. /\ Older(r.placed, LostAfter) \in 0..(LostAfter + 1)
        /\ Older(r.heard, LostAfter) \in 0..(LostAfter + 1)
    BY <2>1, OlderType DEF Replica
  <2>3. QED
    BY <1>2, <2>1, <2>2, ZenonT(30) DEF Replica
<1>3. QED
  BY <1>1, <1>2

LEMMA PlacementType ==
  ASSUME MgrTypeOK, CallsWellFormed, RegTypeOK, Placement
  PROVE  MgrTypeOK'
<1> USE DEF MgrTypeOK
<1>1. ASSUME NEW d \in Deps, Create(d) PROVE MgrTypeOK'
  <2>1. placer' \in [Placers -> Placer]
    BY <1>1, CallType DEF Create, Placers, Steps
  <2>2. QED
    BY <1>1, <2>1 DEF Create
<1>2. ASSUME NEW p \in Placers, NEW d \in Deps, ReadOccupied(p, d) PROVE MgrTypeOK'
  <2>1. OccupiedFor(d) \subseteq Nodes
    BY PlacedType DEF OccupiedFor
  <2>2. placer' \in [Placers -> Placer]
    BY <1>2, <2>1, CallType DEF ReadOccupied, Steps
  <2>3. \A q \in Placers : InFlight(q) => placer[q].dep \in Deps
    BY DEF InFlight, CallsWellFormed
  <2>4. overlapped' \subseteq SUBSET Deps
    BY <1>2, <2>3 DEF ReadOccupied
  <2>5. QED
    BY <1>2, <2>2, <2>4, ZenonT(30) DEF ReadOccupied
<1>0. ASSUME NEW p \in Placers, ReadBans(p) PROVE MgrTypeOK'
  <2>1. Call("select", placer[p].dep, placer[p].excluded \cup Banned(placer[p].dep), None, None)
          \in Placer
    BY DEF Call, Placer, Steps, Banned
  <2>2. placer' \in [Placers -> Placer]
    BY <1>0, <2>1 DEF ReadBans
  <2>3. QED
    BY <1>0, <2>2 DEF ReadBans
<1>3. ASSUME NEW p \in Placers, NEW n \in Nodes, SelectNode(p, n) PROVE MgrTypeOK'
  <2>1. Call("send", placer[p].dep, placer[p].excluded, n, send[n]) \in Placer
    BY DEF Call, Placer, Steps, RegTypeOK
  <2>2. placer' \in [Placers -> Placer]
    BY <1>3, <2>1 DEF SelectNode
  <2>3. QED
    BY <1>3, <2>2 DEF SelectNode
<1>4. ASSUME NEW p \in Placers, NoNode(p) PROVE MgrTypeOK'
  BY <1>4, CallType DEF NoNode
<1>5. ASSUME NEW p \in Placers, NEW ok \in BOOLEAN, SendStart(p, ok) PROVE MgrTypeOK'
  <2>1. Call("record", placer[p].dep, placer[p].excluded, placer[p].node, placer[p].via)
          \in Placer
    BY DEF Call, Placer, Steps
  <2>2. placer' \in [Placers -> Placer]
    BY <1>5, <2>1, CallType DEF SendStart
  <2>3. QED
    BY <1>5, <2>2 DEF SendStart
<1>6. ASSUME NEW p \in Placers, Record(p) PROVE MgrTypeOK'
  <2>1. placer[p].dep \in Deps /\ placer[p].node \in Nodes
    BY <1>6 DEF Record, CallsWellFormed
  <2>2. NewReplica(placer[p].node) \in Replica
    BY <2>1 DEF NewReplica, Replica, States
  <2>3. QED
    BY <1>6, <2>1, <2>2, CallType DEF Record
<1>7. ASSUME Reconcile PROVE MgrTypeOK'
  <2>1. \A d \in Deps : FailedHere(d) => replica[d].node \in Nodes
    BY PlacedType DEF FailedHere
  <2>2. avoid' \in [Deps -> [Nodes -> 0..AvoidFor]]
    BY <1>7, <2>1 DEF Reconcile
  <2>3. QED
    BY <1>7, <2>2 DEF Reconcile, ToPlace
<1> HIDE DEF MgrTypeOK
<1>8. QED
  BY <1>0, <1>1, <1>2, <1>3, <1>4, <1>5, <1>6, <1>7 DEF Placement

LEMMA HandlerType ==
  ASSUME MgrTypeOK, Deletion \/ Messages
  PROVE  MgrTypeOK'
<1> USE DEF MgrTypeOK
<1>1. ASSUME NEW d \in Deps, Delete(d) PROVE MgrTypeOK'
  BY <1>1, PlacedType DEF Delete
<1>2. ASSUME NEW d \in Deps, NEW ok \in BOOLEAN, DeleteStop(d, ok) PROVE MgrTypeOK'
  BY <1>2, ZenonT(30) DEF DeleteStop
<1>3. ASSUME NEW s \in Streams, NEW a \in Addrs, NEW active \in Actives,
             RecvHeartbeat(s, a, active)
      PROVE  MgrTypeOK'
  BY <1>3, ZenonT(30) DEF RecvHeartbeat, Work
<1>4. ASSUME NEW s \in Streams, OnHeartbeat(s) PROVE MgrTypeOK'
  <2>1. work[s].active \subseteq Deps /\ Wanted(owner[s]) \subseteq Deps
    BY DEF Work, Wanted
  <2>2. work' \in [Streams -> Work]
    BY <1>4, <2>1, ApplyingType DEF OnHeartbeat, Missing
  <2>3. QED
    BY <1>4, <2>2 DEF OnHeartbeat
<1>5. ASSUME NEW s \in Streams, NEW d \in Deps, NEW ok \in BOOLEAN, StopOrphan(s, d, ok)
      PROVE  MgrTypeOK'
  <2>1. work[s].stops \subseteq Deps /\ work[s].missing \subseteq Deps
    BY DEF Work
  <2>2. work' \in [Streams -> Work]
    BY <1>5, <2>1, ApplyingType DEF StopOrphan
  <2>3. QED
    BY <1>5, <2>2 DEF StopOrphan
<1>6. ASSUME NEW s \in Streams, NEW d \in Deps, Unplace(s, d) PROVE MgrTypeOK'
  <2>1. work[s].missing \subseteq Deps
    BY DEF Work
  <2>2. work' \in [Streams -> Work]
    BY <1>6, <2>1, ApplyingType DEF Unplace
  <2>3. QED
    BY <1>6, <2>2 DEF Unplace
<1>7. ASSUME NEW s \in Streams, NEW d \in Deps, NEW state \in Reports, OnUpdate(s, d, state)
      PROVE  MgrTypeOK'
  <2>1. CASE d \in Wanted(owner[s])
    <3>1. replica[d] \in Replica
      BY <2>1, PlacedType DEF Wanted, On
    <3>2. Reported(replica[d], state) \in Replica
      BY <3>1, ReportedType
    <3>3. replica' \in [Deps -> Replica \cup {None}]
      <4>1. replica' = [replica EXCEPT ![d] = Reported(@, state)]
        BY <1>7, <2>1, ZenonT(30) DEF OnUpdate
      <4>2. QED
        BY <3>2, <4>1, ZenonT(30)
    <3>4. QED
      BY <1>7, <2>1, <3>3 DEF OnUpdate
  <2>2. CASE d \notin Wanted(owner[s])
    <3>1. work' \in [Streams -> Work]
      BY <1>7, <2>2, ApplyingType DEF OnUpdate
    <3>2. QED
      BY <1>7, <2>2, <3>1, ZenonT(30) DEF OnUpdate
  <2>3. QED
    BY <2>1, <2>2, ZenonT(30)
<1> HIDE DEF MgrTypeOK
<1>8. QED
  BY <1>1, <1>2, <1>3, <1>4, <1>5, <1>6, <1>7, SMTT(30) DEF Deletion, Messages

LEMMA ConnectionsType ==
  ASSUME MgrTypeOK, Connections
  PROVE  MgrTypeOK'
<1> USE DEF MgrTypeOK
<1>1. CASE TimePasses
  <2>1. replica' \in [Deps -> Replica \cup {None}]
    BY <1>1, AgedType DEF TimePasses
  <2>2. \A t \in 0..AvoidFor : Left(t) \in 0..AvoidFor
    BY DEF Left
  <2>3. avoid' \in [Deps -> [Nodes -> 0..AvoidFor]]
    BY <1>1, <2>2 DEF TimePasses
  <2>4. QED
    BY <1>1, <2>1, <2>3 DEF TimePasses
<1>2. CASE CoordinatorRestart
  <2>1. Receiving \in Work
    BY DEF Receiving, Work
  <2>2. QED
    BY <1>2, <2>1, CallType DEF CoordinatorRestart
<1>3. CASE UNCHANGED mgrVars
  BY <1>3, ZenonT(30) DEF mgrVars
<1> HIDE DEF MgrTypeOK
<1>4. QED
  BY <1>1, <1>2, <1>3
  DEF Connections, Connect, Ack, AckFailure, Disconnect, Reregister, LinkFailure,
      ReaperPass

-----------------------------------------------------------------------------
(* The rest of the invariant.  Most steps start no place call, record no   *)
(* replica and impose no ban: they are dealt with at once.                 *)

Sharing ==
  /\ CallsWellFormed
  /\ FlightsOverlap
  /\ OccupiedSeen
  /\ SharingNeedsOverlap
  /\ BanRespected
  /\ BansSeen

\* A step that places no replica, bans no more nodes and takes no part in
\* placement.
Quiet ==
  /\ table' \subseteq table
  /\ \A d \in Deps : Placed(d)' => Placed(d) /\ replica'[d].node = replica[d].node
  /\ \A d \in Deps, n \in Nodes : avoid'[d][n] > 0 => avoid[d][n] > 0
  /\ placer' = placer
  /\ overlapped' = overlapped

\* Such a step keeps what placement promises.
LEMMA QuietStep ==
  ASSUME MgrTypeOK, Sharing, Quiet
  PROVE  Sharing'
<1> USE DEF Quiet
<1>0. CallsWellFormed /\ FlightsOverlap /\ OccupiedSeen
      /\ SharingNeedsOverlap /\ BanRespected /\ BansSeen
  BY DEF Sharing
<1>t. table \subseteq Deps
  BY DEF MgrTypeOK
<1>1. CallsWellFormed'
  BY <1>0, ZenonT(30) DEF CallsWellFormed
<1>2. FlightsOverlap'
  BY <1>0 DEF FlightsOverlap, InFlight
<1>3. OccupiedSeen'
  BY <1>0, <1>t DEF OccupiedSeen, InFlight
<1>4. SharingNeedsOverlap'
  BY <1>0, <1>t DEF SharingNeedsOverlap
<1>5. BanRespected'
  BY <1>0, <1>t DEF BanRespected, On
<1>6. BansSeen'
  BY <1>0 DEF BansSeen, CallsWellFormed
<1>7. QED
  BY <1>1, <1>2, <1>3, <1>4, <1>5, <1>6 DEF Sharing

LEMMA MessagesQuiet ==
  ASSUME MgrTypeOK, Deletion \/ Messages
  PROVE  Quiet
<1> USE DEF Quiet
<1>1. ASSUME NEW d \in Deps, Delete(d) PROVE Quiet
  BY <1>1 DEF Delete, Placed
<1>2. ASSUME NEW d \in Deps, NEW ok \in BOOLEAN, DeleteStop(d, ok) PROVE Quiet
  BY <1>2 DEF DeleteStop, Placed
<1>3. ASSUME NEW s \in Streams, NEW a \in Addrs, NEW active \in Actives,
             RecvHeartbeat(s, a, active)
      PROVE  Quiet
  BY <1>3, ZenonT(30) DEF RecvHeartbeat, Placed
<1>4. ASSUME NEW s \in Streams, OnHeartbeat(s) PROVE Quiet
  BY <1>4, ZenonT(30) DEF OnHeartbeat, Placed
<1>5. ASSUME NEW s \in Streams, NEW d \in Deps, NEW ok \in BOOLEAN, StopOrphan(s, d, ok)
      PROVE  Quiet
  BY <1>5 DEF StopOrphan, Placed
<1>6. ASSUME NEW s \in Streams, NEW d \in Deps, Unplace(s, d) PROVE Quiet
  BY <1>6 DEF Unplace, Placed, MgrTypeOK
<1>7. ASSUME NEW s \in Streams, NEW d \in Deps, NEW state \in Reports, OnUpdate(s, d, state)
      PROVE  Quiet
  <2>1. CASE d \in Wanted(owner[s])
    <3>1. Placed(d) /\ replica[d] \in Replica
      BY <2>1, PlacedType, ZenonT(30) DEF Wanted, On
    <3>2. replica' = [replica EXCEPT ![d] = Reported(replica[d], state)]
      BY <1>7, <2>1 DEF OnUpdate
    <3>3. \A e \in Deps : Placed(e)' => Placed(e) /\ replica'[e].node = replica[e].node
      BY <3>1, <3>2, ReportedType, ZenonT(30) DEF Placed, MgrTypeOK
    <3>4. QED
      BY <1>7, <3>3 DEF OnUpdate
  <2>2. CASE d \notin Wanted(owner[s])
    BY <1>7, <2>2, ZenonT(30) DEF OnUpdate, Placed
  <2>3. QED
    BY <2>1, <2>2, ZenonT(30)
<1> HIDE DEF Quiet
<1>8. QED
  BY <1>1, <1>2, <1>3, <1>4, <1>5, <1>6, <1>7, SMTT(30) DEF Deletion, Messages

LEMMA ConnectionsSharing ==
  ASSUME MgrTypeOK, Sharing, Connections
  PROVE  Sharing'
<1>1. CASE TimePasses
  <2>1. \A d \in Deps : Placed(d)' => Placed(d) /\ replica'[d].node = replica[d].node
    BY <1>1, AgedType DEF TimePasses, Placed, MgrTypeOK
  <2>2. \A t \in 0..AvoidFor : Left(t) > 0 => t > 0
    BY DEF Left
  <2>3. \A d \in Deps, n \in Nodes : avoid'[d][n] > 0 => avoid[d][n] > 0
    BY <1>1, <2>2 DEF TimePasses, MgrTypeOK
  <2>4. Quiet
    BY <1>1, <2>1, <2>3, ZenonT(30) DEF TimePasses, Quiet
  <2>5. QED
    BY <2>4, QuietStep
<1>2. CASE CoordinatorRestart
  <2>1. /\ \A p \in Placers : placer'[p].pc = "idle"
        /\ table' = {}
    BY <1>2 DEF CoordinatorRestart, IdlePlacer, Call
  <2>2. QED
    BY <2>1
    DEF Sharing, CallsWellFormed, FlightsOverlap, OccupiedSeen, InFlight,
        SharingNeedsOverlap, BanRespected, BansSeen
<1>3. CASE UNCHANGED mgrVars
  <2>1. Quiet
    BY <1>3 DEF mgrVars, Quiet, Placed
  <2>2. QED
    BY <2>1, QuietStep
<1>4. QED
  BY <1>1, <1>2, <1>3
  DEF Connections, Connect, Ack, AckFailure, Disconnect, Reregister, LinkFailure,
      ReaperPass

LEMMA CreateSharing ==
  ASSUME MgrTypeOK, Sharing, NEW d \in Deps, Create(d)
  PROVE  Sharing'
<1>0. CallsWellFormed /\ FlightsOverlap /\ OccupiedSeen
      /\ SharingNeedsOverlap /\ BanRespected /\ BansSeen
  BY DEF Sharing
<1>1. /\ placer'[d].pc = "occupied" /\ placer'[d].dep = d
      /\ \A q \in Placers \ {d} : placer'[q] = placer[q]
  BY DEF Create, Call, MgrTypeOK, Placers
<1>2. /\ replica'[d] = None /\ \A e \in Deps \ {d} : replica'[e] = replica[e]
      /\ \A n \in Nodes : avoid'[d][n] = 0
      /\ \A e \in Deps \ {d} : avoid'[e] = avoid[e]
  BY DEF Create, MgrTypeOK
<1>3. /\ table' = table \cup {d} /\ overlapped' = overlapped /\ table \subseteq Deps
  BY DEF Create, MgrTypeOK
<1>4. CallsWellFormed'
  BY <1>0, <1>1, ZenonT(30) DEF CallsWellFormed
<1>5. FlightsOverlap'
  BY <1>0, <1>1, <1>3, ZenonT(30) DEF FlightsOverlap, InFlight
<1>6. OccupiedSeen'
  BY <1>0, <1>1, <1>2, <1>3, ZenonT(30) DEF OccupiedSeen, InFlight, Placed
<1>7. SharingNeedsOverlap'
  BY ZenonT(60), <1>0, <1>2, <1>3 DEF SharingNeedsOverlap, Placed
<1>8. BanRespected'
  BY <1>0, <1>2, <1>3 DEF BanRespected, On, Placed
<1>9. BansSeen'
  <2> SUFFICES ASSUME NEW q \in Placers, NEW n \in Nodes,
                      placer'[q].pc \in {"select", "send", "record"},
                      avoid'[placer'[q].dep][n] > 0
               PROVE  n \in placer'[q].excluded \/ {placer'[q].dep} \in overlapped'
    BY <1>0, ZenonT(30) DEF BansSeen
  <2>1. q # d /\ placer'[q] = placer[q]
    BY <1>1, ZenonT(30)
  <2>2. placer[q].dep \in Deps
    BY <1>0, <2>1 DEF CallsWellFormed
  <2>3. avoid'[placer[q].dep] = avoid[placer[q].dep]
    <3>1. placer[q].dep # d
      BY <1>2, <2>1
    <3>2. QED
      BY <1>2, <2>2, <3>1, ZenonT(30)
  <2>4. QED
    BY <1>0, <1>3, <2>1, <2>3 DEF BansSeen
<1>10. QED
  BY <1>4, <1>5, <1>6, <1>7, <1>8, <1>9 DEF Sharing

LEMMA ReadOccupiedSharing ==
  ASSUME MgrTypeOK, Sharing, NEW p \in Placers, NEW d \in Deps, ReadOccupied(p, d)
  PROVE  Sharing'
<1>0. CallsWellFormed /\ FlightsOverlap /\ OccupiedSeen
      /\ SharingNeedsOverlap /\ BanRespected /\ BansSeen
  BY DEF Sharing
<1>1. /\ placer'[p].pc = "bans" /\ placer'[p].dep = d
      /\ placer'[p].excluded = OccupiedFor(d)
      /\ \A q \in Placers \ {p} : placer'[q] = placer[q]
  BY DEF ReadOccupied, Call, MgrTypeOK
<1>2. /\ table' = table /\ replica' = replica /\ avoid' = avoid /\ table \subseteq Deps
      /\ overlapped \subseteq overlapped'
      /\ \A q \in Placers \ {p} : InFlight(q) => {d, placer[q].dep} \in overlapped'
  BY ZenonT(30) DEF ReadOccupied, MgrTypeOK
<1>3. p \in Deps => p = d
  BY ZenonT(30) DEF ReadOccupied
<1>4. CallsWellFormed'
  BY <1>0, <1>1, <1>3 DEF CallsWellFormed
<1>5. FlightsOverlap'
  <2> SUFFICES ASSUME NEW q \in Placers, NEW r \in Placers, q # r,
                      InFlight(q)', InFlight(r)'
               PROVE  {placer'[q].dep, placer'[r].dep} \in overlapped'
    BY <1>0, ZenonT(30) DEF FlightsOverlap
  <2>1. CASE q = p
    BY <1>1, <1>2, <2>1 DEF InFlight
  <2>2. CASE r = p
    <3>1. {d, placer[q].dep} \in overlapped'
      BY <1>1, <1>2, <2>2 DEF InFlight
    <3>2. {placer'[q].dep, placer'[r].dep} = {d, placer[q].dep}
      BY <1>1, <2>2
    <3>3. QED
      BY <3>1, <3>2, ZenonT(30)
  <2>3. CASE q # p /\ r # p
    BY <1>0, <1>1, <1>2, <2>3, ZenonT(30) DEF FlightsOverlap, InFlight
  <2>4. QED
    BY <2>1, <2>2, <2>3, ZenonT(30)
<1>6. OccupiedSeen'
  <2> SUFFICES ASSUME NEW q \in Placers, NEW e \in table,
                      InFlight(q)', e # placer'[q].dep, Placed(e)
               PROVE  replica[e].node \in placer'[q].excluded
                        \/ {e, placer'[q].dep} \in overlapped'
    BY <1>0, <1>2, ZenonT(30) DEF OccupiedSeen, Placed
  <2>1. CASE q = p
    BY <1>1, <2>1, ZenonT(30) DEF OccupiedFor
  <2>2. CASE q # p
    BY <1>0, <1>1, <1>2, <2>2, ZenonT(30) DEF OccupiedSeen, InFlight
  <2>3. QED
    BY <2>1, <2>2
<1>7. SharingNeedsOverlap'
  BY <1>0, <1>2, ZenonT(30) DEF SharingNeedsOverlap, Placed
<1>8. BanRespected'
  BY <1>0, <1>2, ZenonT(30) DEF BanRespected, On, Placed
<1>9. BansSeen'
  BY <1>0, <1>1, <1>2 DEF BansSeen
<1>10. QED
  BY <1>4, <1>5, <1>6, <1>7, <1>8, <1>9 DEF Sharing

\* A call that goes on, keeping what it has seen, or ends.
LEMMA CallStepSharing ==
  ASSUME MgrTypeOK, RegTypeOK, Sharing, NEW p \in Placers,
         \/ ReadBans(p)
         \/ \E n \in Nodes : SelectNode(p, n)
         \/ NoNode(p)
         \/ \E ok \in BOOLEAN : SendStart(p, ok)
  PROVE  Sharing'
<1>0. CallsWellFormed /\ FlightsOverlap /\ OccupiedSeen
      /\ SharingNeedsOverlap /\ BanRespected /\ BansSeen
  BY DEF Sharing
<1>1. /\ table' = table /\ replica' = replica /\ avoid' = avoid
      /\ overlapped' = overlapped
      /\ \A q \in Placers \ {p} : placer'[q] = placer[q]
  BY ZenonT(30) DEF ReadBans, SelectNode, NoNode, SendStart, MgrTypeOK
<1> DEFINE GoesOnOrEnds ==
      \/ placer'[p].pc = "idle"
      \/ /\ InFlight(p) /\ placer'[p].pc \in {"select", "send", "record"}
         /\ placer'[p].dep = placer[p].dep
         /\ placer[p].excluded \subseteq placer'[p].excluded
         /\ placer'[p].pc \in {"send", "record"} =>
              placer'[p].node \in Nodes \ placer'[p].excluded /\ placer'[p].via \in Streams
         /\ \A n \in Nodes : avoid[placer[p].dep][n] > 0 =>
              n \in placer'[p].excluded \/ {placer[p].dep} \in overlapped
<1>2. GoesOnOrEnds
  <2>0. CASE ReadBans(p)
    BY <2>0 DEF ReadBans, Banned, Call, InFlight, MgrTypeOK
  <2>1. ASSUME NEW n \in Nodes, SelectNode(p, n) PROVE GoesOnOrEnds
    <3> DEFINE c == Call("send", placer[p].dep, placer[p].excluded, n, send[n])
    <3>a. /\ c.pc = "send" /\ c.dep = placer[p].dep /\ c.excluded = placer[p].excluded
          /\ c.node = n /\ c.via = send[n]
      BY DEF Call
    <3>0. placer'[p] = c
      BY <2>1, ZenonT(30) DEF SelectNode, MgrTypeOK
    <3> HIDE DEF c
    <3>1. /\ placer'[p].pc = "send" /\ placer'[p].dep = placer[p].dep
          /\ placer'[p].excluded = placer[p].excluded
          /\ placer'[p].node = n /\ placer'[p].via = send[n]
      BY <3>0, <3>a, Zenon
    <3>2. placer[p].pc = "select" /\ n \in Nodes \ placer[p].excluded /\ send[n] \in Streams
      BY <2>1, ZenonT(30) DEF SelectNode, Eligible, RegTypeOK
    <3>3. \A m \in Nodes : avoid[placer[p].dep][m] > 0 =>
            m \in placer[p].excluded \/ {placer[p].dep} \in overlapped
      BY <1>0, <3>2 DEF BansSeen
    <3>4. QED
      BY <3>1, <3>2, <3>3, Zenon DEF InFlight
  <2>2. CASE NoNode(p)
    BY <2>2, ZenonT(30) DEF NoNode, IdlePlacer, Call, MgrTypeOK
  <2>3. ASSUME NEW ok \in BOOLEAN, SendStart(p, ok) PROVE GoesOnOrEnds
    <3>1. CASE ok
      <4> DEFINE c == Call("record", placer[p].dep, placer[p].excluded, placer[p].node,
                           placer[p].via)
      <4>a. /\ c.pc = "record" /\ c.dep = placer[p].dep /\ c.excluded = placer[p].excluded
            /\ c.node = placer[p].node /\ c.via = placer[p].via
        BY ZenonT(30) DEF Call
      <4>0. placer'[p] = c
        BY <2>3, <3>1 DEF SendStart, MgrTypeOK
      <4> HIDE DEF c
      <4>1. /\ placer'[p].pc = "record" /\ placer'[p].dep = placer[p].dep
            /\ placer'[p].excluded = placer[p].excluded
            /\ placer'[p].node = placer[p].node /\ placer'[p].via = placer[p].via
        BY <4>0, <4>a, ZenonT(30)
      <4>2. /\ placer[p].pc = "send"
            /\ placer[p].node \in Nodes \ placer[p].excluded /\ placer[p].via \in Streams
        BY <1>0, <2>3, ZenonT(30) DEF SendStart, CallsWellFormed
      <4>3. \A m \in Nodes : avoid[placer[p].dep][m] > 0 =>
              m \in placer[p].excluded \/ {placer[p].dep} \in overlapped
        BY <1>0, <4>2 DEF BansSeen
      <4>4. QED
        BY <4>1, <4>2, <4>3, Zenon DEF InFlight
    <3>2. CASE ~ok
      BY <2>3, <3>2, ZenonT(30) DEF SendStart, IdlePlacer, Call, MgrTypeOK
    <3>3. QED
      BY <3>1, <3>2, ZenonT(30)
  <2>4. QED
    BY <2>0, <2>1, <2>2, <2>3, ZenonT(30)
<1>3. CallsWellFormed'
  BY <1>0, <1>1, <1>2, ZenonT(30) DEF CallsWellFormed, InFlight
<1>s. \A q \in Placers : InFlight(q)' =>
        /\ InFlight(q) /\ placer'[q].dep = placer[q].dep
        /\ placer[q].excluded \subseteq placer'[q].excluded
  <2>1. ASSUME NEW q \in Placers \ {p} PROVE placer'[q] = placer[q]
    BY <1>1, ZenonT(30)
  <2>2. InFlight(p)' => /\ InFlight(p) /\ placer'[p].dep = placer[p].dep
                        /\ placer[p].excluded \subseteq placer'[p].excluded
    BY <1>2, ZenonT(30) DEF InFlight
  <2>3. QED
    BY <2>1, <2>2 DEF InFlight
<1>4. FlightsOverlap'
  <2> SUFFICES ASSUME NEW q \in Placers, NEW r \in Placers,
                      q # r, InFlight(q)', InFlight(r)'
               PROVE  {placer'[q].dep, placer'[r].dep} \in overlapped'
    BY ZenonT(30) DEF FlightsOverlap
  <2>1. /\ InFlight(q) /\ placer'[q].dep = placer[q].dep
        /\ InFlight(r) /\ placer'[r].dep = placer[r].dep
    BY <1>s, ZenonT(30)
  <2>2. {placer[q].dep, placer[r].dep} \in overlapped
    BY <1>0, <2>1, ZenonT(30) DEF FlightsOverlap
  <2>3. QED
    BY <1>1, <2>1, <2>2
<1>5. OccupiedSeen'
  <2> SUFFICES ASSUME NEW q \in Placers, NEW e \in table',
                      InFlight(q)', e # placer'[q].dep, Placed(e)'
               PROVE  replica'[e].node \in placer'[q].excluded
                        \/ {e, placer'[q].dep} \in overlapped'
    BY ZenonT(30) DEF OccupiedSeen
  <2>1. /\ InFlight(q) /\ placer'[q].dep = placer[q].dep
        /\ placer[q].excluded \subseteq placer'[q].excluded
    BY <1>s, ZenonT(30)
  <2>2. e \in table /\ Placed(e) /\ replica'[e] = replica[e] /\ e # placer[q].dep
    BY <1>1, <2>1, ZenonT(30) DEF Placed
  <2>3. replica[e].node \in placer[q].excluded \/ {e, placer[q].dep} \in overlapped
    BY <1>0, <2>1, <2>2 DEF OccupiedSeen
  <2>4. QED
    BY <1>1, <2>1, <2>2, <2>3, ZenonT(30)
<1>6. SharingNeedsOverlap' /\ BanRespected'
  <2>1. SharingNeedsOverlap'
    BY <1>0, <1>1, ZenonT(30) DEF SharingNeedsOverlap, Placed
  <2>2. BanRespected'
    BY <1>0, <1>1, ZenonT(30) DEF BanRespected, On, Placed
  <2>3. QED
    BY <2>1, <2>2
<1>7. BansSeen'
  BY <1>0, <1>1, <1>2, ZenonT(30) DEF BansSeen
<1>8. QED
  BY <1>3, <1>4, <1>5, <1>6, <1>7 DEF Sharing

LEMMA RecordSharing ==
  ASSUME MgrTypeOK, Sharing, NEW p \in Placers, Record(p)
  PROVE  Sharing'
<1> DEFINE d == placer[p].dep
           n == placer[p].node
<1>0. CallsWellFormed /\ FlightsOverlap /\ OccupiedSeen
      /\ SharingNeedsOverlap /\ BanRespected /\ BansSeen
  BY DEF Sharing
<1>1. d \in Deps /\ n \in Nodes \ placer[p].excluded /\ InFlight(p)
  BY <1>0 DEF Record, CallsWellFormed, InFlight
<1>2. /\ placer'[p].pc = "idle"
      /\ \A q \in Placers \ {p} : placer'[q] = placer[q]
  BY DEF Record, IdlePlacer, Call, MgrTypeOK
<1>3. /\ replica'[d].node = n
      /\ \A e \in Deps \ {d} : replica'[e] = replica[e]
  BY <1>1 DEF Record, NewReplica, MgrTypeOK
<1>4. /\ table' = table /\ avoid' = avoid /\ overlapped' = overlapped
      /\ table \subseteq Deps
  BY ZenonT(30) DEF Record, MgrTypeOK
<1> HIDE DEF d, n
<1>5. \A e \in table : e # d /\ Placed(e) /\ replica[e].node = n => {e, d} \in overlapped
  BY <1>0, <1>1, ZenonT(30) DEF OccupiedSeen, d, n
<1>6. CallsWellFormed'
  BY <1>0, <1>2, ZenonT(30) DEF CallsWellFormed
<1>7. FlightsOverlap'
  BY <1>0, <1>2, <1>4, ZenonT(30) DEF FlightsOverlap, InFlight
<1>8. OccupiedSeen'
  <2> SUFFICES ASSUME NEW q \in Placers, NEW e \in table,
                      InFlight(q)', e # placer'[q].dep, Placed(e)'
               PROVE  replica'[e].node \in placer'[q].excluded
                        \/ {e, placer'[q].dep} \in overlapped'
    BY <1>0, <1>4 DEF OccupiedSeen
  <2>1. q # p /\ placer'[q] = placer[q] /\ InFlight(q)
    BY <1>2, ZenonT(30) DEF InFlight
  <2>2. CASE e = d
    BY <1>0, <1>1, <1>4, <2>1, <2>2 DEF FlightsOverlap, d
  <2>3. CASE e # d
    BY <1>0, <1>3, <1>4, <2>1, <2>3, ZenonT(30) DEF OccupiedSeen, Placed
  <2>4. QED
    BY <2>2, <2>3, ZenonT(30)
<1>9. SharingNeedsOverlap'
  <2> SUFFICES ASSUME NEW e \in table, NEW f \in table, e # f, Placed(e)', Placed(f)',
                      replica'[e].node = replica'[f].node
               PROVE  {e, f} \in overlapped
    BY <1>0, <1>4 DEF SharingNeedsOverlap
  <2>1. CASE e = d
    <3>1. {f, d} \in overlapped
      BY <1>3, <1>4, <1>5, <2>1, ZenonT(30) DEF Placed
    <3>2. {e, f} = {f, d}
      BY <2>1
    <3>3. QED
      BY <3>1, <3>2, ZenonT(30)
  <2>2. CASE f = d
    BY <1>3, <1>4, <1>5, <2>2, ZenonT(30) DEF Placed
  <2>3. CASE e # d /\ f # d
    BY <1>0, <1>3, <1>4, <2>3 DEF SharingNeedsOverlap, Placed
  <2>4. QED
    BY <2>1, <2>2, <2>3, ZenonT(30)
<1>10. BanRespected'
  <2> SUFFICES ASSUME NEW e \in table, NEW m \in Nodes, On(e, m)', avoid[e][m] > 0
               PROVE  {e} \in overlapped
    BY <1>0, <1>4, ZenonT(30) DEF BanRespected
  <2>1. CASE e = d
    <3>1. m = n /\ placer[p].pc = "record"
      BY <1>3, <2>1 DEF On, Record
    <3>2. QED
      BY <1>0, <1>1, <2>1, <3>1, ZenonT(30) DEF BansSeen, d, n
  <2>2. CASE e # d
    BY <1>0, <1>3, <1>4, <2>2, ZenonT(30) DEF BanRespected, On, Placed
  <2>3. QED
    BY <2>1, <2>2
<1>11. BansSeen'
  BY <1>0, <1>2, <1>4 DEF BansSeen
<1>12. QED
  BY <1>6, <1>7, <1>8, <1>9, <1>10, <1>11 DEF Sharing

LEMMA ReconcileSharing ==
  ASSUME MgrTypeOK, Sharing, Reconcile
  PROVE  Sharing'
<1>0. CallsWellFormed /\ FlightsOverlap /\ OccupiedSeen
      /\ SharingNeedsOverlap /\ BanRespected /\ BansSeen
  BY DEF Sharing
<1>1. /\ table' = table /\ placer' = placer /\ table \subseteq Deps
      /\ overlapped \subseteq overlapped'
      /\ \A d \in ToPlace : placer[d].pc # "idle" => {d} \in overlapped'
      /\ placer[Reconciler].pc = "idle"
  BY ZenonT(30) DEF Reconcile, MgrTypeOK
<1>2. \A d \in Deps : replica'[d] = IF d \in ToPlace THEN None ELSE replica[d]
  BY DEF Reconcile
<1>3. \A d \in Deps, n \in Nodes : avoid'[d][n] > 0 => avoid[d][n] > 0 \/ d \in ToPlace
  BY ZenonT(30) DEF Reconcile, ToPlace, MgrTypeOK
<1>4. CallsWellFormed'
  BY <1>0, <1>1, ZenonT(30) DEF CallsWellFormed
<1>5. FlightsOverlap'
  BY <1>0, <1>1, ZenonT(30) DEF FlightsOverlap, InFlight
<1>6. OccupiedSeen'
  BY <1>0, <1>1, <1>2, ZenonT(30) DEF OccupiedSeen, InFlight, Placed
<1>7. SharingNeedsOverlap'
  BY <1>0, <1>1, <1>2, ZenonT(30) DEF SharingNeedsOverlap, Placed
<1>8. BanRespected'
  BY <1>0, <1>1, <1>2, <1>3, ZenonT(30) DEF BanRespected, On, Placed
<1>9. BansSeen'
  <2> SUFFICES ASSUME NEW q \in Placers, NEW n \in Nodes,
                      placer[q].pc \in {"select", "send", "record"},
                      avoid'[placer[q].dep][n] > 0
               PROVE  n \in placer[q].excluded \/ {placer[q].dep} \in overlapped'
    BY <1>0, <1>1 DEF BansSeen
  <2>1. placer[q].dep \in Deps
    BY <1>0 DEF CallsWellFormed
  <2>2. CASE avoid[placer[q].dep][n] > 0
    BY <1>0, <1>1, <2>2 DEF BansSeen
  <2>3. CASE placer[q].dep \in ToPlace
    <3>1. q \in Deps /\ placer[q].dep = q
      BY <1>0, <1>1 DEF CallsWellFormed, Placers
    <3>2. QED
      BY <1>1, <2>3, <3>1, ZenonT(30)
  <2>4. QED
    BY <1>3, <2>1, <2>2, <2>3
<1>10. QED
  BY <1>4, <1>5, <1>6, <1>7, <1>8, <1>9 DEF Sharing

-----------------------------------------------------------------------------
(* The theorems. *)

LEMMA DepNextIInv == DepIInv /\ [DepNext]_depVars => DepIInv'
<1> SUFFICES ASSUME DepIInv, [DepNext]_depVars PROVE DepIInv'
  OBVIOUS
<1>1. RegIInv /\ RegTypeOK /\ MgrTypeOK /\ Sharing
  BY TypeSplit DEF DepIInv, Sharing
<1>2. RegIInv' /\ RegTypeOK'
  BY <1>1, StepIsRegistryStep, NextIInv DEF RegIInv
<1>3. MgrTypeOK' /\ Sharing'
  <2>1. CASE Placement
    <3>1. MgrTypeOK'
      BY <1>1, <2>1, PlacementType DEF Sharing
    <3>2. Sharing'
      BY <1>1, <2>1, CreateSharing, ReadOccupiedSharing, CallStepSharing, RecordSharing,
         ReconcileSharing DEF Placement
    <3>3. QED
      BY <3>1, <3>2
  <2>2. CASE Deletion \/ Messages
    BY <1>1, <2>2, HandlerType, MessagesQuiet, QuietStep
  <2>3. CASE Connections
    BY <1>1, <2>3, ConnectionsType, ConnectionsSharing
  <2>4. CASE UNCHANGED depVars
    <3>1. MgrTypeOK'
      BY <1>1, <2>4 DEF depVars, mgrVars, MgrTypeOK
    <3>2. Quiet
      BY <2>4, ZenonT(30) DEF depVars, mgrVars, Quiet, Placed
    <3>3. QED
      BY <1>1, <3>1, <3>2, QuietStep, ZenonT(30)
  <2>5. QED
    BY <2>1, <2>2, <2>3, <2>4 DEF DepNext
<1>4. DepTypeOK'
  BY <1>2, <1>3 DEF DepTypeOK, MgrTypeOK
<1>5. QED
  BY <1>2, <1>3, <1>4 DEF DepIInv, Sharing

\* The inductive invariant of the deployment manager, for any agents.
THEOREM ManagerInvariant == DepSpec => []DepIInv
<1>1. QED
  BY DepInitIInv, DepNextIInv, PTL DEF DepSpec

\* selectNode's "One deployment per node": only overlapping place calls can put
\* two deployments of the table on one node.
THEOREM ManagerSharing == DepSpec => []SharingNeedsOverlap
<1>1. DepIInv => SharingNeedsOverlap
  BY DEF DepIInv
<1>2. QED
  BY <1>1, ManagerInvariant, PTL

\* A node that failed a deployment does not get it back while the ban of
\* Reconcile lasts, unless Create's own place call was still under way.
THEOREM ManagerBans == DepSpec => []BanRespected
<1>1. DepIInv => BanRespected
  BY DEF DepIInv
<1>2. QED
  BY <1>1, ManagerInvariant, PTL

\* Type correctness of manager and registry together.
THEOREM ManagerTypes == DepSpec => []DepTypeOK
<1>1. DepIInv => DepTypeOK
  BY DEF DepIInv
<1>2. QED
  BY <1>1, ManagerInvariant, PTL

-----------------------------------------------------------------------------
(* The manager and its agents. *)

HIDE DeploymentsAssumption

\* What ClusterTypeOK says of the streams and the agents.
FramesOK == ChanTypeOK(UpFrame, DownFrame)

\* What the agents run, and the faults so far.
HostsOK == dep \in [Nodes -> [Deps -> DepStates]] /\ faults \in 0..MaxFaults

\* A handler at work on a message has not returned: the node it would send a
\* stop to is the one that it registered.
WorkServed == \A s \in Streams : work[s].pc # "recv" => handler[s] = "serving"

\* The inductive invariant of the manager with its agents.
ClusterIInv == DepIInv /\ WorkServed /\ FramesOK /\ HostsOK

LEMMA ClusterInitIInv == ClusterInit => ClusterIInv
<1> SUFFICES ASSUME ClusterInit PROVE ClusterIInv
  OBVIOUS
<1>1. RegIInv /\ RegTypeOK
  BY InitIInv DEF ClusterInit, RegIInv
<1>2. MgrTypeOK
  <2>1. Receiving \in Work
    BY DEF Receiving, Work
  <2>2. avoid \in [Deps -> [Nodes -> 0..AvoidFor]]
    <3>1. 0 \in 0..AvoidFor
      BY DeploymentsAssumption
    <3>2. QED
      BY <3>1 DEF ClusterInit
  <2>3. QED
    BY <2>1, <2>2, CallType DEF ClusterInit, MgrTypeOK
<1>3. \A p \in Placers : placer[p] = IdlePlacer
  BY DEF ClusterInit
<1>4. IdlePlacer.pc = "idle"
  BY DEF IdlePlacer, Call
<1>5. /\ CallsWellFormed /\ FlightsOverlap /\ OccupiedSeen
      /\ SharingNeedsOverlap /\ BanRespected /\ BansSeen
  <2>1. \A d \in Deps : ~Placed(d)
    BY DEF ClusterInit, Placed
  <2>2. table = Deps
    BY DEF ClusterInit
  <2>3. QED
    BY <1>3, <1>4, <2>1, <2>2
       DEF CallsWellFormed, FlightsOverlap, OccupiedSeen, SharingNeedsOverlap,
           BanRespected, BansSeen, InFlight, On
<1>6. FramesOK
  BY ChanInitOK DEF ClusterInit, FramesOK
<1>7. HostsOK
  BY ClusterAssumption DEF ClusterInit, HostsOK, DepStates
<1>8. WorkServed
  BY DEF ClusterInit, WorkServed, Receiving
<1>9. QED
  BY <1>1, <1>2, <1>5, <1>6, <1>7, <1>8, TypeSplit DEF ClusterIInv, DepIInv

-----------------------------------------------------------------------------
(* Every step is a step of the manager, or none that it sees. *)

\* The frame a handler reads next is one an agent can send.
LEMMA HeadFrame ==
  ASSUME FramesOK, NEW s \in Streams, Arrived(s)
  PROVE  /\ Head(up[s]) \in UpFrame
         /\ Head(up[s]).kind = "beat" => Head(up[s]).active \in SUBSET Deps
         /\ Head(up[s]).kind # "beat" =>
              Head(up[s]).dep \in Deps /\ Head(up[s]).state \in States
<1>1. up[s] \in Seq(UpFrame) /\ up[s] # <<>>
  BY DEF FramesOK, ChanTypeOK, Arrived
<1>2. Head(up[s]) \in UpFrame
  BY <1>1
<1>3. QED
  BY <1>2 DEF UpFrame

LEMMA ReceivesIsManagerStep ==
  ASSUME FramesOK, NEW s \in Streams, Receives(s)
  PROVE  Messages
<1> DEFINE f == Head(up[s])
<1>1. Arrived(s)
  BY DEF Receives
<1>2. CASE f.kind = "beat"
  <2>1. RecvHeartbeat(s, FALSE, f.active) /\ f.active \in Actives /\ FALSE \in Addrs
    BY <1>1, <1>2, HeadFrame, ClusterAssumption, ZenonT(30) DEF Receives
  <2>2. QED
    BY <2>1, ZenonT(30) DEF Messages
<1>3. CASE f.kind # "beat"
  <2>1. OnUpdate(s, f.dep, f.state) /\ f.dep \in Deps /\ f.state \in Reports
    BY <1>1, <1>3, HeadFrame, ClusterAssumption DEF Receives
  <2>2. QED
    BY <2>1 DEF Messages
<1>4. QED
  BY <1>2, <1>3

LEMMA CoordinatorIsManagerStep ==
  ASSUME FramesOK, MgrTypeOK, Coordinator
  PROVE  DepNext
<1>1. CASE Thinks
  BY <1>1 DEF Thinks, DepNext, Deletion, Placement, Connections
<1>2. ASSUME NEW p \in Placers, Places(p) PROVE DepNext
  BY <1>2 DEF Places, DepNext, Placement
<1>3. ASSUME NEW d \in Deps, StopsDeleted(d) PROVE DepNext
  BY <1>3 DEF StopsDeleted, DepNext, Deletion
<1>4. ASSUME NEW s \in Streams, Handler(s) PROVE DepNext
  <2>1. CASE AckOut(s)
    BY <2>1 DEF AckOut, DepNext, Connections
  <2>2. CASE Receives(s)
    BY <2>2, ReceivesIsManagerStep DEF DepNext
  <2>3. CASE Applies(s)
    BY <2>3 DEF Applies, DepNext, Messages
  <2>4. CASE StopsOrphan(s)
    <3>1. work[s].stops \subseteq Deps
      BY DEF MgrTypeOK, Work
    <3>2. PICK d \in Deps, ok \in BOOLEAN : StopOrphan(s, d, ok)
      BY <2>4, <3>1 DEF StopsOrphan
    <3>3. QED
      BY <3>2 DEF DepNext, Messages
  <2>5. CASE HandlerReturns(s)
    BY <2>5 DEF HandlerReturns, DepNext, Connections
  <2>6. QED
    BY <1>4, <2>1, <2>2, <2>3, <2>4, <2>5 DEF Handler
<1>5. QED
  BY <1>1, <1>2, <1>3, <1>4 DEF Coordinator

\* An agent's restart breaks the transport of its stream, if that works.
LEMMA RestartIsManagerStep ==
  ASSUME RegTypeOK, FramesOK, NEW n \in Nodes, AgentRestart(n)
  PROVE  [DepNext]_depVars
<1>0. UNCHANGED mgrVars /\ AgentDies(n) /\ session[n] \in Streams \cup {None}
  BY DEF AgentRestart, FramesOK, ChanTypeOK
<1>1. CASE session[n] = None
  BY <1>0, <1>1 DEF AgentDies, nodeVars, depVars, regVars
<1>2. CASE session[n] # None /\ link[session[n]]
  <2>1. LinkBreaks(session[n]) /\ session[n] \in Streams
    BY <1>0, <1>2 DEF AgentDies, LinkBreaks
  <2>2. QED
    BY <1>0, <2>1 DEF LinkFailure, DepNext, Connections
<1>3. CASE session[n] # None /\ ~link[session[n]]
  <2>1. link[session[n]] = FALSE /\ link \in [Streams -> BOOLEAN]
    BY <1>0, <1>3 DEF RegTypeOK
  <2>2. link' = link
    BY <1>0, <1>3, <2>1, ZenonT(30) DEF AgentDies
  <2>3. QED
    BY <1>0, <2>2 DEF AgentDies, nodeVars, depVars, regVars
<1>4. QED
  BY <1>1, <1>2, <1>3

LEMMA StepIsManagerStep ==
  ASSUME RegTypeOK, MgrTypeOK, FramesOK, [ClusterNext]_cluVars
  PROVE  [DepNext]_depVars
<1>1. CASE Coordinator
  BY <1>1, CoordinatorIsManagerStep
<1>2. ASSUME NEW n \in Nodes, Joins(n) PROVE DepNext
  <2> DEFINE s == CHOOSE t \in FreeSlots : TRUE
  <2>1. s \in FreeSlots
    BY <1>2 DEF Joins
  <2>2. s \in Streams /\ \A p \in Placers : placer[p].via # s
    BY <2>1 DEF FreeSlots
  <2>3. Register(s, n) /\ UNCHANGED mgrVars
    BY <1>2 DEF Joins, Dial
  <2>4. Connect(s, n)
    BY <2>2, <2>3 DEF Connect
  <2>5. QED
    BY <2>2, <2>4 DEF DepNext, Connections
<1>3. ASSUME NEW n \in Nodes, AwaitAck(n) \/ Leaves(n) \/ Obeys(n) \/ Beat(n)
      PROVE  UNCHANGED depVars
  BY <1>3 DEF AwaitAck, FirstFrame, AwaitBroken, Leaves, SessionEnds, Obeys, Beat, depVars
<1>4. ASSUME NEW n \in Nodes, NEW d \in Deps,
             Pulls(n, d) \/ Loads(n, d) \/ Fails(n, d) \/ Stopped(n, d) \/ Removes(n, d)
      PROVE  UNCHANGED depVars
  BY <1>4 DEF Pulls, Loads, Fails, Stopped, Moves, Removes, depVars
<1>5. CASE Clock
  BY <1>5 DEF Clock, DepNext, Connections
<1>6. ASSUME NEW s \in Streams, LinkFault(s) PROVE DepNext
  BY <1>6 DEF LinkFault, DepNext, Connections
<1>7. CASE CoordinatorFault
  BY <1>7 DEF CoordinatorFault, DepNext, Connections
<1>8. CASE UNCHANGED cluVars
  BY <1>8 DEF cluVars
<1>9. QED
  BY <1>1, <1>2, <1>3, <1>4, <1>5, <1>6, <1>7, <1>8, RestartIsManagerStep
     DEF ClusterNext, Agents, RunOnce, Faults
-----------------------------------------------------------------------------
(* What goes out on the streams. *)

LEMMA FramesSplit ==
  /\ FramesOK <=> AgentsOK /\ UpOK(UpFrame) /\ DownOK(DownFrame)
  /\ FramesOK' <=> AgentsOK' /\ UpOK(UpFrame)' /\ DownOK(DownFrame)'
BY ChanSplit DEF FramesOK

\* A stop goes out on the handle on record, which is a stream.
LEMMA PutStopOK ==
  ASSUME FramesOK, RegTypeOK, NEW n \in Nodes, NEW d \in Deps, NEW ok \in BOOLEAN,
         CanStop(n, ok), PutStop(n, d, ok)
  PROVE  FramesOK'
<1>0. AgentsOK /\ UpOK(UpFrame) /\ DownOK(DownFrame)
  BY FramesSplit
<1>1. AgentsOK' /\ UpOK(UpFrame)'
  BY <1>0 DEF PutStop, AgentsOK, UpOK
<1>2. DownOK(DownFrame)'
  <2>1. CASE ok
    <3>1. send[n] \in Streams /\ CanSend(send[n], TRUE)
      BY <2>1, ZenonT(30) DEF CanStop, RegTypeOK
    <3> DEFINE f == [kind |-> "stop", dep |-> d]
    <3>2. f \in DownFrame
      BY DEF DownFrame
    <3>3. Put(send[n], f)
      BY <2>1 DEF PutStop
    <3> HIDE DEF f
    <3>4. QED
      BY <1>0, <3>1, <3>2, <3>3, PutOK, ZenonT(30)
  <2>2. CASE ~ok
    BY <1>0, <2>2 DEF PutStop, DownOK
  <2>3. QED
    BY <2>1, <2>2
<1>3. QED
  BY <1>1, <1>2, FramesSplit

-----------------------------------------------------------------------------
(* Types, one step per action. *)

\* A step that leaves streams and agents alone.
LEMMA QuietFrames ==
  ASSUME FramesOK, UNCHANGED chanVars
  PROVE  FramesOK'
BY QuietChannels DEF FramesOK

LEMMA QuietHosts ==
  ASSUME HostsOK, UNCHANGED hostVars
  PROVE  HostsOK'
BY ZenonT(30) DEF HostsOK, hostVars

LEMMA PlacesType ==
  ASSUME FramesOK, HostsOK, MgrTypeOK, CallsWellFormed, NEW p \in Placers, Places(p)
  PROVE  FramesOK' /\ HostsOK'
<1>0. AgentsOK /\ UpOK(UpFrame) /\ DownOK(DownFrame)
  BY FramesSplit
<1>1. CASE UNCHANGED <<chanVars, hostVars>>
  BY <1>1, QuietFrames, QuietHosts, ZenonT(30)
<1>2. ASSUME placer[p].pc = "send",
             NEW ok \in BOOLEAN,
             CanSend(placer[p].via, ok),
             IF ok THEN Put(placer[p].via, [kind |-> "start", dep |-> placer[p].dep])
                   ELSE UNCHANGED down,
             UNCHANGED <<agent, session, up, hostVars>>
      PROVE  FramesOK' /\ HostsOK'
  <2>1. AgentsOK' /\ UpOK(UpFrame)'
    BY <1>0, <1>2 DEF AgentsOK, UpOK
  <2>2. DownOK(DownFrame)'
    <3>1. CASE ok
      <4> DEFINE f == [kind |-> "start", dep |-> placer[p].dep]
                 s == placer[p].via
      <4>1. s \in Streams /\ placer[p].dep \in Deps
        BY <1>2 DEF CallsWellFormed
      <4>2. f \in DownFrame
        BY <4>1 DEF DownFrame
      <4>3. CanSend(s, TRUE) /\ Put(s, f)
        BY <1>2, <3>1, ZenonT(30)
      <4> HIDE DEF f, s
      <4>4. QED
        BY <1>0, <4>1, <4>2, <4>3, PutOK, ZenonT(30)
    <3>2. CASE ~ok
      BY <1>0, <1>2, <3>2 DEF DownOK
    <3>3. QED
      BY <3>1, <3>2
  <2>3. QED
    BY <1>2, <2>1, <2>2, FramesSplit, QuietHosts, ZenonT(30)
<1>3. QED
  BY <1>1, <1>2 DEF Places

LEMMA HandlerFramesType ==
  ASSUME FramesOK, HostsOK, RegIInv, MgrTypeOK, WorkServed, NEW s \in Streams, Handler(s)
  PROVE  FramesOK' /\ HostsOK'
<1>0. AgentsOK /\ UpOK(UpFrame) /\ DownOK(DownFrame) /\ RegTypeOK
  BY FramesSplit DEF RegIInv
<1>1. CASE AckOut(s)
  <2> DEFINE f == [kind |-> "ack"]
  <2>1. f \in DownFrame /\ CanSend(s, TRUE) /\ Put(s, f)
    BY <1>1, ZenonT(30) DEF DownFrame, AckOut
  <2> HIDE DEF f
  <2>2. DownOK(DownFrame)'
    BY <1>0, <2>1, PutOK, ZenonT(30)
  <2>3. AgentsOK' /\ UpOK(UpFrame)' /\ HostsOK'
    BY <1>0, <1>1, QuietHosts DEF AckOut, AgentsOK, UpOK
  <2>4. QED
    BY <2>2, <2>3, FramesSplit
<1>2. CASE Receives(s)
  <2>1. UpOK(UpFrame)'
    BY <1>0, <1>2, TakeOK, ZenonT(30) DEF Receives
  <2>2. AgentsOK' /\ DownOK(DownFrame)' /\ HostsOK'
    BY <1>0, <1>2, QuietHosts DEF Receives, AgentsOK, DownOK
  <2>3. QED
    BY <2>1, <2>2, FramesSplit
<1>3. CASE Applies(s)
  BY <1>3, QuietFrames, QuietHosts, ZenonT(30) DEF Applies
<1>4. CASE StopsOrphan(s)
  <2>1. work[s].stops \subseteq Deps
    BY ZenonT(30) DEF MgrTypeOK, Work
  <2>2. PICK d \in Deps, ok \in BOOLEAN :
          CanStop(owner[s], ok) /\ StopOrphan(s, d, ok) /\ PutStop(owner[s], d, ok)
    <3>1. PICK d \in work[s].stops, ok \in BOOLEAN :
            CanStop(owner[s], ok) /\ StopOrphan(s, d, ok) /\ PutStop(owner[s], d, ok)
      BY <1>4 DEF StopsOrphan
    <3>2. d \in Deps
      BY <2>1, ZenonT(30)
    <3>3. QED
      BY <3>1, <3>2, ZenonT(30)
  <2>3. owner[s] \in Nodes
    BY <1>0, <2>2, ZenonT(30) DEF StopOrphan, WorkServed, RegIInv, RunningRegistered, RegTypeOK
  <2>4. QED
    BY <1>0, <2>2, <2>3, PutStopOK, QuietHosts, ZenonT(30) DEF PutStop
<1>5. CASE HandlerReturns(s)
  <2>1. UpOK(UpFrame)'
    BY <1>0, <1>5, UnreadOK, ZenonT(30) DEF HandlerReturns, Unread
  <2>2. AgentsOK' /\ DownOK(DownFrame)' /\ HostsOK'
    BY <1>0, <1>5, QuietHosts DEF HandlerReturns, AgentsOK, DownOK
  <2>3. QED
    BY <2>1, <2>2, FramesSplit
<1>6. QED
  BY <1>1, <1>2, <1>3, <1>4, <1>5 DEF Handler

\* The manager's handlers keep WorkServed whatever the agents say.
LEMMA WorkServedKept ==
  ASSUME RegTypeOK, MgrTypeOK, WorkServed, [DepNext]_depVars
  PROVE  WorkServed'
<1>0. work \in [Streams -> Work] /\ handler \in [Streams -> {"none", "acking", "serving"}]
  BY DEF MgrTypeOK, RegTypeOK
<1>1. CASE work' = work /\ handler' = handler
  BY <1>1 DEF WorkServed
<1>2. CASE Placement \/ Deletion
  BY <1>1, <1>2, ZenonT(30)
  DEF Placement, Create, ReadOccupied, ReadBans, SelectNode, NoNode, SendStart,
                    Record, Reconcile, Deletion, Delete, DeleteStop, regVars
<1>3. ASSUME NEW s \in Streams, handler' = handler, handler[s] = "serving",
             NEW w, work' = [work EXCEPT ![s] = w]
      PROVE  WorkServed'
  BY <1>0, <1>3 DEF WorkServed
<1>4. CASE Messages
  <2>1. ASSUME NEW s \in Streams, NEW a \in Addrs, NEW active \in Actives,
               RecvHeartbeat(s, a, active)
        PROVE  WorkServed'
    BY <1>3, <2>1, Zenon DEF RecvHeartbeat, Heartbeat, streamVars
  <2>2. ASSUME NEW s \in Streams, OnHeartbeat(s) PROVE WorkServed'
    <3>1. handler' = handler /\ handler[s] = "serving"
      BY <2>2 DEF OnHeartbeat, regVars, WorkServed
    <3>2. QED
      BY <1>3, <2>2, <3>1, Zenon DEF OnHeartbeat
  <2>3. ASSUME NEW s \in Streams, NEW d \in Deps, NEW ok \in BOOLEAN, StopOrphan(s, d, ok)
        PROVE  WorkServed'
    <3>1. handler' = handler /\ handler[s] = "serving"
      BY <2>3 DEF StopOrphan, regVars, WorkServed
    <3>2. QED
      BY <1>3, <2>3, <3>1, ZenonT(30) DEF StopOrphan
  <2>4. ASSUME NEW s \in Streams, NEW d \in Deps, Unplace(s, d) PROVE WorkServed'
    <3>1. handler' = handler /\ handler[s] = "serving"
      BY <2>4 DEF Unplace, regVars, WorkServed
    <3>2. QED
      BY <1>3, <2>4, <3>1, ZenonT(30) DEF Unplace
  <2>5. ASSUME NEW s \in Streams, NEW d \in Deps, NEW state \in Reports, OnUpdate(s, d, state)
        PROVE  WorkServed'
    <3>1. handler' = handler /\ handler[s] = "serving"
      BY <2>5, ZenonT(30) DEF OnUpdate, regVars
    <3> DEFINE w == Applying({d}, {})
    <3>2. work' = work \/ work' = [work EXCEPT ![s] = w]
      BY <2>5 DEF OnUpdate
    <3> HIDE DEF w
    <3>3. CASE work' = work
      BY <1>1, <3>1, <3>3
    <3>4. CASE work' = [work EXCEPT ![s] = w]
      BY <1>3, <3>1, <3>4, ZenonT(30)
    <3>5. QED
      BY <3>2, <3>3, <3>4, ZenonT(30)
  <2>6. QED
    BY <1>4, <2>1, <2>2, <2>3, <2>4, <2>5 DEF Messages
<1>5. ASSUME NEW s \in Streams, work' = work, work[s].pc = "recv" \/ handler[s] # "serving",
             NEW h, handler' = [handler EXCEPT ![s] = h]
      PROVE  WorkServed'
  BY <1>0, <1>5 DEF WorkServed
<1>6. CASE Connections
  <2>1. ASSUME NEW s \in Streams, NEW n \in Nodes, Connect(s, n) PROVE WorkServed'
    <3>1. handler' = [handler EXCEPT ![s] = "acking"] /\ handler[s] = "none" /\ work' = work
      BY <2>1 DEF Connect, Register, mgrVars
    <3>2. QED
      BY <1>5, <3>1, ZenonT(30)
  <2>2. ASSUME NEW s \in Streams, Ack(s) PROVE WorkServed'
    BY <1>5, <2>2, ZenonT(30) DEF Ack, SendAck, mgrVars
  <2>3. ASSUME NEW s \in Streams, AckFailure(s) \/ Disconnect(s) PROVE WorkServed'
    <3>1. work' = work /\ (work[s].pc = "recv" \/ handler[s] # "serving")
      BY <2>3 DEF AckFailure, AckFails, Disconnect, mgrVars
    <3>2. handler' = [handler EXCEPT ![s] = "none"]
      BY <2>3, ZenonT(30) DEF AckFailure, AckFails, Disconnect, StreamEnds, Return
    <3>3. QED
      BY <1>5, <3>1, <3>2, ZenonT(30)
  <2>4. ASSUME NEW s \in Streams, Reregister(s) \/ LinkFailure(s) PROVE WorkServed'
    BY <1>1, <2>4, ZenonT(30)
    DEF Reregister, ReRegister, LinkFailure, LinkBreaks, streamVars, mgrVars
  <2>5. CASE ReaperPass \/ TimePasses
    BY <1>1, <2>5, ZenonT(30) DEF ReaperPass, Reap, TimePasses, Tick, streamVars, mgrVars
  <2>6. CASE CoordinatorRestart
    BY <2>6 DEF CoordinatorRestart, Receiving, WorkServed
  <2>7. QED
    BY <1>6, <2>1, <2>2, <2>3, <2>4, <2>5, <2>6 DEF Connections
<1>7. CASE UNCHANGED depVars
  BY <1>1, <1>7 DEF depVars, regVars, mgrVars
<1>8. QED
  BY <1>2, <1>4, <1>6, <1>7 DEF DepNext

\* What becomes of a deployment on its agent.
LEMMA MovesType ==
  ASSUME FramesOK, HostsOK, NEW n \in Nodes, NEW d \in Deps,
         Pulls(n, d) \/ Loads(n, d) \/ Fails(n, d) \/ Stopped(n, d)
  PROVE  FramesOK' /\ HostsOK'
<1>0. AgentsOK /\ UpOK(UpFrame) /\ DownOK(DownFrame)
  BY FramesSplit
<1>1. PICK from \in SUBSET DepStates, to \in DepStates, state \in States :
        Moves(n, d, from, to, state)
  BY DEF Pulls, Loads, Fails, Stopped, DepStates, States
<1> DEFINE f == [kind |-> "update", dep |-> d, state |-> state]
<1>2. f \in UpFrame /\ Emit(n, f)
  BY <1>1 DEF UpFrame, Moves
<1> HIDE DEF f
<1>3. UpOK(UpFrame)'
  BY <1>0, <1>2, EmitOK, ZenonT(30)
<1>4. AgentsOK' /\ DownOK(DownFrame)'
  BY <1>0, <1>1 DEF Moves, AgentsOK, DownOK
<1>5. HostsOK'
  BY <1>1 DEF Moves, HostsOK
<1>6. QED
  BY <1>3, <1>4, <1>5, FramesSplit

LEMMA OutsideDomain ==
  ASSUME NEW D, NEW R, NEW g \in [D -> R], NEW x, x \notin D, NEW v
  PROVE  [g EXCEPT ![x] = v] \in [D -> R]
BY ZenonT(30)

LEMMA AgentsType ==
  ASSUME FramesOK, HostsOK, Agents
  PROVE  FramesOK' /\ HostsOK'
<1>0. AgentsOK /\ UpOK(UpFrame) /\ DownOK(DownFrame)
  BY FramesSplit
<1>1. ASSUME NEW n \in Nodes, Joins(n) PROVE FramesOK' /\ HostsOK'
  <2> DEFINE s == CHOOSE t \in FreeSlots : TRUE
  <2>1. s \in Streams /\ Dial(s, n) /\ UNCHANGED hostVars
    BY <1>1 DEF Joins, FreeSlots
  <2> HIDE DEF s
  <2>2. QED
    BY <2>1, AgentStepsOK, QuietHosts DEF FramesOK
<1>2. ASSUME NEW n \in Nodes, AwaitAck(n) PROVE FramesOK' /\ HostsOK'
  BY <1>2, AgentStepsOK, QuietHosts DEF AwaitAck, FramesOK
<1>3. ASSUME NEW n \in Nodes, Leaves(n) PROVE FramesOK' /\ HostsOK'
  BY <1>3, AgentStepsOK, QuietHosts DEF Leaves, FramesOK
<1>4. ASSUME NEW n \in Nodes, Obeys(n) PROVE FramesOK' /\ HostsOK'
  <2>1. AgentsOK' /\ UpOK(UpFrame)'
    BY <1>0, <1>4 DEF Obeys, AgentsOK, UpOK
  <2>2. DownOK(DownFrame)'
    BY <1>0, <1>4, ConsumeOK DEF Obeys
  <2>3. \A state \in DepStates : \A kind : Obeyed(state, kind) \in DepStates
    BY DEF Obeyed, DepStates
  <2>4. HostsOK'
    <3> DEFINE d == NextFrame(n).dep
               k == NextFrame(n).kind
    <3>1. /\ dep' = [dep EXCEPT ![n] = [dep[n] EXCEPT ![d] = Obeyed(dep[n][d], k)]]
          /\ faults' = faults
          /\ dep \in [Nodes -> [Deps -> DepStates]]
      BY <1>4 DEF Obeys, HostsOK
    <3> HIDE DEF d, k
    <3>2. [dep[n] EXCEPT ![d] = Obeyed(dep[n][d], k)] \in [Deps -> DepStates]
      <4>1. CASE d \in Deps
        BY <2>3, <3>1, <4>1, ZenonT(30)
      <4>2. CASE d \notin Deps
        <5>1. dep[n] \in [Deps -> DepStates]
          BY <3>1
        <5>2. QED
          BY <4>2, <5>1, OutsideDomain
      <4>3. QED
        BY <4>1, <4>2
    <3>3. QED
      BY <3>1, <3>2 DEF HostsOK
  <2>5. QED
    BY <2>1, <2>2, <2>4, FramesSplit
<1>5. ASSUME NEW n \in Nodes, Beat(n) PROVE FramesOK' /\ HostsOK'
  <2> DEFINE f == [kind |-> "beat", active |-> {d \in Deps : Has(n, d)}]
  <2>1. f \in UpFrame /\ EmitBeat(n, f)
    BY <1>5 DEF UpFrame, Beat
  <2> HIDE DEF f
  <2>2. UpOK(UpFrame)'
    BY <1>0, <2>1, EmitOK, ZenonT(30)
  <2>3. AgentsOK' /\ DownOK(DownFrame)' /\ HostsOK'
    BY <1>0, <1>5, QuietHosts DEF Beat, AgentsOK, DownOK
  <2>4. QED
    BY <2>2, <2>3, FramesSplit, ZenonT(30)
<1>6. ASSUME NEW n \in Nodes, NEW d \in Deps, Removes(n, d) PROVE FramesOK' /\ HostsOK'
  BY <1>6, QuietFrames DEF Removes, HostsOK, DepStates
<1>7. QED
  BY <1>1, <1>2, <1>3, <1>4, <1>5, <1>6, MovesType DEF Agents, RunOnce

LEMMA FaultsType ==
  ASSUME FramesOK, HostsOK, Faults
  PROVE  FramesOK' /\ HostsOK'
<1>0. AgentsOK /\ UpOK(UpFrame) /\ DownOK(DownFrame)
  BY FramesSplit
<1>1. ASSUME Fault PROVE faults' \in 0..MaxFaults
  BY <1>1, ClusterAssumption DEF Fault, HostsOK
<1>2. ASSUME NEW s \in Streams, LinkFault(s) PROVE FramesOK' /\ HostsOK'
  BY <1>1, <1>2, QuietFrames, ZenonT(30) DEF LinkFault, HostsOK
<1>3. ASSUME NEW n \in Nodes, AgentRestart(n) PROVE FramesOK' /\ HostsOK'
  <2>1. FramesOK'
    BY <1>3, AgentStepsOK DEF AgentRestart, FramesOK
  <2>2. HostsOK'
    BY <1>1, <1>3 DEF AgentRestart, HostsOK, DepStates
  <2>3. QED
    BY <2>1, <2>2
<1>4. CASE CoordinatorFault
  <2>1. AgentsOK' /\ DownOK(DownFrame)' /\ HostsOK'
    BY <1>0, <1>1, <1>4 DEF CoordinatorFault, AgentsOK, DownOK, HostsOK
  <2>2. <<>> \in Seq(UpFrame) /\ Len(<<>>) = 0
    OBVIOUS
  <2>3. UpOK(UpFrame)'
    BY <1>4, <2>2, ChannelsAssumption DEF CoordinatorFault, UpOK
  <2>4. QED
    BY <2>1, <2>3, FramesSplit, ZenonT(30)
<1>5. QED
  BY <1>2, <1>3, <1>4 DEF Faults

LEMMA ClusterNextIInv == ClusterIInv /\ [ClusterNext]_cluVars => ClusterIInv'
<1> SUFFICES ASSUME ClusterIInv, [ClusterNext]_cluVars PROVE ClusterIInv'
  OBVIOUS
<1>1. /\ DepIInv /\ RegIInv /\ RegTypeOK /\ MgrTypeOK /\ CallsWellFormed
      /\ WorkServed /\ FramesOK /\ HostsOK
  BY TypeSplit DEF ClusterIInv, DepIInv
<1>2. [DepNext]_depVars
  BY <1>1, StepIsManagerStep
<1>3. DepIInv' /\ WorkServed'
  BY <1>1, <1>2, DepNextIInv, WorkServedKept, ZenonT(30)
<1>4. FramesOK' /\ HostsOK'
  <2>1. CASE Thinks \/ Clock
    BY <1>1, <2>1, QuietFrames, QuietHosts DEF Thinks, Clock
  <2>2. ASSUME NEW p \in Placers, Places(p) PROVE FramesOK' /\ HostsOK'
    BY <1>1, <2>2, PlacesType, ZenonT(30)
  <2>3. ASSUME NEW d \in Deps, StopsDeleted(d) PROVE FramesOK' /\ HostsOK'
    <3>1. deleting[d] \in Nodes
      BY <1>1, <2>3 DEF StopsDeleted, MgrTypeOK
    <3>2. PICK ok \in BOOLEAN : CanStop(deleting[d], ok) /\ PutStop(deleting[d], d, ok)
      BY <2>3 DEF StopsDeleted
    <3>3. QED
      BY <1>1, <3>1, <3>2, PutStopOK, QuietHosts, ZenonT(30) DEF PutStop
  <2>4. ASSUME NEW s \in Streams, Handler(s) PROVE FramesOK' /\ HostsOK'
    BY <1>1, <2>4, HandlerFramesType
  <2>5. CASE UNCHANGED cluVars
    BY <1>1, <2>5, QuietFrames, QuietHosts DEF cluVars
  <2>6. QED
    BY <1>1, <2>1, <2>2, <2>3, <2>4, <2>5, AgentsType, FaultsType, ZenonT(30)
    DEF ClusterNext, Coordinator
<1>5. QED
  BY <1>3, <1>4 DEF ClusterIInv

\* The inductive invariant of manager, streams and agents.
THEOREM ClusterInvariant == ClusterSpec => []ClusterIInv
<1>1. QED
  BY ClusterInitIInv, ClusterNextIInv, PTL DEF ClusterSpec

\* Every step of the coordinator among its agents is one of the manager, so
\* nothing an agent does, and no fault, makes it act otherwise than
\* Deployments.tla says.
THEOREM ClusterStepsAreManagerSteps == ClusterSpec => [][DepNext]_depVars
<1>1. ClusterIInv /\ [ClusterNext]_cluVars => [DepNext]_depVars
  BY StepIsManagerStep, TypeSplit DEF ClusterIInv, DepIInv, RegIInv
<1>2. QED
  BY <1>1, ClusterInvariant, PTL DEF ClusterSpec

\* Queues and streams hold frames of the protocol, within their capacity, and
\* each agent's deployments have a state, whatever is lost or restarted.
THEOREM ClusterTypes == ClusterSpec => []ClusterTypeOK
<1>1. ClusterIInv => ClusterTypeOK
  BY DEF ClusterIInv, DepIInv, FramesOK, HostsOK, ClusterTypeOK
<1>2. QED
  BY <1>1, ClusterInvariant, PTL

\* Bans (Reconcile's avoid entries) are respected among real agents too.
THEOREM ClusterBans == ClusterSpec => []BanRespected
<1>1. ClusterIInv => BanRespected
  BY DEF ClusterIInv, DepIInv
<1>2. QED
  BY <1>1, ClusterInvariant, PTL

\* selectNode's "One deployment per node", for any number of agents.
THEOREM ClusterSharing == ClusterSpec => []SharingNeedsOverlap
<1>1. ClusterIInv => SharingNeedsOverlap
  BY DEF ClusterIInv, DepIInv
<1>2. QED
  BY <1>1, ClusterInvariant, PTL
=============================================================================
