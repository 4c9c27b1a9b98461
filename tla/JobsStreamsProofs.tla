------------------------- MODULE JobsStreamsProofs --------------------------
(***************************************************************************)
(* Proofs about the job scheduler and its agents, for any number of        *)
(* agents, streams and jobs, any capacity of the streams and any number of *)
(* faults.  Here: every step is a step of the registry, the types, what a  *)
(* step leaves of the queues, and who is at the ends of a stream.          *)
(***************************************************************************)
EXTENDS Jobs, ChannelsProofs

(* Every step is a step of the registry, or none that it sees. *)

\* An agent's restart breaks the transport of its stream, if that works.
LEMMA RestartIsRegistryStep ==
  ASSUME RegTypeOK, AgentsOK, NEW n \in Nodes, AgentDies(n)
  PROVE  [RegNext]_regVars
<1>0. session[n] \in Streams \cup {None}
  BY DEF AgentsOK
<1>1. CASE session[n] = None
  BY <1>1 DEF AgentDies, nodeVars, regVars
<1>2. CASE session[n] # None /\ link[session[n]]
  <2>1. LinkBreaks(session[n]) /\ session[n] \in Streams
    BY <1>0, <1>2 DEF AgentDies, LinkBreaks
  <2>2. QED
    BY <2>1 DEF RegNext
<1>3. CASE session[n] # None /\ ~link[session[n]]
  <2>1. link[session[n]] = FALSE /\ link \in [Streams -> BOOLEAN]
    BY <1>0, <1>3 DEF RegTypeOK
  <2>2. link' = link
    BY <1>3, <2>1, ZenonT(30) DEF AgentDies
  <2>3. QED
    BY <2>2 DEF AgentDies, nodeVars, regVars
<1>4. QED
  BY <1>1, <1>2, <1>3

\* The slot a new stream gets.
LEMMA ConnectSlot ==
  ASSUME NEW n \in Nodes, Connect(n)
  PROVE  \E s \in Streams :
           /\ Free(s) /\ (\A j \in JobIds : via[j] # s) /\ Dial(s, n)
           /\ UNCHANGED <<schedVars, hostVars, faults>>
<1> DEFINE s == CHOOSE t \in FreeSlots : TRUE
<1>1. s \in FreeSlots
  BY DEF Connect
<1>2. Dial(s, n) /\ UNCHANGED <<schedVars, hostVars, faults>>
  BY DEF Connect
<1> HIDE DEF s
<1>3. QED
  BY <1>1, <1>2 DEF FreeSlots

\* Every step of the job system is a step of the registry, or leaves it alone.
LEMMA JobStepIsRegistryStep ==
  ASSUME RegTypeOK, AgentsOK, [JobNext]_jobVars
  PROVE  [RegNext]_regVars
<1>1. CASE Scheduling
  BY <1>1 DEF Scheduling, RunJob, SendJob
<1>2. ASSUME NEW s \in Streams, Handler(s) PROVE [RegNext]_regVars
  <2>1. CASE AckOut(s)
    BY <2>1 DEF AckOut, RegNext
  <2>2. CASE RecvBeat(s)
    <3>1. Heartbeat(s, FALSE) /\ FALSE \in Addrs
      BY <2>2, JobsAssumption, ZenonT(30) DEF RecvBeat
    <3>2. QED
      BY ZenonT(30), <3>1 DEF RegNext
  <2>3. CASE RecvUpdate(s)
    BY <2>3 DEF RecvUpdate
  <2>4. CASE HandlerReturns(s)
    BY <2>4 DEF HandlerReturns, RegNext
  <2>5. QED
    BY <1>2, <2>1, <2>2, <2>3, <2>4 DEF Handler
<1>3. ASSUME NEW n \in Nodes, Connect(n) PROVE [RegNext]_regVars
  <2>1. PICK s \in Streams : Dial(s, n)
    BY <1>3, ConnectSlot, ZenonT(30)
  <2>2. QED
    BY <2>1 DEF Dial, RegNext
<1>4. ASSUME NEW n \in Nodes, AwaitAck(n) \/ Reconnect(n) \/ StartJob(n) \/ Beat(n)
      PROVE  UNCHANGED regVars
  BY <1>4 DEF AwaitAck, FirstFrame, AwaitBroken, Reconnect, SessionEnds, StartJob, Beat
<1>5. ASSUME NEW n \in Nodes, NEW j \in JobIds, NEW state,
             Report(n, j, state) \/ Finish(n, j, state) \/ RemoveJob(n, j)
      PROVE  UNCHANGED regVars
  BY <1>5 DEF Report, Finish, RemoveJob
<1>6. CASE Agents
  BY <1>3, <1>4, <1>5, <1>6 DEF Agents, RunOnce
<1>7. CASE Faults
  BY <1>7, RestartIsRegistryStep DEF Faults, LinkFailure, AgentRestart, CoordinatorRestart, RegNext
<1>8. CASE ReaperPass \/ TimePasses
  BY <1>8 DEF ReaperPass, TimePasses, RegNext
<1>9. CASE UNCHANGED jobVars
  BY <1>9 DEF jobVars
<1>10. QED
  BY <1>1, <1>2, <1>6, <1>7, <1>8, <1>9 DEF JobNext, Handling

-----------------------------------------------------------------------------
(* Types. *)

FramesOK == ChanTypeOK(UpFrame, DownFrame)

\* What JobTypeOK says of the scheduler.
SchedOK ==
  /\ minted \subseteq JobIds
  /\ job \in [JobIds -> Job \cup {None}]
  /\ via \in [JobIds -> Streams \cup {None}]

\* What JobTypeOK says of the agents' hosts.
HostsOK ==
  /\ runtime \in [Nodes -> BOOLEAN]
  /\ run \in [Nodes -> [JobIds -> {"none", "live", "over"}]]
  /\ faults \in 0..MaxFaults

\* The parts of FramesOK.
LEMMA FramesSplit ==
  /\ FramesOK <=> AgentsOK /\ UpOK(UpFrame) /\ DownOK(DownFrame)
  /\ FramesOK' <=> AgentsOK' /\ UpOK(UpFrame)' /\ DownOK(DownFrame)'
BY ChanSplit DEF FramesOK

\* Types of parts that a step leaves alone.
LEMMA QuietFrames ==
  ASSUME FramesOK, UNCHANGED chanVars
  PROVE  FramesOK'
BY QuietChannels DEF FramesOK

LEMMA QuietHosts ==
  ASSUME HostsOK, UNCHANGED <<hostVars, faults>>
  PROVE  HostsOK'
BY ZenonT(30) DEF HostsOK, hostVars

LEMMA QuietSched ==
  ASSUME SchedOK, UNCHANGED schedVars
  PROVE  SchedOK'
BY ZenonT(30) DEF SchedOK, schedVars

\* The fields of an entry of the job table.
LEMMA JobFields ==
  ASSUME NEW e \in Job \cup {None}, e # None
  PROVE  e \in Job /\ e.node \in Nodes /\ e.state \in JobStates /\ e.age \in 0..Grace
BY DEF Job

\* The entries that the scheduler writes are entries.
LEMMA JobMade ==
  ASSUME NEW n \in Nodes, NEW state \in JobStates, NEW a \in 0..Grace
  PROVE  [node |-> n, state |-> state, age |-> a] \in Job
BY DEF Job

\* What a runner or an agent reports is a state of the job table, or LOG.
LEMMA ReportedStates == LiveKinds \cup Outcomes \cup {"FAILED"} \subseteq JobStates \cup {"LOG"}
BY JobsAssumption DEF JobStates

\* What a handler reads is a frame with the fields of its kind.
LEMMA HeadFrame ==
  ASSUME FramesOK, NEW s \in Streams, Arrived(s)
  PROVE  /\ Incoming(s) \in UpFrame
         /\ Incoming(s).kind = "beat" => Incoming(s).active \in SUBSET JobIds
         /\ Incoming(s).kind = "update" =>
              /\ Incoming(s).job \in JobIds
              /\ Incoming(s).state \in LiveKinds \cup Outcomes \cup {"FAILED"}
<1>1. up[s] \in Seq(UpFrame) /\ up[s] # <<>>
  BY DEF FramesOK, ChanTypeOK, Arrived
<1>2. Incoming(s) \in UpFrame
  BY <1>1 DEF Incoming
<1>3. QED
  BY <1>2 DEF UpFrame

\* What OnJobUpdate makes of an entry: the node stays, or is the sender of an
\* update for a job that is not on record.
LEMMA UpdatedEntry ==
  ASSUME SchedOK, NEW j \in JobIds, NEW n \in Nodes,
         NEW state \in LiveKinds \cup Outcomes \cup {"FAILED"}
  PROVE  /\ Updated(j, n, state) \in Job /\ Updated(j, n, state).age = 0
         /\ Updated(j, n, state).node = IF job[j] = None THEN n ELSE job[j].node
         /\ Updated(j, n, state).state =
              IF state # "LOG" THEN state
              ELSE IF job[j] = None THEN "UNSPECIFIED" ELSE job[j].state
<1> DEFINE old == IF job[j] = None THEN [node |-> n, state |-> "UNSPECIFIED", age |-> 0]
                  ELSE job[j]
<1>0. 0 \in 0..Grace
  BY JobsAssumption
<1>1. old \in Job
  <2>1. CASE job[j] = None
    BY <1>0, <2>1, JobMade DEF JobStates
  <2>2. CASE job[j] # None
    BY <2>2 DEF SchedOK
  <2>3. QED
    BY <2>1, <2>2
<1>2. /\ old.node = IF job[j] = None THEN n ELSE job[j].node
      /\ old.state = IF job[j] = None THEN "UNSPECIFIED" ELSE job[j].state
  OBVIOUS
<1>3. Updated(j, n, state) = [old EXCEPT !.state = IF state = "LOG" THEN old.state ELSE state,
                                         !.age = 0]
  BY DEF Updated
<1> HIDE DEF old
<1>4. state = "LOG" \/ state \in JobStates
  BY ReportedStates
<1>5. QED
  BY ZenonT(30), <1>0, <1>1, <1>2, <1>3, <1>4 DEF Job

\* An entry that Reconcile fails.
LEMMA FailedEntry ==
  ASSUME NEW e \in Job
  PROVE  /\ [e EXCEPT !.state = "FAILED", !.age = 0] \in Job
         /\ [e EXCEPT !.state = "FAILED", !.age = 0].node = e.node
         /\ [e EXCEPT !.state = "FAILED", !.age = 0].state = "FAILED"
         /\ [e EXCEPT !.state = "FAILED", !.age = 0].age = 0
<1>1. 0 \in 0..Grace
  BY JobsAssumption
<1>2. QED
  BY ZenonT(30), <1>1 DEF Job, JobStates

\* An entry a tick later.
LEMMA OlderEntry ==
  ASSUME NEW e \in Job
  PROVE  /\ [e EXCEPT !.age = Older(@, Grace - 1)] \in Job
         /\ [e EXCEPT !.age = Older(@, Grace - 1)].node = e.node
         /\ [e EXCEPT !.age = Older(@, Grace - 1)].state = e.state
         /\ [e EXCEPT !.age = Older(@, Grace - 1)].age <= e.age + 1
<1>1. e.age \in 0..Grace
  BY DEF Job
<1>2. Older(e.age, Grace - 1) \in 0..Grace /\ Older(e.age, Grace - 1) <= e.age + 1
  BY <1>1, JobsAssumption DEF Older
<1>3. QED
  BY <1>2 DEF Job

\* A frame a tick later.
LEMMA LateUp ==
  ASSUME NEW f \in UpFrame
  PROVE  /\ [f EXCEPT !.late = TRUE] \in UpFrame
         /\ [f EXCEPT !.late = TRUE].kind = f.kind /\ [f EXCEPT !.late = TRUE].late
         /\ f.kind = "beat" => [f EXCEPT !.late = TRUE].active = f.active
         /\ f.kind = "update" => /\ [f EXCEPT !.late = TRUE].job = f.job
                                 /\ [f EXCEPT !.late = TRUE].state = f.state
<1>1. CASE f \in [kind : {"beat"}, active : SUBSET JobIds, late : BOOLEAN]
  BY ZenonT(30), <1>1 DEF UpFrame
<1>2. CASE f \in [kind : {"update"}, job : JobIds,
                  state : LiveKinds \cup Outcomes \cup {"FAILED"}, late : BOOLEAN]
  BY ZenonT(30), <1>2 DEF UpFrame
<1>3. QED
  BY ZenonT(30), <1>1, <1>2 DEF UpFrame

\* A command that is read late is the same command.
LEMMA LateDown ==
  ASSUME NEW f \in DownFrame
  PROVE  /\ [f EXCEPT !.late = TRUE] \in DownFrame
         /\ [f EXCEPT !.late = TRUE].kind = f.kind /\ [f EXCEPT !.late = TRUE].late
         /\ f.kind = "run" => [f EXCEPT !.late = TRUE].job = f.job
<1>1. CASE f \in [kind : {"ack"}, late : BOOLEAN]
  BY ZenonT(30), <1>1 DEF DownFrame
<1>2. CASE f \in [kind : {"run"}, job : JobIds, late : BOOLEAN]
  BY ZenonT(30), <1>2 DEF DownFrame
<1>3. QED
  BY <1>1, <1>2 DEF DownFrame

\* Lately marks every frame and moves none.
LEMMA LatelyType ==
  ASSUME NEW S, \A f \in S : [f EXCEPT !.late = TRUE] \in S, NEW q \in Seq(S)
  PROVE  /\ Lately(q) \in Seq(S) /\ Len(Lately(q)) = Len(q)
         /\ DOMAIN Lately(q) = DOMAIN q
         /\ \A i \in DOMAIN q : Lately(q)[i] = [q[i] EXCEPT !.late = TRUE]
<1>1. Len(q) \in Nat /\ DOMAIN q = 1..Len(q)
  BY LenProperties
<1>2. /\ Lately(q) = [i \in 1..Len(q) |-> [q[i] EXCEPT !.late = TRUE]]
      /\ \A i \in 1..Len(q) : [q[i] EXCEPT !.late = TRUE] \in S
  BY <1>1, ElementOfSeq DEF Lately
<1>3. QED
  BY <1>1, <1>2

-----------------------------------------------------------------------------
(* What a step leaves of a queue. *)

\* r is what is left of q: some frames at the front are gone, the others may
\* have become late, and those of a kind in N may be new.
Rest(q, r, N) ==
  /\ DOMAIN r \subseteq Nat
  /\ \E d \in Nat : \A i \in DOMAIN r :
       \/ r[i].kind \in N
       \/ i + d \in DOMAIN q /\ (r[i] = q[i + d] \/ r[i] = [q[i + d] EXCEPT !.late = TRUE])

\* The ways a queue changes, each an instance of Rest.
LEMMA RestSame ==
  ASSUME NEW S, NEW q \in Seq(S), NEW N
  PROVE  Rest(q, q, N)
<1>1. 0 \in Nat /\ \A i \in DOMAIN q : i + 0 = i
  BY LenProperties
<1>2. \A i \in DOMAIN q : i + 0 \in DOMAIN q /\ q[i] = q[i + 0]
  BY <1>1
<1>3. DOMAIN q \subseteq Nat
  BY LenProperties
<1>4. QED
  BY ZenonT(30), <1>1, <1>2, <1>3 DEF Rest

LEMMA RestEmpty ==
  ASSUME NEW q, NEW N
  PROVE  Rest(q, <<>>, N)
<1>1. 0 \in Nat /\ DOMAIN <<>> = {}
  OBVIOUS
<1>2. QED
  BY <1>1, ZenonT(30) DEF Rest

LEMMA RestTail ==
  ASSUME NEW S, NEW q \in Seq(S), q # <<>>, NEW N
  PROVE  Rest(q, Tail(q), N)
<1>1. 1 \in Nat /\ \A i \in DOMAIN Tail(q) : i + 1 \in DOMAIN q /\ Tail(q)[i] = q[i + 1]
  BY HeadTailProperties, LenProperties
<1>2. DOMAIN Tail(q) \subseteq Nat
  BY HeadTailProperties, LenProperties
<1>3. QED
  BY <1>1, <1>2 DEF Rest

LEMMA RestLately ==
  ASSUME NEW S, \A f \in S : [f EXCEPT !.late = TRUE] \in S, NEW q \in Seq(S), NEW N
  PROVE  Rest(q, Lately(q), N)
<1>1. /\ DOMAIN Lately(q) = DOMAIN q
      /\ \A i \in DOMAIN q : Lately(q)[i] = [q[i] EXCEPT !.late = TRUE]
  BY LatelyType
<1>2. 0 \in Nat /\ \A i \in DOMAIN q : i + 0 = i
  BY LenProperties
<1>3. \A i \in DOMAIN Lately(q) :
        i + 0 \in DOMAIN q /\ Lately(q)[i] = [q[i + 0] EXCEPT !.late = TRUE]
  BY <1>1, <1>2
<1>4. DOMAIN Lately(q) \subseteq Nat
  BY <1>1, LenProperties
<1>5. QED
  BY ZenonT(30), <1>2, <1>3, <1>4 DEF Rest

\* A queue that has a place is not empty, and its head is at place 1.
LEMMA PlaceTaken ==
  ASSUME NEW q, NEW i \in DOMAIN q PROVE q # <<>>
<1>1. DOMAIN <<>> = {}
  OBVIOUS
<1>2. QED
  BY <1>1

LEMMA HeadAt ==
  ASSUME NEW S, NEW q \in Seq(S), q # <<>> PROVE 1 \in DOMAIN q
BY LenProperties, EmptySeq

\* The places of a queue without its head.
LEMMA TailAt ==
  ASSUME NEW S, NEW q \in Seq(S), q # <<>>
  PROVE  \A i \in DOMAIN Tail(q) : i + 1 \in DOMAIN q /\ i + 1 # 1 /\ Tail(q)[i] = q[i + 1]
BY HeadTailProperties, LenProperties

\* The places of a queue with a frame more.
LEMMA AppendAt ==
  ASSUME NEW S, NEW q \in Seq(S), NEW f
  PROVE  /\ Len(q) \in Nat /\ DOMAIN q = 1..Len(q)
         /\ DOMAIN Append(q, f) = DOMAIN q \cup {Len(q) + 1}
         /\ \A i \in DOMAIN q : i \in Nat /\ i < Len(q) + 1 /\ Append(q, f)[i] = q[i]
         /\ Append(q, f)[Len(q) + 1] = f
<1>1. Len(q) \in Nat /\ DOMAIN q = 1..Len(q)
  BY LenProperties
<1>2. /\ DOMAIN Append(q, f) = 1..(Len(q) + 1)
      /\ \A i \in 1..Len(q) : Append(q, f)[i] = q[i]
      /\ Append(q, f)[Len(q) + 1] = f
  BY <1>1
<1>3. QED
  BY <1>1, <1>2

LEMMA RestAppend ==
  ASSUME NEW S, NEW q \in Seq(S), NEW f, NEW N, f.kind \in N
  PROVE  Rest(q, Append(q, f), N)
<1>1. 0 \in Nat /\ \A i \in DOMAIN q : i + 0 = i
  BY LenProperties
<1>2. \A i \in DOMAIN Append(q, f) :
        \/ Append(q, f)[i].kind \in N
        \/ i + 0 \in DOMAIN q /\ Append(q, f)[i] = q[i + 0]
  BY <1>1, AppendAt
<1>3. DOMAIN Append(q, f) \subseteq Nat
  BY AppendAt
<1>4. QED
  BY ZenonT(30), <1>1, <1>2, <1>3 DEF Rest

\* New frames of no kind are new frames of any kind.
LEMMA RestMore ==
  ASSUME NEW q, NEW r, Rest(q, r, {}), NEW N
  PROVE  Rest(q, r, N)
BY ZenonT(30) DEF Rest

\* The same, of all streams.
UpRest(N) == \A t \in Streams : Rest(up[t], up'[t], N)
\* The same of the streams to the agents.
DownRest(N) == \A t \in Streams : Rest(down[t], down'[t], N)

\* What each operation on the streams leaves.
LEMMA UpSame ==
  ASSUME UpOK(UpFrame), up' = up, NEW N
  PROVE  UpRest(N)
BY RestSame DEF UpOK, UpRest

LEMMA DownSame ==
  ASSUME DownOK(DownFrame), down' = down, NEW N
  PROVE  DownRest(N)
BY RestSame DEF DownOK, DownRest

LEMMA TakeRest ==
  ASSUME UpOK(UpFrame), NEW s \in Streams, Arrived(s), Take(s), NEW N
  PROVE  UpRest(N)
<1>1. \A t \in Streams : up'[t] = IF t = s THEN Tail(up[s]) ELSE up[t]
  BY DEF UpOK, Take
<1>2. up[s] # <<>> /\ \A t \in Streams : up[t] \in Seq(UpFrame)
  BY DEF UpOK, Arrived
<1>3. QED
  BY <1>1, <1>2, RestSame, RestTail, ZenonT(30) DEF UpRest

LEMMA EmptiedRest ==
  ASSUME UpOK(UpFrame), NEW s, up' = [up EXCEPT ![s] = <<>>], NEW N
  PROVE  UpRest(N)
<1>1. \A t \in Streams : up'[t] = IF t = s THEN <<>> ELSE up[t]
  BY ZenonT(30) DEF UpOK
<1>2. \A t \in Streams : up[t] \in Seq(UpFrame)
  BY DEF UpOK
<1>3. QED
  BY <1>1, <1>2, RestSame, RestEmpty, ZenonT(30) DEF UpRest

LEMMA IgnoreRest ==
  ASSUME DownOK(DownFrame), NEW s, down' = [down EXCEPT ![s] = <<>>], NEW N
  PROVE  DownRest(N)
<1>1. \A t \in Streams : down'[t] = IF t = s THEN <<>> ELSE down[t]
  BY ZenonT(30) DEF DownOK
<1>2. \A t \in Streams : down[t] \in Seq(DownFrame)
  BY DEF DownOK
<1>3. QED
  BY <1>1, <1>2, RestSame, RestEmpty, ZenonT(30) DEF DownRest

LEMMA ConsumeRest ==
  ASSUME DownOK(DownFrame), NEW n \in Nodes, Received(n), Consume(n), NEW N
  PROVE  DownRest(N)
<1>1. \A t \in Streams : down'[t] = IF t = session[n] THEN Tail(down[t]) ELSE down[t]
  BY ZenonT(30) DEF DownOK, Consume
<1>2. down[session[n]] # <<>> /\ \A t \in Streams : down[t] \in Seq(DownFrame)
  BY DEF DownOK, Received
<1>3. QED
  BY <1>1, <1>2, RestSame, RestTail, ZenonT(30) DEF DownRest

LEMMA PutRest ==
  ASSUME DownOK(DownFrame), NEW s \in Streams, NEW f, Put(s, f), NEW N, f.kind \in N
  PROVE  DownRest(N)
<1>1. \A t \in Streams : down'[t] = down[t] \/ (t = s /\ down'[t] = Append(down[t], f))
  BY DEF DownOK, Put
<1>2. \A t \in Streams : down[t] \in Seq(DownFrame)
  BY DEF DownOK
<1>3. QED
  BY <1>1, <1>2, RestSame, RestAppend, ZenonT(30) DEF DownRest

LEMMA EmitRest ==
  ASSUME UpOK(UpFrame), NEW n \in Nodes, NEW f, Emit(n, f) \/ EmitBeat(n, f), NEW N, f.kind \in N
  PROVE  UpRest(N)
<1>1. \A t \in Streams : up'[t] = up[t] \/ up'[t] = Append(up[t], f)
  BY ZenonT(30) DEF UpOK, Emit, EmitBeat
<1>2. \A t \in Streams : up[t] \in Seq(UpFrame)
  BY DEF UpOK
<1>3. QED
  BY <1>1, <1>2, RestSame, RestAppend, ZenonT(30) DEF UpRest

LEMMA LatelyRest ==
  ASSUME UpOK(UpFrame), DownOK(DownFrame), NEW N,
         up' = [s \in Streams |-> Lately(up[s])], down' = [s \in Streams |-> Lately(down[s])]
  PROVE  UpRest(N) /\ DownRest(N)
<1>1. /\ \A t \in Streams : up[t] \in Seq(UpFrame) /\ down[t] \in Seq(DownFrame)
      /\ \A t \in Streams : up'[t] = Lately(up[t]) /\ down'[t] = Lately(down[t])
  BY DEF UpOK, DownOK
<1>2. /\ \A f \in UpFrame : [f EXCEPT !.late = TRUE] \in UpFrame
      /\ \A f \in DownFrame : [f EXCEPT !.late = TRUE] \in DownFrame
  BY LateUp, LateDown
<1>3. QED
  BY ZenonT(30), <1>1, <1>2, RestLately DEF UpRest, DownRest

\* Of a queue that was empty, nothing is left.
LEMMA RestNonempty ==
  ASSUME NEW S, NEW q \in Seq(S), NEW r \in Seq(S), Rest(q, r, {}), r # <<>>
  PROVE  q # <<>>
<1>1. PICK d \in Nat : \A i \in DOMAIN r : i + d \in DOMAIN q
  BY ZenonT(30) DEF Rest
<1>2. 1 \in DOMAIN r
  BY LenProperties, EmptySeq
<1>3. 1 + d \in DOMAIN q
  BY <1>1, <1>2
<1>4. DOMAIN <<>> = {}
  OBVIOUS
<1>5. QED
  BY <1>3, <1>4

\* What the steps leave of the queues.
LEMMA RestSteps ==
  ASSUME FramesOK, SchedOK
  PROVE  /\ UNCHANGED chanVars => UpRest({}) /\ DownRest({})
         /\ \A j \in JobIds : \A ok \in BOOLEAN :
              SendJob(j, ok) => UpRest({}) /\ DownRest({"run"})
         /\ \A s \in Streams : AckOut(s) => UpRest({}) /\ DownRest({"ack"})
         /\ \A s \in Streams :
              RecvBeat(s) \/ RecvUpdate(s) \/ HandlerReturns(s) => UpRest({}) /\ DownRest({})
         /\ \A n \in Nodes :
              Connect(n) \/ AwaitAck(n) \/ Reconnect(n) \/ AgentRestart(n)
                => UpRest({}) /\ DownRest({})
         /\ \A n \in Nodes : StartJob(n) => UpRest({"update"}) /\ DownRest({})
         /\ \A n \in Nodes : \A j : \A state :
              Report(n, j, state) \/ Finish(n, j, state) => UpRest({"update"}) /\ DownRest({})
         /\ \A n \in Nodes : Beat(n) => UpRest({"beat"}) /\ DownRest({})
         /\ TimePasses \/ CoordinatorRestart => UpRest({}) /\ DownRest({})
<1>0. AgentsOK /\ UpOK(UpFrame) /\ DownOK(DownFrame)
  BY FramesSplit
<1>1. ASSUME UNCHANGED chanVars PROVE UpRest({}) /\ DownRest({})
  BY <1>0, <1>1, UpSame, DownSame DEF chanVars
<1>2. ASSUME NEW j \in JobIds, NEW ok \in BOOLEAN, SendJob(j, ok)
      PROVE  UpRest({}) /\ DownRest({"run"})
  <2>1. via[j] \in Streams /\ up' = up
    BY <1>2 DEF SendJob, SchedOK
  <2> DEFINE f == [kind |-> "run", job |-> j, late |-> FALSE]
  <2>2. Put(via[j], f) \/ down' = down
    BY <1>2 DEF SendJob
  <2>3. f.kind \in {"run"}
    OBVIOUS
  <2> HIDE DEF f
  <2>4. QED
    BY <1>0, <2>1, <2>2, <2>3, UpSame, DownSame, PutRest
<1>3. ASSUME NEW s \in Streams, AckOut(s) PROVE UpRest({}) /\ DownRest({"ack"})
  <2> DEFINE f == [kind |-> "ack", late |-> FALSE]
  <2>1. Put(s, f) /\ f.kind \in {"ack"} /\ up' = up
    BY <1>3 DEF AckOut
  <2> HIDE DEF f
  <2>2. QED
    BY <1>0, <2>1, UpSame, PutRest
<1>4. ASSUME NEW s \in Streams, RecvBeat(s) \/ RecvUpdate(s) \/ HandlerReturns(s)
      PROVE  UpRest({}) /\ DownRest({})
  <2>1. (Arrived(s) /\ Take(s)) \/ up' = [up EXCEPT ![s] = <<>>]
    BY ZenonT(30), <1>4 DEF RecvBeat, RecvUpdate, HandlerReturns, Unread
  <2>2. down' = down
    BY ZenonT(30), <1>4 DEF RecvBeat, RecvUpdate, HandlerReturns
  <2>3. QED
    BY <1>0, <2>1, <2>2, TakeRest, EmptiedRest, DownSame
<1>5. ASSUME NEW n \in Nodes, Connect(n) PROVE UpRest({}) /\ DownRest({})
  <2>1. PICK s \in Streams : Dial(s, n)
    BY <1>5, ConnectSlot, ZenonT(30)
  <2>2. QED
    BY ZenonT(30), <1>0, <2>1, EmptiedRest, IgnoreRest DEF Dial
<1>6. ASSUME NEW n \in Nodes, AwaitAck(n) \/ Reconnect(n) \/ AgentRestart(n)
      PROVE  UpRest({}) /\ DownRest({})
  <2>1. up' = up /\ ((Received(n) /\ Consume(n)) \/ Ignore(n) \/ down' = down)
    BY <1>6 DEF AwaitAck, FirstFrame, AwaitBroken, Reconnect, SessionEnds, AgentRestart, AgentDies
  <2>2. QED
    BY <1>0, <2>1, UpSame, DownSame, ConsumeRest, IgnoreRest DEF Ignore
<1>7. \A j : \A state : JobUpdate(j, state).kind \in {"update"}
  BY DEF JobUpdate
<1>8. ASSUME NEW n \in Nodes, StartJob(n) PROVE UpRest({"update"}) /\ DownRest({})
  <2>1. up' = up \/ \E j : Emit(n, JobUpdate(j, "FAILED"))
    BY <1>8 DEF StartJob
  <2>2. UpRest({"update"})
    BY <1>0, <1>7, <2>1, UpSame, EmitRest, ZenonT(30)
  <2>3. QED
    BY <1>0, <1>8, <2>2, ConsumeRest DEF StartJob
<1>9. ASSUME NEW n \in Nodes, NEW j, NEW state, Report(n, j, state) \/ Finish(n, j, state)
      PROVE  UpRest({"update"}) /\ DownRest({})
  <2>1. Emit(n, JobUpdate(j, state)) /\ down' = down
    BY <1>9 DEF Report, Finish
  <2>2. QED
    BY <1>0, <1>7, <2>1, EmitRest, DownSame, ZenonT(30)
<1>10. ASSUME NEW n \in Nodes, Beat(n) PROVE UpRest({"beat"}) /\ DownRest({})
  <2> DEFINE f == [kind |-> "beat", active |-> {j \in JobIds : run[n][j] # "none"}, late |-> FALSE]
  <2>1. EmitBeat(n, f) /\ f.kind \in {"beat"} /\ down' = down
    BY <1>10 DEF Beat
  <2> HIDE DEF f
  <2>2. QED
    BY <1>0, <2>1, EmitRest, DownSame
<1>11. CASE TimePasses
  BY <1>0, <1>11, LatelyRest DEF TimePasses
<1>12. CASE CoordinatorRestart
  <2>1. \A s \in Streams : up'[s] = <<>>
    BY <1>12 DEF CoordinatorRestart
  <2>2. down' = down
    BY <1>12 DEF CoordinatorRestart
  <2>3. QED
    BY <1>0, <2>1, <2>2, RestEmpty, DownSame DEF UpRest
<1>13. QED
  BY <1>1, <1>2, <1>3, <1>4, <1>5, <1>6, <1>8, <1>9, <1>10, <1>11, <1>12

-----------------------------------------------------------------------------
(* Who is at the ends of a stream. *)

\* A transport works, and frames wait for the coordinator, only while there is
\* a handler; an agent's stream is handled for that agent; frames wait for an
\* agent only on the stream it uses.
StreamsOwned ==
  /\ \A s \in Streams : link[s] \/ up[s] # <<>> => handler[s] # "none"
  /\ \A n \in Nodes : session[n] # None /\ handler[session[n]] # "none" => owner[session[n]] = n
  /\ \A s \in Streams : down[s] # <<>> => \E n \in Nodes : session[n] = s

\* A queue that holds no RegisterAck, and one that holds at most one.
NoAck(q) == \A i \in DOMAIN q : q[i].kind # "ack"

OneAck(q) == \A i \in DOMAIN q : \A k \in DOMAIN q : q[i].kind = "ack" /\ q[k].kind = "ack" => i = k

\* A stream brings one RegisterAck: once an agent serves it reads jobs only.
AckedOnce ==
  \A n \in Nodes :
    session[n] # None =>
      /\ OneAck(down[session[n]])
      /\ handler[session[n]] = "acking" => NoAck(down[session[n]])
      /\ Serving(n) => handler[session[n]] # "acking" /\ NoAck(down[session[n]])

\* The two ends of every stream stay who they are.
Steady ==
  /\ session' = session /\ owner' = owner
  /\ \A s \in Streams : (handler'[s] = "none" <=> handler[s] = "none") /\ (link'[s] => link[s])

\* The steps of the scheduler and of the handlers, but for the acknowledgement,
\* leave the agents as they are.
LEMMA SteadySteps ==
  ASSUME RegTypeOK, FramesOK
  PROVE  /\ \A j \in JobIds : \A n \in Nodes : RunJob(j, n) => Steady
         /\ \A j \in JobIds : \A ok \in BOOLEAN : SendJob(j, ok) => Steady
         /\ \A s \in Streams : AckOut(s) \/ RecvBeat(s) \/ RecvUpdate(s) => Steady
         /\ \A n \in Nodes : AwaitAck(n) \/ StartJob(n) \/ Beat(n) => Steady
         /\ \A n \in Nodes : \A j \in JobIds : \A state :
              Report(n, j, state) \/ Finish(n, j, state) \/ RemoveJob(n, j) => Steady
         /\ \A s \in Streams : LinkFailure(s) => Steady
         /\ ReaperPass \/ TimePasses \/ UNCHANGED jobVars => Steady
<1>1. ASSUME UNCHANGED <<session, owner, handler, link>> PROVE Steady
  BY <1>1 DEF Steady
<1>2. ASSUME NEW j \in JobIds, NEW n \in Nodes, RunJob(j, n) PROVE Steady
  BY ZenonT(30), <1>1, <1>2 DEF RunJob, regVars, chanVars
<1>3. ASSUME NEW j \in JobIds, NEW ok \in BOOLEAN, SendJob(j, ok) PROVE Steady
  BY <1>1, <1>3 DEF SendJob, regVars
<1>4. ASSUME NEW s \in Streams, AckOut(s) PROVE Steady
  BY <1>4 DEF AckOut, SendAck, Steady, RegTypeOK
<1>5. ASSUME NEW s \in Streams, RecvBeat(s) \/ RecvUpdate(s) PROVE Steady
  BY ZenonT(30), <1>1, <1>5 DEF RecvBeat, RecvUpdate, Heartbeat, streamVars, regVars
<1>6. ASSUME NEW n \in Nodes, AwaitAck(n) \/ StartJob(n) \/ Beat(n) PROVE Steady
  BY <1>1, <1>6 DEF AwaitAck, FirstFrame, AwaitBroken, StartJob, Beat, regVars
<1>7. ASSUME NEW n \in Nodes, NEW j \in JobIds, NEW state,
             Report(n, j, state) \/ Finish(n, j, state) \/ RemoveJob(n, j)
      PROVE  Steady
  BY <1>1, <1>7 DEF Report, Finish, RemoveJob, regVars, chanVars
<1>8. ASSUME NEW s \in Streams, LinkFailure(s) PROVE Steady
  <2>1. link' = [link EXCEPT ![s] = FALSE] /\ UNCHANGED <<session, owner, handler>>
    BY <1>8 DEF LinkFailure, LinkBreaks, chanVars
  <2>2. \A t \in Streams : link'[t] => link[t]
    BY <2>1, ZenonT(30) DEF RegTypeOK
  <2>3. QED
    BY <2>1, <2>2 DEF Steady
<1>9. CASE ReaperPass \/ TimePasses \/ UNCHANGED jobVars
  BY <1>1, <1>9 DEF ReaperPass, Reap, TimePasses, Tick, jobVars, streamVars, regVars, chanVars
<1>10. QED
  BY <1>2, <1>3, <1>4, <1>5, <1>6, <1>7, <1>8, <1>9

\* A rest of a queue with new RunJob commands has no more acknowledgements than
\* the queue had.
LEMMA NoAckLeft ==
  ASSUME NEW q \in Seq(DownFrame), NEW r, Rest(q, r, {"run"})
  PROVE  (NoAck(q) => NoAck(r)) /\ (OneAck(q) => OneAck(r))
<1>1. PICK d \in Nat : \A i \in DOMAIN r :
        \/ r[i].kind \in {"run"}
        \/ i + d \in DOMAIN q /\ (r[i] = q[i + d] \/ r[i] = [q[i + d] EXCEPT !.late = TRUE])
  BY ZenonT(30) DEF Rest
<1>2. \A k \in DOMAIN q : q[k] \in DownFrame /\ [q[k] EXCEPT !.late = TRUE].kind = q[k].kind
  BY LateDown, ElementOfSeq, LenProperties
<1>3. \A i \in DOMAIN r : r[i].kind = "ack" => i + d \in DOMAIN q /\ q[i + d].kind = "ack"
  BY ZenonT(30), <1>1, <1>2
<1>4. \A i \in DOMAIN r : \A k \in DOMAIN r : i + d = k + d => i = k
  BY DEF Rest
<1>5. QED
  BY <1>3, <1>4 DEF NoAck, OneAck

\* A queue without an acknowledgement may get one.
LEMMA NoneIsOne ==
  ASSUME NEW q \in Seq(DownFrame), NoAck(q), NEW f
  PROVE  OneAck(q) /\ OneAck(Append(q, f))
<1>1. OneAck(q)
  BY DEF NoAck, OneAck
<1>2. /\ DOMAIN Append(q, f) = DOMAIN q \cup {Len(q) + 1}
      /\ \A i \in DOMAIN q : Append(q, f)[i] = q[i]
  BY AppendAt
<1>3. QED
  BY <1>1, <1>2 DEF NoAck, OneAck

\* Steps in which no agent connects or reads its RegisterAck, and none is sent.
LEMMA AcksKept ==
  ASSUME FramesOK, AckedOnce, DownRest({"run"}),
         \A n \in Nodes :
           session'[n] # None =>
             /\ session'[n] = session[n]
             /\ agent'[n] = "serve" => agent[n] = "serve"
             /\ handler'[session[n]] = "acking" => handler[session[n]] = "acking"
  PROVE  AckedOnce'
<1> SUFFICES ASSUME NEW n \in Nodes, session'[n] # None
             PROVE  /\ OneAck(down'[session'[n]])
                    /\ handler'[session'[n]] = "acking" => NoAck(down'[session'[n]])
                    /\ agent'[n] = "serve" => /\ handler'[session'[n]] # "acking"
                                              /\ NoAck(down'[session'[n]])
  BY DEF AckedOnce, Serving, OneAck, NoAck
<1>1. session'[n] = session[n] /\ session[n] \in Streams
  BY DEF FramesOK, ChanTypeOK
<1>2. down[session[n]] \in Seq(DownFrame) /\ Rest(down[session[n]], down'[session[n]], {"run"})
  BY <1>1 DEF FramesOK, ChanTypeOK, DownRest
<1>3. QED
  BY <1>1, <1>2, NoAckLeft DEF AckedOnce, Serving

\* An agent that connects has a stream that brings nothing yet; the frame that
\* makes it serve is the only RegisterAck of its stream.
LEMMA AckedOnceStep ==
  ASSUME RegTypeOK, FramesOK, SchedOK, AckedOnce, [JobNext]_jobVars
  PROVE  AckedOnce'
<1>0. /\ session \in [Nodes -> Streams \cup {None}] /\ down \in [Streams -> Seq(DownFrame)]
      /\ agent \in [Nodes -> {"off", "await", "serve", "stuck"}]
  BY DEF FramesOK, ChanTypeOK
<1>a. ASSUME DownRest({}) \/ DownRest({"run"}), UNCHANGED <<session, agent, handler>>
      PROVE  AckedOnce'
  <2>1. DownRest({"run"})
    BY <1>a, RestMore DEF DownRest
  <2>2. QED
    BY <1>a, <2>1, AcksKept
<1>1. CASE Scheduling
  BY ZenonT(30), <1>1, <1>a, RestSteps DEF Scheduling, RunJob, SendJob, regVars, chanVars
<1>2. ASSUME NEW s \in Streams, AckOut(s) PROVE AckedOnce'
  <2> DEFINE f == [kind |-> "ack", late |-> FALSE]
  <2>1. /\ handler[s] = "acking" /\ handler' = [handler EXCEPT ![s] = "serving"]
        /\ UNCHANGED <<session, agent>>
        /\ down' = IF Heard(s) THEN [down EXCEPT ![s] = Append(@, f)] ELSE down
    BY <1>2 DEF AckOut, SendAck, Put
  <2>2. ASSUME NEW n \in Nodes, session'[n] # None
        PROVE  /\ OneAck(down'[session'[n]])
               /\ handler'[session'[n]] = "acking" => NoAck(down'[session'[n]])
               /\ agent'[n] = "serve" => /\ handler'[session'[n]] # "acking"
                                         /\ NoAck(down'[session'[n]])
    <3>0. /\ session[n] \in Streams /\ down[session[n]] \in Seq(DownFrame)
          /\ session'[n] = session[n] /\ session[n] # None /\ agent'[n] = agent[n]
      BY <1>0, <2>1, <2>2
    <3>1. CASE session[n] # s
      <4>1. down'[session[n]] = down[session[n]] /\ handler'[session[n]] = handler[session[n]]
        BY <1>0, <2>1, <3>0, <3>1 DEF RegTypeOK
      <4>2. QED
        BY <3>0, <4>1 DEF AckedOnce, Serving
    <3>2. CASE session[n] = s
      <4>1. NoAck(down[s]) /\ agent[n] # "serve" /\ handler'[s] = "serving"
        BY <1>0, <2>1, <3>0, <3>2 DEF AckedOnce, Serving, RegTypeOK
      <4>2. down'[s] = down[s] \/ down'[s] = Append(down[s], f)
        BY <1>0, <2>1
      <4>3. OneAck(down'[s])
        BY ZenonT(30), <3>0, <3>2, <4>1, <4>2, NoneIsOne
      <4>4. QED
        BY ZenonT(30), <3>0, <3>2, <4>1, <4>3
    <3>3. QED
      BY <3>1, <3>2
  <2> HIDE DEF f
  <2>3. QED
    BY ZenonT(30), <2>2 DEF AckedOnce, Serving, NoAck, OneAck
<1>3. ASSUME NEW s \in Streams, RecvBeat(s) \/ RecvUpdate(s) PROVE AckedOnce'
  <2>1. DownRest({})
    BY <1>3, RestSteps
  <2>2. UNCHANGED <<session, agent, handler>>
    BY ZenonT(30), <1>3 DEF RecvBeat, RecvUpdate, Heartbeat, streamVars, regVars
  <2>3. QED
    BY <1>a, <2>1, <2>2
<1>4. ASSUME NEW s \in Streams, HandlerReturns(s) PROVE AckedOnce'
  <2>1. DownRest({"run"})
    BY ZenonT(30), <1>4, RestSteps, RestMore DEF DownRest
  <2>2. UNCHANGED <<session, agent>> /\ handler' = [handler EXCEPT ![s] = "none"]
    BY <1>4 DEF HandlerReturns, AckFails, StreamEnds, Return
  <2>3. \A t \in Streams : handler'[t] = "acking" => handler[t] = "acking"
    BY <2>2 DEF RegTypeOK
  <2>4. QED
    BY <1>0, <2>1, <2>2, <2>3, AcksKept
<1>5. ASSUME NEW n \in Nodes, Connect(n) PROVE AckedOnce'
  <2>1. PICK s \in Streams : Dial(s, n) /\ Free(s)
    BY <1>5, ConnectSlot, ZenonT(30)
  <2>2. /\ session' = [session EXCEPT ![n] = s] /\ agent' = [agent EXCEPT ![n] = "await"]
        /\ down' = [down EXCEPT ![s] = <<>>] /\ handler' = [handler EXCEPT ![s] = "acking"]
    BY <2>1 DEF Dial, Register
  <2>3. down'[s] = <<>> /\ OneAck(<<>>) /\ NoAck(<<>>)
    BY <1>0, <2>2 DEF OneAck, NoAck
  <2>4. ASSUME NEW m \in Nodes, session'[m] # None
        PROVE  /\ OneAck(down'[session'[m]])
               /\ handler'[session'[m]] = "acking" => NoAck(down'[session'[m]])
               /\ agent'[m] = "serve" => /\ handler'[session'[m]] # "acking"
                                         /\ NoAck(down'[session'[m]])
    <3>1. CASE m = n
      BY <1>0, <2>2, <2>3, <3>1
    <3>2. CASE m # n
      <4>1. session'[m] = session[m] /\ agent'[m] = agent[m] /\ session[m] # s
        BY <1>0, <2>1, <2>2, <3>2 DEF Free
      <4>2. down'[session[m]] = down[session[m]] /\ handler'[session[m]] = handler[session[m]]
        BY <1>0, <2>2, <2>4, <4>1 DEF RegTypeOK
      <4>3. QED
        BY ZenonT(30), <2>4, <4>1, <4>2 DEF AckedOnce, Serving
    <3>3. QED
      BY <3>1, <3>2
  <2>5. QED
    BY <2>4 DEF AckedOnce, Serving, NoAck, OneAck
<1>6. ASSUME NEW n \in Nodes, AwaitAck(n) PROVE AckedOnce'
  <2>1. UNCHANGED <<session, handler>> /\ DownRest({"run"})
    BY ZenonT(30), <1>6, RestSteps, RestMore
    DEF AwaitAck, FirstFrame, AwaitBroken, regVars, DownRest
  <2>2. CASE agent' = [agent EXCEPT ![n] = "stuck"]
    BY <1>0, <2>1, <2>2, AcksKept
  <2>3. CASE FirstFrame(n) /\ NextFrame(n).kind = "ack"
    <3>1. /\ agent' = [agent EXCEPT ![n] = "serve"] /\ session[n] \in Streams /\ session[n] # None
          /\ down[session[n]] # <<>> /\ down' = [down EXCEPT ![session[n]] = Tail(@)]
      BY <1>0, <2>3 DEF FirstFrame, Received, Consume
    <3> DEFINE q == down[session[n]]
    <3>2. q \in Seq(DownFrame) /\ down'[session[n]] = Tail(q) /\ q[1].kind = "ack"
      BY <1>0, <2>3, <3>1 DEF NextFrame
    <3>3. OneAck(q) /\ ~NoAck(q)
      <4>1. 1 \in DOMAIN q
        BY ZenonT(30), <3>1, <3>2, HeadAt
      <4>2. QED
        BY <3>1, <3>2, <4>1 DEF AckedOnce, NoAck
    <3>4. handler[session[n]] # "acking"
      BY <3>1, <3>3 DEF AckedOnce
    <3>5. NoAck(Tail(q))
      <4>1. \A i \in DOMAIN Tail(q) : i + 1 \in DOMAIN q /\ i + 1 # 1 /\ Tail(q)[i] = q[i + 1]
        BY ZenonT(30), <3>1, <3>2, TailAt
      <4>2. 1 \in DOMAIN q
        BY ZenonT(30), <3>1, <3>2, HeadAt
      <4>3. QED
        BY <3>2, <3>3, <4>1, <4>2 DEF OneAck, NoAck
    <3> HIDE DEF q
    <3>6. Tail(q) \in Seq(DownFrame)
      BY <3>1, <3>2 DEF q
    <3>7. ASSUME NEW m \in Nodes, session[m] # None
          PROVE  /\ OneAck(down'[session[m]])
                 /\ handler[session[m]] = "acking" => NoAck(down'[session[m]])
                 /\ agent'[m] = "serve" => /\ handler[session[m]] # "acking"
                                           /\ NoAck(down'[session[m]])
      <4>1. CASE session[m] = session[n]
        BY ZenonT(30), <3>2, <3>4, <3>5, <4>1, <3>6, NoneIsOne
      <4>2. CASE session[m] # session[n]
        <5>1. down'[session[m]] = down[session[m]] /\ agent'[m] = agent[m]
          BY <1>0, <3>1, <3>7, <4>2
        <5>2. QED
          BY <3>7, <5>1 DEF AckedOnce, Serving
      <4>3. QED
        BY <4>1, <4>2
    <3>8. QED
      BY ZenonT(30), <2>1, <3>7 DEF AckedOnce, Serving, NoAck, OneAck
  <2>4. QED
    BY <1>6, <2>2, <2>3 DEF AwaitAck, FirstFrame, AwaitBroken
<1>7. ASSUME NEW n \in Nodes, Reconnect(n) \/ AgentRestart(n) PROVE AckedOnce'
  <2>1. /\ DownRest({"run"}) /\ handler' = handler
        /\ session' = [session EXCEPT ![n] = None] /\ agent' = [agent EXCEPT ![n] = "off"]
    BY ZenonT(30), <1>7, RestSteps, RestMore
    DEF Reconnect, SessionEnds, AgentRestart, AgentDies, regVars, DownRest
  <2>2. QED
    BY <1>0, <2>1, AcksKept
<1>8. ASSUME NEW n \in Nodes, StartJob(n) \/ Beat(n) PROVE AckedOnce'
  BY ZenonT(30), <1>8, <1>a, RestSteps DEF StartJob, Beat, regVars
<1>9. ASSUME NEW n \in Nodes, NEW j \in JobIds, NEW state,
             Report(n, j, state) \/ Finish(n, j, state) \/ RemoveJob(n, j)
      PROVE  AckedOnce'
  BY ZenonT(30), <1>9, <1>a, RestSteps DEF Report, Finish, RemoveJob, regVars, chanVars
<1>10. ASSUME NEW s \in Streams, LinkFailure(s) PROVE AckedOnce'
  BY <1>10, <1>a, RestSteps DEF LinkFailure, LinkBreaks, chanVars
<1>11. CASE CoordinatorRestart
  <2>1. /\ DownRest({"run"}) /\ UNCHANGED <<session, agent>>
        /\ handler' = [s \in Streams |-> "none"]
    BY <1>11, RestSteps, RestMore DEF CoordinatorRestart, Restart, DownRest
  <2>2. QED
    BY <1>0, <2>1, AcksKept
<1>12. CASE ReaperPass \/ TimePasses \/ UNCHANGED jobVars
  BY <1>12, <1>a, RestSteps
  DEF ReaperPass, Reap, TimePasses, Tick, jobVars, streamVars, regVars, chanVars
<1>13. QED
  BY <1>1, <1>2, <1>3, <1>4, <1>5, <1>6, <1>7, <1>8, <1>9, <1>10, <1>11, <1>12
  DEF JobNext, Handling, Handler, Agents, RunOnce, Faults

\* The types of the job system, part by part.
TypesOK == FramesOK /\ SchedOK /\ HostsOK

\* A handler that reads belongs to a node.
LEMMA OwnerNode ==
  ASSUME RegIInv, NEW s \in Streams, handler[s] # "none"
  PROVE  owner[s] \in Nodes
BY DEF RegIInv, RegTypeOK, RunningRegistered

\* Types, one lemma for each group of steps.
LEMMA SchedulingTypes ==
  ASSUME RegTypeOK, TypesOK, Scheduling
  PROVE  TypesOK'
<1>0. FramesOK /\ SchedOK /\ HostsOK /\ AgentsOK /\ UpOK(UpFrame) /\ DownOK(DownFrame)
  BY FramesSplit DEF TypesOK
<1>1. ASSUME NEW j \in JobIds, NEW n \in Nodes, RunJob(j, n) PROVE TypesOK'
  <2>1. 0 \in 0..Grace /\ "PENDING" \in JobStates
    BY JobsAssumption DEF JobStates
  <2>2. [node |-> n, state |-> "PENDING", age |-> 0] \in Job
    BY <2>1, JobMade
  <2>3. SchedOK'
    BY <1>0, <1>1, <2>2 DEF RunJob, SchedOK, RegTypeOK
  <2>4. QED
    BY ZenonT(30), <1>0, <1>1, <2>3, QuietFrames, QuietHosts DEF RunJob, TypesOK
<1>2. ASSUME NEW j \in JobIds, NEW ok \in BOOLEAN, SendJob(j, ok) PROVE TypesOK'
  <2>1. via[j] \in Streams
    BY <1>0, <1>2 DEF SendJob, SchedOK
  <2>2. SchedOK'
    BY <1>0, <1>2 DEF SendJob, SchedOK
  <2> DEFINE f == [kind |-> "run", job |-> j, late |-> FALSE]
  <2>3. DownOK(DownFrame)'
    <3>1. CASE ok
      <4>1. f \in DownFrame
        BY DEF DownFrame
      <4>2. CanSend(via[j], TRUE) /\ Put(via[j], f)
        BY <1>2, <3>1, ZenonT(30) DEF SendJob
      <4> HIDE DEF f
      <4>3. QED
        BY <1>0, <2>1, <4>1, <4>2, PutOK, ZenonT(30)
    <3>2. CASE ~ok
      BY <1>0, <1>2, <3>2 DEF SendJob, DownOK
    <3>3. QED
      BY <3>1, <3>2
  <2>4. AgentsOK' /\ UpOK(UpFrame)' /\ HostsOK'
    BY <1>0, <1>2, QuietHosts DEF SendJob, AgentsOK, UpOK
  <2>5. QED
    BY <2>2, <2>3, <2>4, FramesSplit DEF TypesOK
<1>3. QED
  BY <1>1, <1>2 DEF Scheduling

LEMMA HandlerTypes ==
  ASSUME RegIInv, TypesOK, NEW s \in Streams, Handler(s)
  PROVE  TypesOK'
<1>0. FramesOK /\ SchedOK /\ HostsOK /\ AgentsOK /\ UpOK(UpFrame) /\ DownOK(DownFrame)
  BY FramesSplit DEF TypesOK
<1>1. CASE AckOut(s)
  <2> DEFINE f == [kind |-> "ack", late |-> FALSE]
  <2>1. f \in DownFrame /\ CanSend(s, TRUE) /\ Put(s, f)
    BY ZenonT(30), <1>1 DEF DownFrame, AckOut
  <2> HIDE DEF f
  <2>2. DownOK(DownFrame)'
    BY <1>0, <2>1, PutOK, ZenonT(30)
  <2>3. AgentsOK' /\ UpOK(UpFrame)' /\ HostsOK' /\ SchedOK'
    BY <1>0, <1>1, QuietHosts, QuietSched DEF AckOut, AgentsOK, UpOK
  <2>4. QED
    BY <2>2, <2>3, FramesSplit DEF TypesOK
<1>2. CASE RecvBeat(s)
  <2>1. UpOK(UpFrame)'
    BY <1>0, <1>2, TakeOK, ZenonT(30) DEF RecvBeat
  <2>2. AgentsOK' /\ DownOK(DownFrame)' /\ HostsOK'
    BY ZenonT(30), <1>0, <1>2, QuietHosts DEF RecvBeat, AgentsOK, DownOK
  <2>3. SchedOK'
    <3> DEFINE gone == GivenUp(owner[s], Incoming(s).active)
    <3>1. \A j \in gone : job[j] \in Job
      BY ZenonT(30), <1>0 DEF GivenUp, SchedOK
    <3>2. job' = [j \in JobIds |->
                    IF j \in gone THEN [job[j] EXCEPT !.state = "FAILED", !.age = 0]
                    ELSE job[j]]
      BY ZenonT(30), <1>2 DEF RecvBeat
    <3>3. minted' = minted /\ via' = via
      BY ZenonT(30), <1>2 DEF RecvBeat
    <3> HIDE DEF gone
    <3>4. QED
      BY ZenonT(30), <1>0, <3>1, <3>2, <3>3, FailedEntry DEF SchedOK
  <2>4. QED
    BY <2>1, <2>2, <2>3, FramesSplit DEF TypesOK
<1>3. CASE RecvUpdate(s)
  <2>1. UpOK(UpFrame)'
    BY <1>0, <1>3, TakeOK, ZenonT(30) DEF RecvUpdate
  <2>2. AgentsOK' /\ DownOK(DownFrame)' /\ HostsOK'
    BY ZenonT(30), <1>0, <1>3, QuietHosts DEF RecvUpdate, AgentsOK, DownOK
  <2>3. SchedOK'
    <3>1. /\ Incoming(s).job \in JobIds
          /\ Incoming(s).state \in LiveKinds \cup Outcomes \cup {"FAILED"}
      BY <1>0, <1>3, HeadFrame DEF RecvUpdate
    <3>2. owner[s] \in Nodes
      BY ZenonT(30), <1>3, OwnerNode DEF RecvUpdate
    <3>3. Updated(Incoming(s).job, owner[s], Incoming(s).state) \in Job
      BY ZenonT(30), <1>0, <3>1, <3>2, UpdatedEntry
    <3>4. QED
      BY ZenonT(30), <1>0, <1>3, <3>1, <3>3 DEF RecvUpdate, SchedOK
  <2>4. QED
    BY <2>1, <2>2, <2>3, FramesSplit DEF TypesOK
<1>4. CASE HandlerReturns(s)
  <2>1. UpOK(UpFrame)'
    BY <1>0, <1>4, UnreadOK, ZenonT(30) DEF HandlerReturns, Unread
  <2>2. AgentsOK' /\ DownOK(DownFrame)' /\ HostsOK' /\ SchedOK'
    BY <1>0, <1>4, QuietHosts, QuietSched DEF HandlerReturns, AgentsOK, DownOK
  <2>3. QED
    BY <2>1, <2>2, FramesSplit DEF TypesOK
<1>5. QED
  BY <1>1, <1>2, <1>3, <1>4 DEF Handler

\* The frame an agent that serves reads next is a job.
LEMMA NextIsRun ==
  ASSUME FramesOK, AckedOnce, NEW n \in Nodes, Serving(n), Received(n)
  PROVE  /\ session[n] \in Streams /\ down[session[n]] \in Seq(DownFrame)
         /\ 1 \in DOMAIN down[session[n]] /\ NextFrame(n) = down[session[n]][1]
         /\ NextFrame(n).kind = "run" /\ NextFrame(n).job \in JobIds
<1>1. /\ session[n] \in Streams /\ session[n] # None /\ down[session[n]] \in Seq(DownFrame)
      /\ down[session[n]] # <<>>
  BY DEF FramesOK, ChanTypeOK, Received
<1>2. /\ 1 \in DOMAIN down[session[n]] /\ NextFrame(n) = down[session[n]][1]
      /\ NextFrame(n) \in DownFrame
  BY SMTT(30), <1>1, LenProperties, EmptySeq DEF NextFrame
<1>3. NextFrame(n).kind # "ack"
  BY <1>1, <1>2 DEF AckedOnce, NoAck
<1>4. QED
  BY <1>1, <1>2, <1>3 DEF DownFrame

\* What an agent says of a job.
LEMMA SaysType ==
  ASSUME FramesOK, SchedOK, UNCHANGED <<agent, session, schedVars>>, NEW n \in Nodes,
         NEW j \in JobIds, NEW state \in LiveKinds \cup Outcomes \cup {"FAILED"},
         Emit(n, JobUpdate(j, state)),
         down' = down \/ (Received(n) /\ Consume(n))
  PROVE  FramesOK' /\ SchedOK'
<1>0. AgentsOK /\ UpOK(UpFrame) /\ DownOK(DownFrame)
  BY FramesSplit
<1>1. JobUpdate(j, state) \in UpFrame
  BY DEF JobUpdate, UpFrame
<1>2. UpOK(UpFrame)'
  BY <1>0, <1>1, EmitOK, ZenonT(30)
<1>3. DownOK(DownFrame)'
  BY <1>0, ConsumeOK DEF DownOK
<1>4. QED
  BY <1>0, <1>2, <1>3, FramesSplit, QuietSched DEF AgentsOK

LEMMA AgentsTypes ==
  ASSUME TypesOK, AckedOnce, Agents
  PROVE  TypesOK'
<1>0. FramesOK /\ SchedOK /\ HostsOK /\ AgentsOK /\ UpOK(UpFrame) /\ DownOK(DownFrame)
  BY FramesSplit DEF TypesOK
<1>1. ASSUME NEW n \in Nodes, Connect(n) PROVE TypesOK'
  <2>1. PICK s \in Streams : Dial(s, n) /\ UNCHANGED <<schedVars, hostVars, faults>>
    BY <1>1, ConnectSlot, ZenonT(30)
  <2>2. QED
    BY <1>0, <2>1, AgentStepsOK, QuietHosts, QuietSched DEF FramesOK, TypesOK
<1>2. ASSUME NEW n \in Nodes, AwaitAck(n) \/ Reconnect(n) PROVE TypesOK'
  BY <1>0, <1>2, AgentStepsOK, QuietHosts, QuietSched DEF AwaitAck, Reconnect, FramesOK, TypesOK
<1>3. ASSUME NEW n \in Nodes, StartJob(n) PROVE TypesOK'
  <2> DEFINE j == NextFrame(n).job
  <2>1. /\ Received(n) /\ Consume(n) /\ Serving(n) /\ j \in JobIds
        /\ UNCHANGED <<agent, session, schedVars, runtime, faults>>
    BY <1>0, <1>3, NextIsRun DEF StartJob
  <2>2. CASE runtime[n]
    <3>1. /\ run' = [run EXCEPT ![n][j] = IF @ = "none" THEN "live" ELSE @] /\ up' = up
      BY <1>3, <2>2 DEF StartJob
    <3> HIDE DEF j
    <3>2. HostsOK'
      BY <1>0, <2>1, <3>1 DEF HostsOK
    <3>3. DownOK(DownFrame)'
      BY <1>0, <2>1, ConsumeOK
    <3>4. AgentsOK' /\ UpOK(UpFrame)' /\ SchedOK'
      BY <1>0, <2>1, <3>1, QuietSched DEF AgentsOK, UpOK
    <3>5. QED
      BY <3>2, <3>3, <3>4, FramesSplit DEF TypesOK
  <2>3. CASE ~runtime[n]
    <3>1. Emit(n, JobUpdate(j, "FAILED")) /\ run' = run
      BY <1>3, <2>3 DEF StartJob
    <3> HIDE DEF j
    <3>2. FramesOK' /\ SchedOK'
      BY <1>0, <2>1, <3>1, SaysType
    <3>3. HostsOK'
      BY <1>0, <2>1, <3>1, QuietHosts DEF hostVars
    <3>4. QED
      BY <3>2, <3>3 DEF TypesOK
  <2>4. QED
    BY <2>2, <2>3
<1>4. ASSUME NEW n \in Nodes, NEW j \in JobIds, NEW state \in LiveKinds, Report(n, j, state)
      PROVE  TypesOK'
  <2>1. FramesOK' /\ SchedOK'
    BY <1>0, <1>4, SaysType DEF Report
  <2>2. QED
    BY <1>0, <1>4, <2>1, QuietHosts DEF Report, TypesOK
<1>5. ASSUME NEW n \in Nodes, NEW j \in JobIds, NEW state \in Outcomes, Finish(n, j, state)
      PROVE  TypesOK'
  <2>1. FramesOK' /\ SchedOK'
    BY <1>0, <1>5, SaysType DEF Finish
  <2>2. HostsOK'
    BY <1>0, <1>5 DEF Finish, HostsOK
  <2>3. QED
    BY <2>1, <2>2 DEF TypesOK
<1>6. ASSUME NEW n \in Nodes, NEW j \in JobIds, RemoveJob(n, j) PROVE TypesOK'
  <2>1. HostsOK'
    BY <1>0, <1>6 DEF RemoveJob, HostsOK
  <2>2. QED
    BY <1>0, <1>6, <2>1, QuietFrames, QuietSched DEF RemoveJob, TypesOK
<1>7. ASSUME NEW n \in Nodes, Beat(n) PROVE TypesOK'
  <2> DEFINE f == [kind |-> "beat", active |-> {j \in JobIds : run[n][j] # "none"}, late |-> FALSE]
  <2>1. f \in UpFrame /\ EmitBeat(n, f)
    BY <1>7 DEF UpFrame, Beat
  <2> HIDE DEF f
  <2>2. UpOK(UpFrame)'
    BY <1>0, <2>1, EmitOK, ZenonT(30)
  <2>3. AgentsOK' /\ DownOK(DownFrame)' /\ HostsOK' /\ SchedOK'
    BY <1>0, <1>7, QuietHosts, QuietSched DEF Beat, AgentsOK, DownOK
  <2>4. QED
    BY <2>2, <2>3, FramesSplit DEF TypesOK
<1>8. QED
  BY <1>1, <1>2, <1>3, <1>4, <1>5, <1>6, <1>7 DEF Agents, RunOnce

LEMMA FaultsTypes ==
  ASSUME TypesOK, Faults
  PROVE  TypesOK'
<1>0. FramesOK /\ SchedOK /\ HostsOK /\ AgentsOK /\ UpOK(UpFrame) /\ DownOK(DownFrame)
  BY FramesSplit DEF TypesOK
<1>1. ASSUME Fault PROVE faults' \in 0..MaxFaults
  BY <1>0, <1>1, JobsAssumption DEF Fault, HostsOK
<1>2. ASSUME NEW s \in Streams, LinkFailure(s) PROVE TypesOK'
  <2>1. HostsOK'
    BY <1>0, <1>1, <1>2, ZenonT(30) DEF LinkFailure, HostsOK, hostVars
  <2>2. QED
    BY <1>0, <1>2, <2>1, QuietFrames, QuietSched DEF LinkFailure, TypesOK
<1>3. ASSUME NEW n \in Nodes, AgentRestart(n) PROVE TypesOK'
  <2>1. FramesOK'
    BY <1>0, <1>3, AgentStepsOK DEF AgentRestart, FramesOK
  <2>2. HostsOK'
    BY <1>0, <1>1, <1>3 DEF AgentRestart, HostsOK
  <2>3. QED
    BY <1>0, <1>3, <2>1, <2>2, QuietSched DEF AgentRestart, TypesOK
<1>4. CASE CoordinatorRestart
  <2>1. AgentsOK' /\ DownOK(DownFrame)'
    BY <1>0, <1>4 DEF CoordinatorRestart, AgentsOK, DownOK
  <2>2. <<>> \in Seq(UpFrame) /\ Len(<<>>) = 0
    OBVIOUS
  <2>3. UpOK(UpFrame)'
    BY <1>4, <2>2, ChannelsAssumption DEF CoordinatorRestart, UpOK
  <2>4. SchedOK'
    BY <1>0, <1>4 DEF CoordinatorRestart, SchedOK
  <2>5. HostsOK'
    BY <1>0, <1>1, <1>4, ZenonT(30) DEF CoordinatorRestart, HostsOK, hostVars
  <2>6. QED
    BY <2>1, <2>3, <2>4, <2>5, FramesSplit DEF TypesOK
<1>5. QED
  BY <1>2, <1>3, <1>4 DEF Faults

LEMMA TimeTypes ==
  ASSUME TypesOK, TimePasses
  PROVE  TypesOK'
<1>0. FramesOK /\ SchedOK /\ HostsOK /\ AgentsOK /\ UpOK(UpFrame) /\ DownOK(DownFrame)
  BY FramesSplit DEF TypesOK
<1>1. /\ \A f \in UpFrame : [f EXCEPT !.late = TRUE] \in UpFrame
      /\ \A f \in DownFrame : [f EXCEPT !.late = TRUE] \in DownFrame
  BY LateUp, LateDown
<1>2. /\ \A s \in Streams : Lately(up[s]) \in Seq(UpFrame) /\ Len(Lately(up[s])) = Len(up[s])
      /\ \A s \in Streams : Lately(down[s]) \in Seq(DownFrame) /\ Len(Lately(down[s])) = Len(down[s])
  BY ZenonT(30), <1>0, <1>1, LatelyType DEF UpOK, DownOK
<1>3. UpOK(UpFrame)' /\ DownOK(DownFrame)'
  BY <1>0, <1>2 DEF TimePasses, UpOK, DownOK
<1>4. AgentsOK' /\ HostsOK'
  BY <1>0, QuietHosts DEF TimePasses, AgentsOK
<1>5. SchedOK'
  <2>1. \A j \in JobIds : job[j] # None => [job[j] EXCEPT !.age = Older(@, Grace - 1)] \in Job
    BY <1>0, OlderEntry DEF SchedOK
  <2>2. job' = [j \in JobIds |-> IF job[j] = None THEN None
                                ELSE [job[j] EXCEPT !.age = Older(@, Grace - 1)]]
    BY DEF TimePasses
  <2>3. QED
    BY <1>0, <2>1, <2>2 DEF TimePasses, SchedOK
<1>6. QED
  BY <1>3, <1>4, <1>5, FramesSplit DEF TypesOK

\* Every step keeps the types.
LEMMA TypesStep ==
  ASSUME RegIInv, TypesOK, AckedOnce, [JobNext]_jobVars
  PROVE  TypesOK'
<1>1. CASE ReaperPass \/ UNCHANGED jobVars
  <2>1. UNCHANGED <<chanVars, schedVars, hostVars, faults>>
    BY <1>1 DEF ReaperPass, jobVars
  <2>2. QED
    BY <2>1, QuietFrames, QuietSched, QuietHosts DEF TypesOK
<1>2. RegTypeOK
  BY DEF RegIInv
<1>3. QED
  BY <1>1, <1>2, SchedulingTypes, HandlerTypes, AgentsTypes, FaultsTypes, TimeTypes
  DEF JobNext, Handling

-----------------------------------------------------------------------------
(* The ends of the streams stay known. *)

LEMMA OwnedKept ==
  ASSUME StreamsOwned, Steady,
         \A s \in Streams : up'[s] # <<>> => up[s] # <<>> \/ link[s],
         \A s \in Streams : down'[s] # <<>> => down[s] # <<>> \/ \E n \in Nodes : session[n] = s,
         session \in [Nodes -> Streams \cup {None}]
  PROVE  StreamsOwned'
BY DEF StreamsOwned, Steady

\* A queue that was empty and got nothing is empty.
LEMMA NothingFromNothing ==
  ASSUME FramesOK, FramesOK'
  PROVE  /\ UpRest({}) => \A s \in Streams : up'[s] # <<>> => up[s] # <<>>
         /\ DownRest({}) => \A s \in Streams : down'[s] # <<>> => down[s] # <<>>
<1>1. \A s \in Streams : /\ up[s] \in Seq(UpFrame) /\ down[s] \in Seq(DownFrame)
                         /\ up'[s] \in Seq(UpFrame) /\ down'[s] \in Seq(DownFrame)
  BY DEF FramesOK, ChanTypeOK
<1>2. QED
  BY <1>1, RestNonempty DEF UpRest, DownRest

\* An agent's frames go where there is a transport, the coordinator's where
\* there is an agent.
LEMMA NewFrames ==
  ASSUME FramesOK
  PROVE  /\ \A n \in Nodes : \A f : Emit(n, f) \/ EmitBeat(n, f) =>
              \A s \in Streams : up'[s] # <<>> => up[s] # <<>> \/ link[s]
         /\ \A t \in Streams : \A f : Put(t, f) =>
              \A s \in Streams : down'[s] # <<>> => down[s] # <<>> \/ \E n \in Nodes : session[n] = s
<1>1. ASSUME NEW n \in Nodes, NEW f, Emit(n, f) \/ EmitBeat(n, f), NEW s \in Streams,
             up'[s] # <<>>
      PROVE  up[s] # <<>> \/ link[s]
  <2>1. up \in [Streams -> Seq(UpFrame)]
    BY DEF FramesOK, ChanTypeOK
  <2>2. CASE up' = up
    BY <1>1, <2>2
  <2>3. CASE link[session[n]] /\ up' = [up EXCEPT ![session[n]] = Append(@, f)]
    <3>1. s # session[n] => up'[s] = up[s]
      BY <2>1, <2>3, ZenonT(30)
    <3>2. QED
      BY <1>1, <2>3, <3>1
  <2>4. QED
    BY <1>1, <2>2, <2>3 DEF Emit, EmitBeat
<1>2. ASSUME NEW t \in Streams, NEW f, Put(t, f), NEW s \in Streams, down'[s] # <<>>
      PROVE  down[s] # <<>> \/ \E n \in Nodes : session[n] = s
  <2>1. down \in [Streams -> Seq(DownFrame)]
    BY DEF FramesOK, ChanTypeOK
  <2>2. CASE ~Heard(t)
    BY <1>2, <2>2 DEF Put
  <2>3. CASE Heard(t)
    <3>1. s # t => down'[s] = down[s]
      BY <1>2, <2>1, <2>3 DEF Put
    <3>2. QED
      BY <1>2, <2>3, <3>1 DEF Heard
  <2>4. QED
    BY <2>2, <2>3
<1>3. QED
  BY <1>1, <1>2

\* An agent has a stream unless it is off.
OffAlone == \A n \in Nodes : agent[n] = "off" <=> session[n] = None

\* Every step keeps an agent without a session off.
LEMMA OffAloneStep ==
  ASSUME FramesOK, OffAlone, [JobNext]_jobVars
  PROVE  OffAlone'
<1>0. agent \in [Nodes -> {"off", "await", "serve", "stuck"}] /\ session \in [Nodes -> Streams \cup {None}]
  BY DEF FramesOK, ChanTypeOK
<1>1. CASE UNCHANGED <<agent, session>>
  BY <1>1 DEF OffAlone
<1>2. ASSUME NEW n \in Nodes, Connect(n) PROVE OffAlone'
  <2>1. PICK s \in Streams : Dial(s, n)
    BY <1>2, ConnectSlot, ZenonT(30)
  <2>2. QED
    BY <1>0, <2>1, RegistryAssumption DEF OffAlone, Dial
<1>3. ASSUME NEW n \in Nodes, AwaitAck(n) \/ Reconnect(n) \/ AgentRestart(n) PROVE OffAlone'
  BY <1>0, <1>3
  DEF OffAlone, AwaitAck, FirstFrame, AwaitBroken, Reconnect, SessionEnds, AgentRestart, AgentDies
<1>4. CASE Scheduling \/ Handling
  <2>1. UNCHANGED <<agent, session>>
    BY ZenonT(30), <1>4 DEF Scheduling, RunJob, SendJob, Handling, Handler, AckOut, RecvBeat, RecvUpdate,
                HandlerReturns, chanVars
  <2>2. QED
    BY <1>1, <2>1
<1>5. ASSUME NEW n \in Nodes, NEW j \in JobIds, NEW state,
             StartJob(n) \/ Beat(n) \/ Report(n, j, state) \/ Finish(n, j, state) \/ RemoveJob(n, j)
      PROVE  OffAlone'
  BY <1>1, <1>5 DEF StartJob, Beat, Report, Finish, RemoveJob, chanVars
<1>6. ASSUME NEW n \in Nodes, StartJob(n) \/ Beat(n) PROVE OffAlone'
  BY <1>1, <1>6 DEF StartJob, Beat
<1>7. CASE CoordinatorRestart \/ (\E s \in Streams : LinkFailure(s)) \/ ReaperPass \/ TimePasses
           \/ UNCHANGED jobVars
  BY <1>1, <1>7 DEF CoordinatorRestart, LinkFailure, ReaperPass, TimePasses, jobVars, chanVars
<1>8. QED
  BY <1>2, <1>3, <1>4, <1>5, <1>6, <1>7 DEF JobNext, Agents, RunOnce, Faults

\* Every step keeps streams in use with their owners.
LEMMA StreamsOwnedStep ==
  ASSUME RegTypeOK, TypesOK, TypesOK', OffAlone, StreamsOwned, [JobNext]_jobVars
  PROVE  StreamsOwned'
<1>0. /\ FramesOK /\ FramesOK' /\ SchedOK
      /\ session \in [Nodes -> Streams \cup {None}]
      /\ up \in [Streams -> Seq(UpFrame)] /\ down \in [Streams -> Seq(DownFrame)]
  BY DEF TypesOK, FramesOK, ChanTypeOK
<1>a. ASSUME Steady,
             UpRest({}) \/ \E n \in Nodes : \E f : Emit(n, f) \/ EmitBeat(n, f),
             DownRest({}) \/ \E s \in Streams : \E f : Put(s, f)
      PROVE  StreamsOwned'
  <2>1. \A s \in Streams : up'[s] # <<>> => up[s] # <<>> \/ link[s]
    BY <1>0, <1>a, NothingFromNothing, NewFrames
  <2>2. \A s \in Streams : down'[s] # <<>> => down[s] # <<>> \/ \E n \in Nodes : session[n] = s
    BY ZenonT(30), <1>0, <1>a, NothingFromNothing, NewFrames
  <2>3. QED
    BY ZenonT(30), <1>0, <1>a, <2>1, <2>2, OwnedKept
<1>b. ASSUME Steady, UpRest({}), DownRest({}) PROVE StreamsOwned'
  BY <1>a, <1>b
<1>1. ASSUME NEW j \in JobIds, NEW n \in Nodes, RunJob(j, n) PROVE StreamsOwned'
  BY ZenonT(30), <1>0, <1>1, <1>b, SteadySteps, RestSteps DEF RunJob
<1>2. ASSUME NEW j \in JobIds, NEW ok \in BOOLEAN, SendJob(j, ok) PROVE StreamsOwned'
  <2>1. Steady /\ UpRest({}) /\ via[j] \in Streams
    BY ZenonT(30), <1>0, <1>2, SteadySteps, RestSteps DEF SendJob, SchedOK
  <2>2. (\E f : Put(via[j], f)) \/ DownRest({})
    BY <1>0, <1>2, DownSame, FramesSplit DEF SendJob
  <2>3. QED
    BY <1>a, <2>1, <2>2
<1>3. ASSUME NEW s \in Streams, AckOut(s) PROVE StreamsOwned'
  <2>1. Steady /\ UpRest({}) /\ \E f : Put(s, f)
    BY ZenonT(30), <1>0, <1>3, SteadySteps, RestSteps DEF AckOut
  <2>2. QED
    BY <1>a, <2>1
<1>4. ASSUME NEW s \in Streams, RecvBeat(s) \/ RecvUpdate(s) PROVE StreamsOwned'
  BY ZenonT(30), <1>0, <1>4, <1>b, SteadySteps, RestSteps
<1>5. ASSUME NEW s \in Streams, HandlerReturns(s) PROVE StreamsOwned'
  <2>1. /\ handler' = [handler EXCEPT ![s] = "none"] /\ owner' = [owner EXCEPT ![s] = None]
        /\ link' = [link EXCEPT ![s] = FALSE] /\ up' = [up EXCEPT ![s] = <<>>]
        /\ UNCHANGED <<session, down>>
    BY <1>5 DEF HandlerReturns, AckFails, StreamEnds, Return, Unread
  <2>2. \A t \in Streams :
          IF t = s THEN handler'[t] = "none" /\ ~link'[t] /\ up'[t] = <<>>
          ELSE /\ handler'[t] = handler[t] /\ owner'[t] = owner[t]
               /\ link'[t] = link[t] /\ up'[t] = up[t]
    BY <1>0, <2>1, ZenonT(30) DEF RegTypeOK
  <2>3. QED
    <3>1. \A t \in Streams : link'[t] \/ up'[t] # <<>> => handler'[t] # "none"
      BY ZenonT(30), <2>2 DEF StreamsOwned
    <3>2. ASSUME NEW m \in Nodes, session[m] # None, handler'[session[m]] # "none"
          PROVE  owner'[session[m]] = m
      <4>1. session[m] \in Streams
        BY <1>0, <3>2
      <4>2. QED
        BY ZenonT(30), <2>2, <3>2, <4>1 DEF StreamsOwned
    <3>3. QED
      BY ZenonT(30), <2>1, <3>1, <3>2 DEF StreamsOwned
<1>6. ASSUME NEW n \in Nodes, Connect(n) PROVE StreamsOwned'
  <2>1. PICK s \in Streams : Dial(s, n) /\ Free(s)
    BY <1>6, ConnectSlot, ZenonT(30)
  <2>2. /\ session' = [session EXCEPT ![n] = s]
        /\ up' = [up EXCEPT ![s] = <<>>] /\ down' = [down EXCEPT ![s] = <<>>]
        /\ handler' = [handler EXCEPT ![s] = "acking"] /\ owner' = [owner EXCEPT ![s] = n]
        /\ agent[n] = "off"
    BY <2>1 DEF Dial, Register
  <2>3. \A t \in Streams : t = s \/ (link'[t] => link[t])
    BY ZenonT(30), <2>1 DEF Dial, Register
  <2>4. \A t \in Streams :
          IF t = s THEN handler'[t] # "none" /\ owner'[t] = n /\ up'[t] = <<>> /\ down'[t] = <<>>
          ELSE /\ handler'[t] = handler[t] /\ owner'[t] = owner[t]
               /\ up'[t] = up[t] /\ down'[t] = down[t]
    BY <1>0, <2>2 DEF RegTypeOK
  <2>5. session'[n] = s /\ \A m \in Nodes \ {n} : session'[m] = session[m] /\ session[m] # s
    BY <1>0, <2>1, <2>2 DEF Free
  <2>6. session[n] = None
    BY <2>1 DEF Dial, OffAlone
  <2>7. (\A t \in Streams : link[t] \/ up[t] # <<>> => handler[t] # "none")'
    BY ZenonT(30), <2>3, <2>4 DEF StreamsOwned
  <2>8. ASSUME NEW m \in Nodes, session'[m] # None, handler'[session'[m]] # "none"
        PROVE  owner'[session'[m]] = m
    <3>1. CASE m = n
      BY <2>4, <2>5, <3>1
    <3>2. CASE m # n
      <4>1. session'[m] = session[m] /\ session[m] \in Streams /\ session[m] # s
        BY <1>0, <2>5, <2>8, <3>2
      <4>2. QED
        BY ZenonT(30), <2>4, <2>8, <4>1 DEF StreamsOwned
    <3>3. QED
      BY <3>1, <3>2
  <2>9. ASSUME NEW t \in Streams, down'[t] # <<>> PROVE \E m \in Nodes : session'[m] = t
    <3>1. t # s /\ down[t] # <<>>
      BY <2>4, <2>9
    <3>2. PICK m \in Nodes : session[m] = t
      BY <3>1 DEF StreamsOwned
    <3>3. m # n
      BY <2>6, <3>2, RegistryAssumption
    <3>4. QED
      BY <2>5, <3>2, <3>3
  <2>10. QED
    BY <2>7, <2>8, <2>9 DEF StreamsOwned
<1>7. ASSUME NEW n \in Nodes, AwaitAck(n) \/ \E j \in JobIds : RemoveJob(n, j) PROVE StreamsOwned'
  <2>1. Steady /\ UpRest({}) /\ DownRest({})
    BY ZenonT(30), <1>0, <1>7, SteadySteps, RestSteps DEF RemoveJob
  <2>2. QED
    BY <1>b, <2>1
<1>8. ASSUME NEW n \in Nodes, Reconnect(n) \/ AgentRestart(n) PROVE StreamsOwned'
  <2>1. /\ session' = [session EXCEPT ![n] = None] /\ UNCHANGED <<handler, owner, up>>
        /\ link' = link \/ link' = [link EXCEPT ![session[n]] = FALSE]
        /\ down' = [down EXCEPT ![session[n]] = <<>>] \/ (session[n] = None /\ down' = down)
    BY <1>8 DEF Reconnect, SessionEnds, AgentRestart, AgentDies, Ignore, regVars
  <2>2. \A t \in Streams : link'[t] => link[t]
    BY <2>1, ZenonT(30) DEF RegTypeOK
  <2>3. \A t \in Streams : down'[t] # <<>> => t # session[n] /\ down[t] # <<>>
    BY <1>0, <2>1, RegistryAssumption
  <2>4. \A m \in Nodes : session'[m] = IF m = n THEN None ELSE session[m]
    BY <1>0, <2>1
  <2>5. QED
    BY <1>0, <2>1, <2>2, <2>3, <2>4, ZenonT(30) DEF StreamsOwned
<1>9. ASSUME NEW n \in Nodes, Beat(n) PROVE StreamsOwned'
  <2>1. Steady /\ DownRest({})
    BY <1>0, <1>9, SteadySteps, RestSteps
  <2>2. \E f : EmitBeat(n, f)
    BY <1>9 DEF Beat
  <2>3. QED
    BY <1>a, <2>1, <2>2
<1>10. ASSUME NEW n \in Nodes, StartJob(n) PROVE StreamsOwned'
  <2>1. Steady /\ DownRest({})
    BY <1>0, <1>10, SteadySteps, RestSteps
  <2>2. up' = up \/ \E f : Emit(n, f)
    BY <1>10 DEF StartJob
  <2>3. UpRest({}) \/ \E f : Emit(n, f)
    BY <1>0, <2>2, FramesSplit, UpSame
  <2>4. QED
    BY <1>a, <2>1, <2>3
<1>11. ASSUME NEW n \in Nodes, NEW j \in JobIds, NEW state, Report(n, j, state) \/ Finish(n, j, state)
      PROVE  StreamsOwned'
  <2>1. Steady /\ DownRest({})
    BY ZenonT(30), <1>0, <1>11, SteadySteps, RestSteps
  <2>2. \E f : Emit(n, f)
    BY <1>11 DEF Report, Finish
  <2>3. QED
    BY <1>a, <2>1, <2>2
<1>12. CASE CoordinatorRestart
  <2>1. /\ \A s \in Streams : ~link'[s] /\ up'[s] = <<>> /\ handler'[s] = "none"
        /\ UNCHANGED <<session, down>>
    BY <1>12 DEF CoordinatorRestart, Restart
  <2>2. \A m \in Nodes : session[m] # None => session[m] \in Streams
    BY <1>0
  <2>3. QED
    BY ZenonT(30), <2>1, <2>2 DEF StreamsOwned
<1>13. ASSUME NEW s \in Streams, LinkFailure(s) PROVE StreamsOwned'
  <2>1. Steady /\ UpRest({}) /\ DownRest({})
    BY ZenonT(30), <1>0, <1>13, SteadySteps, RestSteps DEF LinkFailure
  <2>2. QED
    BY <1>b, <2>1
<1>14. CASE ReaperPass \/ TimePasses \/ UNCHANGED jobVars
  <2>1. Steady /\ UpRest({}) /\ DownRest({})
    BY ZenonT(30), <1>0, <1>14, SteadySteps, RestSteps DEF ReaperPass, jobVars
  <2>2. QED
    BY <1>b, <2>1
<1>15. QED
  BY <1>1, <1>2, <1>3, <1>4, <1>5, <1>6, <1>7, <1>8, <1>9, <1>10, <1>11, <1>12, <1>13, <1>14
  DEF JobNext, Scheduling, Handling, Handler, Agents, RunOnce, Faults
=============================================================================
