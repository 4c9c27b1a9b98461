-------------------------------- MODULE Jobs --------------------------------
(***************************************************************************)
(* The job scheduler (coordinator/internal/scheduler) with the registry,   *)
(* the stream handlers and the agents that run the jobs (startJob, runJob, *)
(* emit, heartbeatLoop of agent/internal/client).  What a job's runner     *)
(* reports is a JobStream: live updates, then one terminal one.            *)
(*                                                                         *)
(* Each method of the scheduler is one critical section.  age is now -     *)
(* LastUpdate in ticks and saturates at Grace, reconcileGrace.  Messages   *)
(* are timely: a Send is through within the tick in which it began, and a  *)
(* frame is read, or lost with its reader, within two, also one that had   *)
(* arrived on a stream that broke after it.  So a dispatch and a heartbeat *)
(* together cross fewer ticks than Grace.                                  *)
(***************************************************************************)
EXTENDS Channels

CONSTANTS
  JobIds,     \* job ids, each minted by at most one RunJob
  Grace,      \* reconcileGrace, in ticks
  LiveKinds,  \* what a runner reports of a live job; LOG has no state
  Outcomes,   \* and of one that is over
  MaxFaults   \* bound: transport failures, crashes and restarts

ASSUME JobsAssumption ==
  /\ None \notin JobIds
  /\ Grace \in Nat \ {0}
  /\ LiveKinds \subseteq {"RUNNING", "LOG"}
  /\ Outcomes \subseteq {"SUCCEEDED", "FAILED", "CANCELLED"}
  /\ MaxFaults \in Nat
  /\ FALSE \in Addrs

VARIABLES
  minted,     \* job ids given out so far
  job,        \* Scheduler.jobs, None where there is no entry
  via,        \* the handle a RunJob call is about to send on
  runtime,    \* whether the node's agent has a container runtime
  run,        \* Client.jobs of each agent: over is a job whose final update
              \* is out while runJob has not yet removed it
  lost,       \* history: jobs that Reconcile has failed
  faults      \* faults so far

schedVars == <<minted, job, via, lost>>
hostVars  == <<runtime, run>>
jobVars   == <<regVars, chanVars, schedVars, hostVars, faults>>

JobStates == {"UNSPECIFIED", "PENDING", "RUNNING", "SUCCEEDED", "FAILED", "CANCELLED"}

Job == [node : Nodes, state : JobStates, age : 0..Grace]

ASSUME NoneIsNoJob == None \notin Job

\* late: a tick has passed since the frame was sent.
UpFrame ==
  [kind : {"beat"}, active : SUBSET JobIds, late : BOOLEAN]
    \cup [kind : {"update"}, job : JobIds, state : LiveKinds \cup Outcomes \cup {"FAILED"},
          late : BOOLEAN]

DownFrame ==
  [kind : {"ack"}, late : BOOLEAN] \cup [kind : {"run"}, job : JobIds, late : BOOLEAN]

JobTypeOK ==
  /\ RegTypeOK
  /\ ChanTypeOK(UpFrame, DownFrame)
  /\ minted \subseteq JobIds
  /\ job \in [JobIds -> Job \cup {None}]
  /\ via \in [JobIds -> Streams \cup {None}]
  /\ runtime \in [Nodes -> BOOLEAN]
  /\ run \in [Nodes -> [JobIds -> {"none", "live", "over"}]]
  /\ lost \subseteq minted
  /\ faults \in 0..MaxFaults

JobInit ==
  /\ RegInit /\ ChanInit
  /\ minted = {}
  /\ job = [j \in JobIds |-> None]
  /\ via = [j \in JobIds |-> None]
  /\ runtime \in [Nodes -> BOOLEAN]
  /\ run = [n \in Nodes |-> [j \in JobIds |-> "none"]]
  /\ lost = {}
  /\ faults = 0

-----------------------------------------------------------------------------
(* The scheduler. *)

\* Faulty variant: the default case is taken for terminal.
IsTerminalUnlessKnown(state) == state \notin {"PENDING", "RUNNING"}

IsTerminal(state) == state \in {"SUCCEEDED", "FAILED", "CANCELLED"}

\* RunJob up to the send: the registry's snapshot gives the handle, the entry
\* is made before the send.  Nobody knows the id before that, so the two
\* critical sections are one step.  A node that is unknown or offline is
\* refused, which changes nothing.
RunJob(j, n) ==
  /\ j \notin minted
  /\ n \in known /\ status[n] = "ONLINE" /\ send[n] # None
  /\ minted' = minted \cup {j}
  /\ job' = [job EXCEPT ![j] = [node |-> n, state |-> "PENDING", age |-> 0]]
  /\ via' = [via EXCEPT ![j] = send[n]]
  /\ UNCHANGED <<regVars, chanVars, lost, hostVars, faults>>

\* The send; when it fails the entry is deleted.
SendJob(j, ok) ==
  /\ via[j] # None
  /\ CanSend(via[j], ok)
  /\ IF ok
     THEN /\ Put(via[j], [kind |-> "run", job |-> j, late |-> FALSE])
          /\ UNCHANGED job
     ELSE /\ job' = [job EXCEPT ![j] = None]
          /\ UNCHANGED down
  /\ via' = [via EXCEPT ![j] = None]
  /\ UNCHANGED <<regVars, agent, session, up, minted, lost, hostVars, faults>>

\* OnJobUpdate: an unknown job is adopted, any known state is overwritten.
Updated(j, n, state) ==
  LET old == IF job[j] = None THEN [node |-> n, state |-> "UNSPECIFIED", age |-> 0]
             ELSE job[j]
  IN  [old EXCEPT !.state = IF state = "LOG" THEN @ ELSE state, !.age = 0]

\* Faulty variant: the grace period is one tick short.
QuietEarly(j) == job[j].age >= Grace - 1

\* !LastUpdate.After(now - reconcileGrace)
Quiet(j) == job[j].age >= Grace

\* Faulty variant: the states are not looked at.
GivenUpAnyState(n, active) ==
  {j \in JobIds \ active : job[j] # None /\ job[j].node = n /\ Quiet(j)}

\* What Reconcile fails on a heartbeat of node n that lists active.
GivenUp(n, active) ==
  {j \in JobIds \ active :
     job[j] # None /\ job[j].node = n /\ ~IsTerminal(job[j].state) /\ Quiet(j)}

-----------------------------------------------------------------------------
(* The Connect handler: messages in the order of the stream. *)

Incoming(s) == Head(up[s])

\* Touch, then Reconcile.
RecvBeat(s) ==
  /\ Arrived(s) /\ Incoming(s).kind = "beat"
  /\ Heartbeat(s, FALSE)
  /\ LET gone == GivenUp(owner[s], Incoming(s).active)
     IN  /\ job' = [j \in JobIds |->
                      IF j \in gone THEN [job[j] EXCEPT !.state = "FAILED", !.age = 0]
                      ELSE job[j]]
         /\ lost' = lost \cup gone
  /\ Take(s)
  /\ UNCHANGED <<agent, session, down, minted, via, hostVars, faults>>

RecvUpdate(s) ==
  /\ handler[s] = "serving"
  /\ Arrived(s) /\ Incoming(s).kind = "update"
  /\ job' = [job EXCEPT ![Incoming(s).job] =
               Updated(Incoming(s).job, owner[s], Incoming(s).state)]
  /\ Take(s)
  /\ UNCHANGED <<regVars, agent, session, down, minted, via, lost, hostVars, faults>>

AckOut(s) ==
  /\ SendAck(s)
  /\ Put(s, [kind |-> "ack", late |-> FALSE])
  /\ CanSend(s, TRUE)
  /\ UNCHANGED <<agent, session, up, schedVars, hostVars, faults>>

HandlerReturns(s) ==
  /\ AckFails(s) \/ StreamEnds(s)
  /\ Unread(s)
  /\ UNCHANGED <<agent, session, down, schedVars, hostVars, faults>>

ReaperPass == Reap /\ UNCHANGED <<chanVars, schedVars, hostVars, faults>>

-----------------------------------------------------------------------------
(* The agents. *)

Frames(q) == {q[i] : i \in DOMAIN q}

\* A stream slot is not used again while a RunJob call holds its handle.
FreeSlots == {s \in Streams : Free(s) /\ \A j \in JobIds : via[j] # s}

\* Slots differ in name only, so any free one will do.
Connect(n) ==
  /\ FreeSlots # {}
  /\ Dial(CHOOSE s \in FreeSlots : TRUE, n)
  /\ UNCHANGED <<schedVars, hostVars, faults>>

AwaitAck(n) ==
  /\ FirstFrame(n) \/ AwaitBroken(n)
  /\ UNCHANGED <<schedVars, hostVars, faults>>

Reconnect(n) == SessionEnds(n) /\ UNCHANGED <<schedVars, hostVars, faults>>

JobUpdate(j, state) == [kind |-> "update", job |-> j, state |-> state, late |-> FALSE]

\* startJob: without a runtime the job is failed at once; a duplicate is
\* ignored.
StartJob(n) ==
  /\ Serving(n) /\ Received(n)
  /\ LET j == NextFrame(n).job
     IN  IF runtime[n]
         THEN /\ run' = [run EXCEPT ![n][j] = IF @ = "none" THEN "live" ELSE @]
              /\ UNCHANGED up
         ELSE Emit(n, JobUpdate(j, "FAILED")) /\ UNCHANGED run
  /\ Consume(n)
  /\ UNCHANGED <<regVars, agent, session, schedVars, runtime, faults>>

\* runJob forwards what the runner reports.
Report(n, j, state) ==
  /\ run[n][j] = "live"
  /\ Emit(n, JobUpdate(j, state))
  /\ UNCHANGED <<regVars, agent, session, down, schedVars, hostVars, faults>>

\* The terminal update, or the FAILED of a runner that does not start.
Finish(n, j, state) ==
  /\ run[n][j] = "live"
  /\ Emit(n, JobUpdate(j, state))
  /\ run' = [run EXCEPT ![n][j] = "over"]
  /\ UNCHANGED <<regVars, agent, session, down, schedVars, runtime, faults>>

\* The deferred removeJob.
RemoveJob(n, j) ==
  /\ run[n][j] = "over"
  /\ run' = [run EXCEPT ![n][j] = "none"]
  /\ UNCHANGED <<regVars, chanVars, schedVars, runtime, faults>>

\* heartbeatLoop: active_job_ids is sampled and the heartbeat queued.  Bound:
\* one heartbeat under way at a time.
Beat(n) ==
  /\ Serving(n) /\ \A f \in Frames(up[session[n]]) : f.kind # "beat"
  /\ EmitBeat(n, [kind |-> "beat", active |-> {j \in JobIds : run[n][j] # "none"},
                  late |-> FALSE])
  /\ UNCHANGED <<regVars, agent, session, down, schedVars, hostVars, faults>>

-----------------------------------------------------------------------------
(* Time and faults. *)

Lately(q) == [i \in DOMAIN q |-> [q[i] EXCEPT !.late = TRUE]]

HasLate(q) == \E i \in DOMAIN q : q[i].late

Timely ==
  /\ \A s \in Streams : ~HasLate(up[s])
  /\ \A n \in Nodes : session[n] # None => ~HasLate(down[session[n]])
  /\ \A j \in JobIds : via[j] = None

TimePasses ==
  /\ Timely
  /\ Tick
  /\ job' = [j \in JobIds |-> IF job[j] = None THEN None
                              ELSE [job[j] EXCEPT !.age = Older(@, Grace - 1)]]
  /\ up' = [s \in Streams |-> Lately(up[s])]
  /\ down' = [s \in Streams |-> Lately(down[s])]
  /\ UNCHANGED <<agent, session, minted, via, lost, hostVars, faults>>

Fault == faults < MaxFaults /\ faults' = faults + 1

LinkFailure(s) == Fault /\ LinkBreaks(s) /\ UNCHANGED <<chanVars, schedVars, hostVars>>

\* The agent's jobs end with it.
AgentRestart(n) ==
  /\ Fault
  /\ AgentDies(n)
  /\ run' = [run EXCEPT ![n] = [j \in JobIds |-> "none"]]
  /\ UNCHANGED <<schedVars, runtime>>

\* The job table is in memory only; the agents' jobs go on.
CoordinatorRestart ==
  /\ Fault
  /\ Restart
  /\ job' = [j \in JobIds |-> None]
  /\ via' = [j \in JobIds |-> None]
  /\ up' = [s \in Streams |-> <<>>]
  /\ lost' = {}
  /\ UNCHANGED <<agent, session, down, minted, hostVars>>

Scheduling == \E j \in JobIds : (\E n \in Nodes : RunJob(j, n)) \/ \E ok \in BOOLEAN : SendJob(j, ok)

Handler(s) == AckOut(s) \/ RecvBeat(s) \/ RecvUpdate(s) \/ HandlerReturns(s)

Handling == \E s \in Streams : Handler(s)

RunOnce(n) ==
  Connect(n) \/ AwaitAck(n) \/ Reconnect(n) \/ StartJob(n)

Agents ==
  \E n \in Nodes :
    \/ RunOnce(n) \/ Beat(n)
    \/ \E j \in JobIds :
         \/ \E state \in LiveKinds : Report(n, j, state)
         \/ \E state \in Outcomes : Finish(n, j, state)
         \/ RemoveJob(n, j)

Faults ==
  \/ \E s \in Streams : LinkFailure(s)
  \/ \E n \in Nodes : AgentRestart(n)
  \/ CoordinatorRestart

JobNext == Scheduling \/ Handling \/ Agents \/ Faults \/ ReaperPass \/ TimePasses

JobSpec == JobInit /\ [][JobNext]_jobVars

\* The clock, the handlers, the sends and the agents' sessions run on; nothing
\* is asked of the runners.
JobFairness ==
  /\ WF_jobVars(TimePasses) /\ WF_jobVars(ReaperPass)
  /\ \A s \in Streams : WF_jobVars(Handler(s))
  /\ \A j \in JobIds : WF_jobVars(\E ok \in BOOLEAN : SendJob(j, ok))
  /\ \A n \in Nodes :
       /\ WF_jobVars(RunOnce(n)) /\ WF_jobVars(Beat(n))
       /\ \A j \in JobIds : WF_jobVars(RemoveJob(n, j))

JobFairSpec == JobSpec /\ JobFairness

-----------------------------------------------------------------------------
(* Properties. *)

Settled(j) == job[j].state \in Outcomes \cup {"FAILED"}

\* The agent has the job, or a working stream is about to bring it, or its
\* outcome is on its way on one.
Alive(j, n) ==
  \/ run[n][j] = "live"
  \/ /\ Serving(n) /\ link[session[n]]
     /\ \/ \E f \in Frames(down[session[n]]) : f.kind = "run" /\ f.job = j
        \/ \E f \in Frames(up[session[n]]) : f.kind = "update" /\ f.job = j

\* "a job the coordinator thinks is live, that the agent stopped reporting":
\* Reconcile never fails a job that its agent runs or is about to start, or
\* whose outcome it has sent on the stream it uses, in whatever order dispatch,
\* sampled heartbeats, updates, reconnects and restarts come.
NoFalseLoss ==
  [][\A j \in JobIds : j \in lost' \ lost => ~Alive(j, job[j].node)]_jobVars

\* A terminal state is final, except for an update that was sent on a stream
\* the agent has left since: the handler of the old stream may deliver it
\* after the new one has delivered the outcome (OnJobUpdate does not look).
TerminalKept ==
  [][\A j \in JobIds :
       (job[j] # None /\ Settled(j) /\ job'[j] # None
          /\ job'[j].state # job[j].state)
       => \E s \in Streams :
            /\ up[s] # <<>> /\ up'[s] = Tail(up[s])
            /\ Incoming(s).kind = "update" /\ Incoming(s).job = j
            /\ session[owner[s]] # s]_jobVars

\* A job that is over for its agent does not stay unfinished on record: lost
\* dispatches, dropped final updates, agents that forget their jobs and jobs
\* adopted after a restart are all noticed, unless the agent is stuck.
JobsSettle ==
  \A j \in JobIds, n \in Nodes :
    (job[j] # None /\ job[j].node = n /\ ~Settled(j))
      ~> (job[j] = None \/ Settled(j) \/ run[n][j] # "none" \/ agent[n] = "stuck")
=============================================================================
