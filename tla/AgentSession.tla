---------------------------- MODULE AgentSession ----------------------------
(***************************************************************************)
(* The agent's coordinator client (agent/internal/client): the reconnect   *)
(* loop Run, one stream lifetime in runOnce with its writer and heartbeat  *)
(* goroutines and their shutdown, and the tasks, which outlive streams.  A *)
(* task stands for a job or a deployment: the code treats them alike.      *)
(*                                                                         *)
(* The coordinator and gRPC are outside: a stream may end at any time, and *)
(* once it has ended Send and Recv fail (Recv after handing out what had   *)
(* arrived).  Cancelling the session's context ends its stream.            *)
(***************************************************************************)
EXTENDS Integers, Sequences

CONSTANTS
  Tasks,        \* job and deployment ids
  Supported,    \* the ones this node has a runner or an engine for
  QueueSize,    \* outboundBufferSize
  BackoffBase,  \* backoffBase
  BackoffCap    \* backoffCap

ASSUME SessionAssumption ==
  /\ Supported \subseteq Tasks
  /\ QueueSize \in Nat \ {0}
  /\ BackoffBase \in Nat \ {0} /\ BackoffCap \in Nat /\ BackoffBase <= BackoffCap

VARIABLES
  root,       \* the context of Run is not cancelled
  main,       \* where Run and runOnce are
  cur,        \* backoff.cur
  stream,     \* the stream of the session: none, up, or ended
  cancelled,  \* sessCtx is cancelled
  writer,     \* the writer goroutine
  heart,      \* the heartbeat goroutine
  out,        \* the session's outbound queue
  published,  \* Client.out points to it
  wire,       \* history: the first frame the writer sent on the stream
  task,       \* Client.jobs and Client.deployments
  emitter     \* the queue a task's emit call holds

sessVars == <<stream, cancelled, writer, heart, out, published, wire>>
taskVars == <<task, emitter>>
agentVars == <<root, main, cur, sessVars, taskVars>>

Frames == {"register", "heartbeat", "update"}

\* In "drain" runOnce is returning and its deferred calls run: Client.out is nil
\* again, wg.Wait is next, and sessCancel comes only after it.
SessTypeOK ==
  /\ root \in BOOLEAN
  /\ main \in {"connect", "await", "serve", "drain", "backoff", "done"}
  /\ cur \in BackoffBase..BackoffCap
  /\ stream \in {"none", "up", "ended"}
  /\ cancelled \in BOOLEAN
  /\ writer \in {"none", "run", "done"}
  /\ heart \in {"none", "wait", "send", "done"}
  /\ out \in Seq(Frames) /\ Len(out) <= QueueSize
  /\ published \in BOOLEAN
  /\ wire \in Frames \cup {"none"}
  /\ task \in [Tasks -> {"absent", "running", "stopping"}]
  /\ emitter \in [Tasks -> {"idle", "current", "stale"}]

SessInit ==
  /\ root = TRUE
  /\ main = "connect"
  /\ cur = BackoffBase
  /\ stream = "none"
  /\ cancelled = FALSE
  /\ writer = "none"
  /\ heart = "none"
  /\ out = <<>>
  /\ published = FALSE
  /\ wire = "none"
  /\ task = [t \in Tasks |-> "absent"]
  /\ emitter = [t \in Tasks |-> "idle"]

-----------------------------------------------------------------------------
(* Run and runOnce. *)

\* Faulty variant: the queue is made once for all sessions.
FreshQueueShared == Append(out, "register")

\* A queue that holds the Register; nobody else knows it yet.
FreshQueue == <<"register">>

\* The stream opens, the writer starts and Register is queued.
Open ==
  /\ main = "connect" /\ root
  /\ main' = "await"
  /\ stream' = "up"
  /\ cancelled' = FALSE
  /\ writer' = "run"
  /\ heart' = "none"
  /\ out' = FreshQueue
  /\ wire' = "none"
  /\ emitter' = [t \in Tasks |-> IF emitter[t] = "idle" THEN "idle" ELSE "stale"]
  /\ UNCHANGED <<root, cur, published, task>>

\* The schedule of backoff.next.
Longer(b) == IF b < BackoffCap
             THEN IF 2 * b > BackoffCap THEN BackoffCap ELSE 2 * b
             ELSE b

\* Back in Run after a failed runOnce.
Retry ==
  IF root THEN main' = "backoff" /\ cur' = Longer(cur)
          ELSE main' = "done" /\ UNCHANGED cur

\* NewClient or Connect fails: no goroutine has been started.
OpenFails ==
  /\ main = "connect"
  /\ Retry
  /\ UNCHANGED <<root, sessVars, taskVars>>

\* RegisterAck arrives: the backoff is reset, the queue published, the
\* heartbeat goroutine started.
Acked ==
  /\ main = "await" /\ wire = "register"
  /\ main' = "serve"
  /\ cur' = BackoffBase
  /\ published' = TRUE
  /\ heart' = "wait"
  /\ UNCHANGED <<root, stream, cancelled, writer, out, wire, taskVars>>

AwaitFails ==
  /\ main = "await" /\ stream = "ended"
  /\ main' = "drain"
  /\ UNCHANGED <<root, cur, sessVars, taskVars>>

\* The first message is something else: others may use the handle that Upsert
\* published before the RegisterAck is out.
WrongReply ==
  /\ main = "await" /\ wire = "register"
  /\ main' = "drain"
  /\ UNCHANGED <<root, cur, sessVars, taskVars>>

RecvFails ==
  /\ main = "serve" /\ stream = "ended"
  /\ main' = "drain"
  /\ published' = FALSE
  /\ UNCHANGED <<root, cur, stream, cancelled, writer, heart, out, wire, taskVars>>

\* wg.Wait returns.
Finished == writer = "done" /\ heart \in {"none", "done"}

\* Then sessCancel and conn.Close.
Drained ==
  /\ main = "drain" /\ Finished
  /\ stream' = "none"
  /\ cancelled' = TRUE
  /\ Retry
  /\ UNCHANGED <<root, writer, heart, out, published, wire, taskVars>>

BackoffOver ==
  /\ main = "backoff"
  /\ main' = IF root THEN "connect" ELSE "done"
  /\ UNCHANGED <<root, cur, sessVars, taskVars>>

-----------------------------------------------------------------------------
(* The session's goroutines. *)

Ended == IF stream = "up" THEN "ended" ELSE stream

\* Faulty variant: a failed Send ends the writer only.
SendFailsAlone ==
  /\ stream' = Ended
  /\ UNCHANGED cancelled

\* sessCancel.
SendFails ==
  /\ stream' = Ended
  /\ cancelled' = TRUE

Write ==
  /\ writer = "run" /\ out # <<>>
  /\ out' = Tail(out)
  /\ \/ /\ stream = "up"
        /\ wire' = IF wire = "none" THEN Head(out) ELSE wire
        /\ UNCHANGED <<stream, cancelled, writer>>
     \/ /\ stream = "ended"
        /\ writer' = "done"
        /\ SendFails
        /\ UNCHANGED wire
  /\ UNCHANGED <<root, main, cur, heart, published, taskVars>>

WriterStops ==
  /\ writer = "run" /\ cancelled
  /\ writer' = "done"
  /\ UNCHANGED <<root, main, cur, stream, cancelled, heart, out, published, wire, taskVars>>

\* The ticker fires and the ids of the active tasks are collected.
Beat ==
  /\ heart = "wait"
  /\ heart' = "send"
  /\ UNCHANGED <<root, main, cur, stream, cancelled, writer, out, published, wire, taskVars>>

\* The heartbeat waits for room in the queue.
QueueBeat ==
  /\ heart = "send" /\ Len(out) < QueueSize
  /\ heart' = "wait"
  /\ out' = Append(out, "heartbeat")
  /\ UNCHANGED <<root, main, cur, stream, cancelled, writer, published, wire, taskVars>>

HeartStops ==
  /\ heart \in {"wait", "send"} /\ cancelled
  /\ heart' = "done"
  /\ UNCHANGED <<root, main, cur, stream, cancelled, writer, out, published, wire, taskVars>>

-----------------------------------------------------------------------------
(* Tasks. *)

\* Faulty variant: the queue is taken to have room.
OfferBlind == out' = Append(out, "update")

\* An update finds room in the queue or is dropped.
Offer == out' = IF Len(out) < QueueSize THEN Append(out, "update") ELSE out

\* startJob, startDeployment: a duplicate is ignored, a task this node cannot
\* run is reported FAILED at once.
StartTask(t) ==
  /\ main = "serve"
  /\ IF t \in Supported
     THEN /\ task' = [task EXCEPT ![t] = IF @ = "absent" THEN "running" ELSE @]
          /\ UNCHANGED out
     ELSE Offer /\ UNCHANGED task
  /\ UNCHANGED <<root, main, cur, stream, cancelled, writer, heart, published, wire, emitter>>

\* cancelJob, stopDeployment.
StopTask(t) ==
  /\ main = "serve"
  /\ task' = [task EXCEPT ![t] = IF @ = "absent" THEN @ ELSE "stopping"]
  /\ UNCHANGED <<root, main, cur, sessVars, emitter>>

\* emit, emitDeployment: Client.out is read under the mutex; when it is nil the
\* update is dropped.
Emit(t) ==
  /\ main # "done"
  /\ task[t] # "absent" /\ emitter[t] = "idle" /\ published
  /\ emitter' = [emitter EXCEPT ![t] = "current"]
  /\ UNCHANGED <<root, main, cur, sessVars, task>>

\* Then the update is offered to the queue read before.
EmitOffer(t) ==
  /\ main # "done"
  /\ emitter[t] # "idle"
  /\ emitter' = [emitter EXCEPT ![t] = "idle"]
  /\ IF emitter[t] = "current" THEN Offer ELSE UNCHANGED out
  /\ UNCHANGED <<root, main, cur, stream, cancelled, writer, heart, published, wire, task>>

\* The update channel is closed: the task is over, stopped or failed to start.
TaskEnds(t) ==
  /\ main # "done"
  /\ task[t] # "absent" /\ emitter[t] = "idle"
  /\ task' = [task EXCEPT ![t] = "absent"]
  /\ UNCHANGED <<root, main, cur, sessVars, emitter>>

-----------------------------------------------------------------------------
(* The environment. *)

StreamEnds ==
  /\ stream = "up"
  /\ stream' = "ended"
  /\ UNCHANGED <<root, main, cur, cancelled, writer, heart, out, published, wire, taskVars>>

\* Faulty variant: the session's context is not a child of Run's.
InheritedNot == UNCHANGED <<stream, cancelled>>

Inherited ==
  /\ stream' = Ended
  /\ cancelled' = TRUE

\* The context of Run is cancelled, and with it every context made from it.
Shutdown ==
  /\ root /\ main # "done"
  /\ root' = FALSE
  /\ Inherited
  /\ task' = [t \in Tasks |-> IF task[t] = "absent" THEN "absent" ELSE "stopping"]
  /\ UNCHANGED <<main, cur, writer, heart, out, published, wire, emitter>>

\* Run sees the cancelled context before it dials.
Quit ==
  /\ main = "connect" /\ ~root
  /\ main' = "done"
  /\ UNCHANGED <<root, cur, sessVars, taskVars>>

Main      == Open \/ OpenFails \/ AwaitFails \/ RecvFails \/ Drained \/ BackoffOver \/ Quit
Writer    == Write \/ WriterStops
Heart     == Beat \/ QueueBeat \/ HeartStops
TaskSteps == \E t \in Tasks : StartTask(t) \/ StopTask(t) \/ Emit(t) \/ EmitOffer(t) \/ TaskEnds(t)

SessNext ==
  Main \/ Acked \/ WrongReply \/ Writer \/ Heart \/ TaskSteps \/ StreamEnds \/ Shutdown

SessSpec == SessInit /\ [][SessNext]_agentVars

\* Every goroutine that can go on does.  Nothing is asked of the coordinator
\* (Acked, WrongReply), of the network (StreamEnds) or of the operator (Shutdown).
SessFairness ==
  /\ WF_agentVars(OpenFails \/ Open) /\ WF_agentVars(AwaitFails)
  /\ WF_agentVars(RecvFails) /\ WF_agentVars(Drained)
  /\ WF_agentVars(BackoffOver) /\ WF_agentVars(Quit)
  /\ WF_agentVars(Writer) /\ WF_agentVars(Heart)

SessFairSpec == SessSpec /\ SessFairness

-----------------------------------------------------------------------------
(* Properties. *)

\* "Register MUST be the first frame on every new stream": no update emitted by
\* a task that lives through reconnects, however it interleaves with runOnce,
\* gets ahead of the Register of the next session.
RegisterFirst == wire \in {"none", "register"}

(* With two facts more RegisterFirst is inductive. *)

\* When runOnce has returned, neither of its goroutines is left to send.
NothingLeftBehind ==
  main \in {"connect", "backoff", "done"} =>
    writer \in {"none", "done"} /\ heart \in {"none", "done"}

\* Until it is sent, the Register is at the head of the queue.
RegisterQueued ==
  writer = "run" /\ wire = "none" => out # <<>> /\ Head(out) = "register"

SessIInv == SessTypeOK /\ RegisterFirst /\ NothingLeftBehind /\ RegisterQueued

\* A session that was acknowledged and lost its stream is torn down and tried
\* again.  runOnce waits for its goroutines before it cancels their context, so
\* this hinges on the next heartbeat: its failing Send cancels the session.
LostSessionRetried ==
  (main = "serve" /\ stream = "ended") ~> main \in {"connect", "done"}

\* Run returns once its context is cancelled, wherever it is.
ShutdownReturns == ~root ~> main = "done"

\* The comment on Run: "on failure it backs off (with jitter) and reconnects,
\* resending Register".
FailureRetried == main = "drain" ~> main \in {"connect", "done"}
=============================================================================
