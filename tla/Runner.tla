------------------------------- MODULE Runner -------------------------------
(***************************************************************************)
(* One container job on a provider: DockerRunner.run with its log copier   *)
(* and its logCoalescer (agent/internal/runner/docker.go), runJob of the   *)
(* agent's client, which reads the updates, and the Docker daemon.         *)
(*                                                                         *)
(* The output of the container is counted in lines; an update with output  *)
(* carries a number of them.                                               *)
(***************************************************************************)
EXTENDS Integers, Sequences

CONSTANTS
  BufferSize,   \* capacity of the updates channel (updateBufferSize)
  MaxStatus,    \* distinct progress statuses of a pull
  MaxOutput     \* lines of output

ASSUME RunnerAssumption ==
  BufferSize \in Nat \ {0} /\ MaxStatus \in Nat /\ MaxOutput \in Nat

VARIABLES
  ctx,         \* the job's context: "live", "cancelled" or "expired"
  pc,          \* where run is
  waits,       \* whether ContainerWait was called on a live context
  verdict,     \* what the select over ctx, errCh and waitCh returned
  container,   \* the container as the daemon has it
  cleanupDue,  \* whether cleanup is deferred
  statuses,    \* statuses forwarded by pull
  written,     \* lines the container has written
  copied,      \* lines that went into logCoalescer.buf
  taken,       \* lines flush has taken out of it
  emitted,     \* lines sent
  copier,      \* the goroutine of streamLogs
  coalescer,   \* the goroutine of logCoalescer.loop
  stopping,    \* whether logCoalescer.done is closed
  sent,        \* the updates sent
  received,    \* how many of them runJob has received
  closed,      \* whether updates is closed
  listed,      \* whether the job is in the client's jobs
  notes        \* history: the faults met so far

daemonVars == <<container, written>>
logVars    == <<copied, taken, emitted, copier, coalescer, stopping>>
clientVars == <<received, listed>>
runVars    == <<pc, waits, verdict, cleanupDue, statuses>>
rVars      == <<ctx, pc, waits, verdict, container, cleanupDue, statuses, written, copied, taken,
                emitted, copier, coalescer, stopping, sent, received, closed, listed, notes>>

Terminal == {"SUCCEEDED", "FAILED", "CANCELLED"}
Updates  == {"PENDING", "RUNNING", "LOG"} \cup Terminal
Stages   == {"begin", "pulling", "creating", "starting", "announcing", "waiting",
             "draining", "flushing", "reporting", "cleaning", "closing", "returned", "exited"}

\* A container created by a call that failed; a log that was never attached, or
\* broke off; a container that was not removed; an agent that exited meanwhile.
Faults == {"orphan", "unattached", "brokenOff", "unremoved", "abandoned"}

RunnerTypeOK ==
  /\ ctx \in {"live", "cancelled", "expired"}
  /\ pc \in Stages /\ waits \in BOOLEAN
  /\ verdict \in {"none", "error", "exit", "fault"}
  /\ container \in {"none", "created", "running", "done", "broke", "removed"}
  /\ cleanupDue \in BOOLEAN
  /\ statuses \in 0..MaxStatus
  /\ written \in 0..MaxOutput
  /\ copied \in 0..written /\ taken \in 0..copied /\ emitted \in 0..taken
  /\ copier \in {"off", "attaching", "following", "done"}
  /\ coalescer \in {"off", "idle", "emitting", "lastEmit", "gone"}
  /\ stopping \in BOOLEAN
  /\ sent \in Seq(Updates)
  /\ received \in 0..Len(sent) /\ Len(sent) - received <= BufferSize
  /\ closed \in BOOLEAN /\ listed \in BOOLEAN
  /\ notes \subseteq Faults

\* startJob has listed the job and started runJob, which called Run.
RunnerInit ==
  /\ ctx = "live" /\ pc = "begin" /\ waits = FALSE /\ verdict = "none"
  /\ container = "none" /\ cleanupDue = FALSE /\ statuses = 0
  /\ written = 0 /\ copied = 0 /\ taken = 0 /\ emitted = 0
  /\ copier = "off" /\ coalescer = "off" /\ stopping = FALSE
  /\ sent = <<>> /\ received = 0 /\ closed = FALSE
  /\ listed = TRUE /\ notes = {}

\* Faulty variant: a send never blocks.
SendUnbounded(u) == sent' = Append(sent, u)

\* A send blocks while the buffer is full.
Send(u) ==
  /\ Len(sent) - received < BufferSize
  /\ sent' = Append(sent, u)

Exited == container \in {"done", "broke"}

\* The agent's process, and with it every goroutine of the job, is there.
Up == pc # "exited"

-----------------------------------------------------------------------------
(* run, up to the running container. *)

Begin ==
  /\ pc = "begin"
  /\ Send("PENDING")
  /\ pc' = "pulling"
  /\ UNCHANGED <<ctx, waits, verdict, cleanupDue, statuses, daemonVars, logVars, clientVars,
                 closed, notes>>

\* pull forwards each distinct status once.
PullStatus ==
  /\ pc = "pulling" /\ statuses < MaxStatus
  /\ Send("LOG")
  /\ statuses' = statuses + 1
  /\ UNCHANGED <<ctx, pc, waits, verdict, cleanupDue, daemonVars, logVars, clientVars,
                 closed, notes>>

Pulled ==
  /\ pc = "pulling"
  /\ pc' = "creating"
  /\ UNCHANGED <<ctx, waits, verdict, cleanupDue, statuses, daemonVars, logVars, clientVars, sent,
                 closed, notes>>

\* Faulty variant: cleanup is deferred only once the container has started.
CreatedUndeferred ==
  /\ pc = "creating"
  /\ container' = "created"
  /\ pc' = "starting"
  /\ UNCHANGED <<ctx, waits, verdict, cleanupDue, statuses, written, logVars, clientVars, sent,
                 closed, notes>>

\* The container exists, and cleanup is deferred from here on.
Created ==
  /\ pc = "creating"
  /\ container' = "created"
  /\ pc' = "starting"
  /\ cleanupDue' = TRUE
  /\ UNCHANGED <<ctx, waits, verdict, statuses, written, logVars, clientVars, sent, closed,
                 notes>>

Started ==
  /\ pc = "starting"
  /\ container' = "running"
  /\ pc' = "announcing"
  /\ UNCHANGED <<ctx, waits, verdict, cleanupDue, statuses, written, logVars, clientVars, sent,
                 closed, notes>>

\* A call of the daemon fails.  The call may have had its effect all the same;
\* a container created so is not known to run.
CallFails ==
  /\ pc \in {"pulling", "creating", "starting"}
  /\ pc' = "reporting"
  /\ verdict' = "error"
  /\ \/ UNCHANGED <<container, notes>>
     \/ pc = "creating" /\ container' = "created" /\ notes' = notes \cup {"orphan"}
     \/ pc = "starting" /\ container' = "running" /\ UNCHANGED notes
  /\ UNCHANGED <<ctx, waits, cleanupDue, statuses, written, logVars, clientVars, sent, closed>>

\* RUNNING is sent, the two goroutines start, and ContainerWait is called.
Announce ==
  /\ pc = "announcing"
  /\ Send("RUNNING")
  /\ pc' = "waiting"
  /\ copier' = "attaching" /\ coalescer' = "idle"
  /\ waits' = (ctx = "live")
  /\ UNCHANGED <<ctx, verdict, cleanupDue, statuses, daemonVars, copied, taken, emitted,
                 stopping, clientVars, closed, notes>>

-----------------------------------------------------------------------------
(* run, from the select on. *)

\* ctx is dead or the wait fails, or the container has exited and the daemon
\* has its status or an error of its own.
Select ==
  /\ pc = "waiting"
  /\ \/ verdict' = "error"
     \/ waits /\ Exited /\ verdict' \in {"exit", "fault"}
  /\ pc' = "draining"
  /\ UNCHANGED <<ctx, waits, cleanupDue, statuses, daemonVars, logVars, clientVars, sent, closed,
                 notes>>

\* Faulty variant: run does not wait for the copier.
CopierWaitedNot == TRUE

CopierWaited == copier = "done"

\* finishLogs: the copier is done, and logs.stop closes done ...
StopLogs ==
  /\ pc = "draining"
  /\ CopierWaited
  /\ stopping' = TRUE
  /\ pc' = "flushing"
  /\ UNCHANGED <<ctx, waits, verdict, cleanupDue, statuses, daemonVars, copied, taken, emitted,
                 copier, coalescer, clientVars, sent, closed, notes>>

\* Faulty variant: a failing job does not wait for the flusher.
FlusherWaitedOnExit == verdict = "error" \/ coalescer = "gone"

FlusherWaited == coalescer = "gone"

\* ... and waits for the flusher.
LogsStopped ==
  /\ pc = "flushing"
  /\ FlusherWaited
  /\ pc' = "reporting"
  /\ UNCHANGED <<ctx, waits, verdict, cleanupDue, statuses, daemonVars, logVars, clientVars, sent,
                 closed, notes>>

\* Faulty variant: an error is reported as one, whatever the context.
terminalForError == "FAILED"

terminalForCtx == IF ctx = "cancelled" THEN "CANCELLED" ELSE "FAILED"

\* The terminal update; then run returns and its deferred calls run.
ReportEnd ==
  /\ pc = "reporting"
  /\ Send(IF verdict = "error" THEN terminalForCtx
          ELSE IF verdict = "exit" /\ container = "done" THEN "SUCCEEDED" ELSE "FAILED")
  /\ pc' = IF cleanupDue THEN "cleaning" ELSE "closing"
  /\ UNCHANGED <<ctx, waits, verdict, cleanupDue, statuses, daemonVars, logVars, clientVars,
                 closed,
                 notes>>

\* cleanup removes the container by force, or fails to within cleanupTimeout.
Cleanup ==
  /\ pc = "cleaning"
  /\ \/ container' = "removed" /\ UNCHANGED notes
     \/ notes' = notes \cup {"unremoved"} /\ UNCHANGED container
  /\ pc' = "closing"
  /\ UNCHANGED <<ctx, waits, verdict, cleanupDue, statuses, written, logVars, clientVars, sent,
                 closed>>

CloseUpdates ==
  /\ pc = "closing"
  /\ closed' = TRUE
  /\ pc' = "returned"
  /\ UNCHANGED <<ctx, waits, verdict, cleanupDue, statuses, daemonVars, logVars, clientVars, sent,
                 notes>>

-----------------------------------------------------------------------------
(* streamLogs and the logCoalescer. *)

Attach ==
  /\ Up /\ copier = "attaching"
  /\ \/ copier' = "following" /\ UNCHANGED notes
     \/ copier' = "done" /\ notes' = notes \cup {"unattached"}
  /\ UNCHANGED <<ctx, runVars, daemonVars, copied, taken, emitted, coalescer, stopping,
                 clientVars, sent, closed>>

Copy ==
  /\ Up /\ copier = "following" /\ copied < written
  /\ copied' = written
  /\ UNCHANGED <<ctx, runVars, daemonVars, taken, emitted, copier, coalescer, stopping,
                 clientVars, sent, closed, notes>>

\* Faulty variant: the log stream is not bound to the job's context.
StreamOverOnExit == copied = written /\ Exited

\* The stream ends after the last line, or with the context.
StreamOver == (copied = written /\ Exited) \/ ctx # "live"

CopierEnds ==
  /\ Up /\ copier = "following"
  /\ StreamOver
  /\ copier' = "done"
  /\ UNCHANGED <<ctx, runVars, daemonVars, copied, taken, emitted, coalescer, stopping,
                 clientVars, sent, closed, notes>>

\* StdCopy fails though the context is live: the error is logged, and what is
\* left of the output is not read.
StreamBreaks ==
  /\ Up /\ copier = "following" /\ ctx = "live"
  /\ copier' = "done"
  /\ notes' = notes \cup {"brokenOff"}
  /\ UNCHANGED <<ctx, runVars, daemonVars, copied, taken, emitted, coalescer, stopping,
                 clientVars, sent, closed>>

\* A tick, or done: flush takes what is buffered.  When both are ready the
\* tick may come first.
Flush(last) ==
  /\ Up /\ coalescer = "idle"
  /\ last => stopping
  /\ taken' = copied
  /\ coalescer' = IF copied > taken THEN IF last THEN "lastEmit" ELSE "emitting"
                                    ELSE IF last THEN "gone" ELSE "idle"
  /\ UNCHANGED <<ctx, runVars, daemonVars, copied, emitted, copier, stopping, clientVars,
                 sent, closed, notes>>

\* What was taken is sent, outside the lock.
EmitLogs ==
  /\ Up /\ coalescer \in {"emitting", "lastEmit"}
  /\ Send("LOG")
  /\ emitted' = taken
  /\ coalescer' = IF coalescer = "emitting" THEN "idle" ELSE "gone"
  /\ UNCHANGED <<ctx, runVars, daemonVars, copied, taken, copier, stopping, clientVars,
                 closed, notes>>

-----------------------------------------------------------------------------
(* The container, the client, and the context. *)

ContainerWrites ==
  /\ container = "running" /\ written < MaxOutput
  /\ written' = written + 1
  /\ UNCHANGED <<ctx, runVars, container, logVars, clientVars, sent, closed, notes>>

ContainerExits ==
  /\ container = "running"
  /\ container' \in {"done", "broke"}
  /\ UNCHANGED <<ctx, runVars, written, logVars, clientVars, sent, closed, notes>>

\* runJob hands each update to emit, which never blocks.
Receive ==
  /\ Up /\ received < Len(sent)
  /\ received' = received + 1
  /\ UNCHANGED <<ctx, runVars, daemonVars, logVars, sent, closed, listed, notes>>

\* The range over updates ends, and removeJob runs.
RemoveJob ==
  /\ closed /\ received = Len(sent) /\ listed
  /\ listed' = FALSE
  /\ UNCHANGED <<ctx, runVars, daemonVars, logVars, received, sent, closed, notes>>

\* CancelJob, or the end of the agent's root context.  After the latter Run
\* returns, and the process exits, without waiting for any job (AgentExits).
CancelJob ==
  /\ ctx = "live" /\ listed
  /\ ctx' = "cancelled"
  /\ UNCHANGED <<runVars, daemonVars, logVars, clientVars, sent, closed, notes>>

\* The job's own timeout.
Expire ==
  /\ ctx = "live" /\ pc \notin {"returned", "exited"}
  /\ ctx' = "expired"
  /\ UNCHANGED <<runVars, daemonVars, logVars, clientVars, sent, closed, notes>>

\* The process ends while run is under way: main returns after a signal, or the
\* agent is killed.  No deferred call runs; the container is on its own.
AgentExits ==
  /\ pc \notin {"returned", "exited"}
  /\ pc' = "exited"
  /\ listed' = FALSE
  /\ notes' = notes \cup {"abandoned"}
  /\ UNCHANGED <<ctx, waits, verdict, cleanupDue, statuses, daemonVars, logVars, received, sent,
                 closed>>

RunnerNext ==
  \/ Begin \/ PullStatus \/ Pulled \/ Created \/ Started \/ CallFails \/ Announce
  \/ Select \/ StopLogs \/ LogsStopped \/ ReportEnd \/ Cleanup \/ CloseUpdates
  \/ Attach \/ Copy \/ CopierEnds \/ StreamBreaks \/ (\E last \in BOOLEAN : Flush(last))
  \/ EmitLogs \/ ContainerWrites \/ ContainerExits \/ Receive \/ RemoveJob
  \/ CancelJob \/ Expire \/ AgentExits

RunnerSpec == RunnerInit /\ [][RunnerNext]_rVars

\* The goroutines run on.  A call of the daemon is sure to return only once the
\* context is dead, and the container may run for ever.
RunnerFairSpec ==
  /\ RunnerSpec
  /\ WF_rVars(Begin) /\ WF_rVars(Announce) /\ WF_rVars(StopLogs) /\ WF_rVars(LogsStopped)
  /\ WF_rVars(ReportEnd) /\ WF_rVars(Cleanup) /\ WF_rVars(CloseUpdates)
  /\ WF_rVars(ctx # "live" /\ (CallFails \/ Select \/ Attach))
  /\ WF_rVars(CopierEnds) /\ WF_rVars(\E last \in BOOLEAN : Flush(last)) /\ WF_rVars(EmitLogs)
  /\ WF_rVars(Receive) /\ WF_rVars(RemoveJob)

-----------------------------------------------------------------------------

\* The stream of updates implements the interface's promise: whichever of run
\* and the flusher sends, nothing follows the terminal update, the channel is
\* closed once after it and nothing is sent on it then (run, finishLogs, stop).
Contract == INSTANCE JobStream

ImplementsStream == Contract!StreamSpec

\* "Every exit path below drains the log stream before the terminal update so
\* trailing output is not lost": when the exit of a container is reported, all
\* it wrote has been sent, unless the log could not be attached or broke off, or
\* the context died meanwhile (streamLogs, finishLogs, flush).
OutputComplete ==
  pc \in {"cleaning", "closing", "returned"} /\ verdict \in {"exit", "fault"}
    => emitted = written \/ ctx # "live" \/ notes \cap {"unattached", "brokenOff"} # {}

\* When the channel is closed, or the job has left the client's list, no
\* container is left, running or not, except one the daemon would not remove or
\* created without saying so, or one whose agent exited under it (defer cleanup).
NoContainerLeft ==
  closed \/ ~listed =>
    \/ container \in {"none", "removed"}
    \/ notes \cap {"orphan", "unremoved"} # {}
    \/ ~closed /\ "abandoned" \in notes

\* "Cancellation of ctx must kill the container and emit CANCELLED" is kept up
\* to the race in the select of run: a cancelled job is reported otherwise only
\* if its container has ended by itself and the context was still live when run
\* began to wait for that.  No failing call of the daemon, and no exit of a
\* container that nobody waited for, hides the cancellation (fail, the select).
CancelReported ==
  [][\A u \in Terminal :
       ctx = "cancelled" /\ sent' = Append(sent, u) => u = "CANCELLED" \/ (waits /\ Exited)]_rVars

\* A cancelled job ends: the channel is closed and the job leaves the list that
\* the heartbeats carry, whether or not its container ever exits (run, runJob).
CancelEnds == ctx # "live" ~> ~listed
=============================================================================
