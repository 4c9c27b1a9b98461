----------------------------- MODULE AgentProofs ----------------------------
(***************************************************************************)
(* Proofs about the agent, for any tasks, queue sizes, backoff range,      *)
(* number of statuses and amount of output: its session with the           *)
(* coordinator (AgentSession), and a container job on it with the promise  *)
(* of the Runner interface and the fate of the output and of the container *)
(* (Runner).                                                               *)
(***************************************************************************)
EXTENDS AgentSession, Runner, TLAPS

(* The session. *)

USE SessionAssumption

\* The session: the initial states.
LEMMA SessInitIInv == SessInit => SessIInv
<1> SUFFICES ASSUME SessInit PROVE SessIInv
  OBVIOUS
<1>1. out \in Seq(Frames) /\ Len(out) = 0
  BY DEF SessInit
<1>2. SessTypeOK
  <2>1. root \in BOOLEAN /\ cancelled \in BOOLEAN /\ published \in BOOLEAN
    BY ZenonT(30) DEF SessInit
  <2>2. cur \in BackoffBase..BackoffCap /\ Len(out) <= QueueSize
    BY <1>1 DEF SessInit
  <2>3. /\ task \in [Tasks -> {"absent", "running", "stopping"}]
        /\ emitter \in [Tasks -> {"idle", "current", "stale"}]
    BY DEF SessInit
  <2>4. QED
    BY <1>1, <2>1, <2>2, <2>3 DEF SessInit, SessTypeOK
<1>3. QED
  BY <1>2 DEF SessInit, SessIInv, RegisterFirst, NothingLeftBehind, RegisterQueued

\* The backoff stays within its bounds.
LEMMA LongerType ==
  ASSUME NEW b \in BackoffBase..BackoffCap
  PROVE  Longer(b) \in BackoffBase..BackoffCap
BY DEF Longer

\* What an append does to a queue that starts with the Register.
LEMMA AppendKeeps ==
  ASSUME SessTypeOK, NEW f \in Frames, Len(out) < QueueSize
  PROVE  /\ Append(out, f) \in Seq(Frames) /\ Len(Append(out, f)) <= QueueSize
         /\ Append(out, f) # <<>>
         /\ out # <<>> => Head(Append(out, f)) = Head(out)
<1>1. out \in Seq(Frames) /\ Len(out) \in Nat
  BY DEF SessTypeOK
<1>2. Append(out, f) \in Seq(Frames) /\ Len(Append(out, f)) = Len(out) + 1
  BY <1>1
<1>3. Append(out, f) # <<>>
  <2>1. Len(<<>>) = 0 /\ Len(out) + 1 # 0
    BY <1>1
  <2>2. QED
    BY <1>2, <2>1, ZenonT(30)
<1>4. out # <<>> => Head(Append(out, f)) = Head(out)
  BY <1>1
<1>5. QED
  BY <1>1, <1>2, <1>3, <1>4

LEMMA OfferKeeps ==
  ASSUME SessTypeOK, Offer
  PROVE  /\ out' \in Seq(Frames) /\ Len(out') <= QueueSize
         /\ out # <<>> => out' # <<>> /\ Head(out') = Head(out)
<1>1. CASE Len(out) < QueueSize
  BY <1>1, AppendKeeps DEF Offer, Frames
<1>2. CASE ~(Len(out) < QueueSize)
  BY <1>2 DEF Offer, SessTypeOK
<1>3. QED
  BY <1>1, <1>2

LEMMA MainIInv ==
  ASSUME SessIInv, Main \/ Acked \/ WrongReply
  PROVE  SessIInv'
<1> USE DEF SessIInv, SessTypeOK, RegisterFirst, NothingLeftBehind, RegisterQueued, sessVars,
            taskVars
<1>1. CASE Open
  <2>1. FreshQueue \in Seq(Frames) /\ Len(FreshQueue) = 1 /\ FreshQueue # <<>>
        /\ Head(FreshQueue) = "register"
    BY DEF FreshQueue, Frames
  <2>2. out' \in Seq(Frames) /\ Len(out') <= QueueSize /\ out' # <<>> /\ Head(out') = "register"
    BY <1>1, <2>1 DEF Open
  <2>3. cancelled' \in BOOLEAN /\ root' \in BOOLEAN /\ published' \in BOOLEAN
    BY <1>1, ZenonT(30) DEF Open
  <2>4. emitter' \in [Tasks -> {"idle", "current", "stale"}]
    BY <1>1 DEF Open
  <2>5. SessTypeOK'
    BY <1>1, <2>2, <2>3, <2>4 DEF Open
  <2>6. QED
    BY <1>1, <2>2, <2>5 DEF Open
<1>2. CASE OpenFails
  BY <1>2, LongerType, ZenonT(30) DEF OpenFails, Retry
<1>3. CASE AwaitFails \/ WrongReply
  BY <1>3 DEF AwaitFails, WrongReply
<1>4. CASE RecvFails
  BY <1>4, ZenonT(30) DEF RecvFails
<1>5. CASE Drained
  BY <1>5, LongerType, ZenonT(30) DEF Drained, Retry, Finished
<1>6. CASE BackoffOver \/ Quit
  BY <1>6 DEF BackoffOver, Quit
<1>7. CASE Acked
  BY <1>7 DEF Acked
<1>8. QED
  BY <1>1, <1>2, <1>3, <1>4, <1>5, <1>6, <1>7 DEF Main

LEMMA GoroutinesIInv ==
  ASSUME SessIInv, Writer \/ Heart
  PROVE  SessIInv'
<1> USE DEF SessIInv, SessTypeOK, RegisterFirst, NothingLeftBehind, RegisterQueued, taskVars
<1>1. CASE Write
  <2>1. /\ out \in Seq(Frames) /\ out # <<>>
        /\ Tail(out) \in Seq(Frames) /\ Len(Tail(out)) <= QueueSize
        /\ Head(out) \in Frames
    BY <1>1 DEF Write
  <2>2. CASE stream = "up"
    BY <1>1, <2>1, <2>2 DEF Write, Frames
  <2>3. CASE stream = "ended"
    BY <1>1, <2>1, <2>3 DEF Write, SendFails, Ended
  <2>4. QED
    BY <1>1, <2>2, <2>3 DEF Write
<1>2. CASE WriterStops
  BY <1>2 DEF WriterStops
<1>3. CASE Beat
  BY <1>3 DEF Beat
<1>4. CASE QueueBeat
  BY <1>4, AppendKeeps DEF QueueBeat, Frames
<1>5. CASE HeartStops
  BY <1>5 DEF HeartStops
<1>6. QED
  BY <1>1, <1>2, <1>3, <1>4, <1>5 DEF Writer, Heart

LEMMA TasksIInv ==
  ASSUME SessIInv, NEW t \in Tasks,
         StartTask(t) \/ StopTask(t) \/ Emit(t) \/ EmitOffer(t) \/ TaskEnds(t)
  PROVE  SessIInv'
<1> USE DEF SessIInv, SessTypeOK, RegisterFirst, NothingLeftBehind, RegisterQueued, sessVars
<1>1. CASE StartTask(t)
  <2>1. CASE t \in Supported
    BY <1>1, <2>1 DEF StartTask
  <2>2. CASE t \notin Supported
    BY SMTT(30), <1>1, <2>2, OfferKeeps DEF StartTask
  <2>3. QED
    BY <2>1, <2>2
<1>2. CASE StopTask(t)
  BY <1>2 DEF StopTask
<1>3. CASE Emit(t) \/ TaskEnds(t)
  BY <1>3 DEF Emit, TaskEnds
<1>4. CASE EmitOffer(t)
  <2>1. CASE emitter[t] = "current"
    BY <1>4, <2>1, OfferKeeps DEF EmitOffer
  <2>2. CASE emitter[t] # "current"
    BY <1>4, <2>2 DEF EmitOffer
  <2>3. QED
    BY <2>1, <2>2
<1>5. QED
  BY <1>1, <1>2, <1>3, <1>4

LEMMA EnvironmentIInv ==
  ASSUME SessIInv, StreamEnds \/ Shutdown
  PROVE  SessIInv'
<1> USE DEF SessIInv, SessTypeOK, RegisterFirst, NothingLeftBehind, RegisterQueued, taskVars
<1>1. CASE StreamEnds
  BY <1>1 DEF StreamEnds
<1>2. CASE Shutdown
  <2>1. root' \in BOOLEAN /\ cancelled' \in BOOLEAN /\ published' \in BOOLEAN
    BY <1>2, ZenonT(30) DEF Shutdown, Inherited
  <2>2. stream' \in {"none", "up", "ended"}
    BY <1>2 DEF Shutdown, Inherited, Ended
  <2>3. task' \in [Tasks -> {"absent", "running", "stopping"}]
    BY <1>2 DEF Shutdown
  <2>4. QED
    BY <1>2, <2>1, <2>2, <2>3 DEF Shutdown
<1>3. QED
  BY <1>1, <1>2

LEMMA SessNextIInv == SessIInv /\ [SessNext]_agentVars => SessIInv'
<1> SUFFICES ASSUME SessIInv, [SessNext]_agentVars PROVE SessIInv'
  OBVIOUS
<1>1. CASE SessNext
  BY <1>1, MainIInv, GoroutinesIInv, TasksIInv, EnvironmentIInv DEF SessNext, TaskSteps
<1>2. CASE UNCHANGED agentVars
  BY <1>2 DEF agentVars, sessVars, taskVars, SessIInv, SessTypeOK, RegisterFirst,
              NothingLeftBehind, RegisterQueued
<1>3. QED
  BY <1>1, <1>2

\* The inductive invariant of the agent's session.
THEOREM SessionInvariant == SessSpec => []SessIInv
<1>1. QED
  BY SessInitIInv, SessNextIInv, PTL DEF SessSpec

\* The values stay in range: the outbound queue within its size, the backoff
\* between its base and its cap.
THEOREM SessionTypes == SessSpec => []SessTypeOK
<1>1. SessIInv => SessTypeOK
  BY DEF SessIInv
<1>2. QED
  BY <1>1, SessionInvariant, PTL

\* Register is the first frame of every stream, whatever tasks emit meanwhile.
THEOREM SessionRegisterFirst == SessSpec => []RegisterFirst
<1>1. SessIInv => RegisterFirst
  BY DEF SessIInv
<1>2. QED
  BY <1>1, SessionInvariant, PTL

HIDE SessionAssumption

-----------------------------------------------------------------------------
(* The runner. *)

(* The inductive invariant behind the safety properties. *)

BeforeLogs == {"begin", "pulling", "creating", "starting", "announcing"}
AfterEnd   == {"cleaning", "closing", "returned"}

\* The goroutines of the log live from the announcement on, the flusher until
\* run has seen it gone, and it is told to stop only by a finished copier.
LogOrder ==
  /\ (copier = "off") <=> (coalescer = "off")
  /\ pc \in BeforeLogs => coalescer = "off"
  /\ pc \in {"waiting", "draining"} => coalescer \in {"idle", "emitting"} /\ ~stopping
  /\ pc = "flushing" => coalescer # "off" /\ stopping
  /\ pc \in AfterEnd \cup {"reporting"} => coalescer \in {"off", "gone"}
  /\ coalescer = "off" => ~stopping
  /\ stopping => copier = "done"
  /\ verdict \in {"exit", "fault"} => coalescer # "off"

\* No line is lost on its way: what is not being sent has been, nothing stays
\* in the buffer of a flusher that is gone, and a copier ends after the last
\* line a container will ever write, unless a fault excuses it.
LinesKept ==
  /\ coalescer \in {"off", "idle", "gone"} => emitted = taken
  /\ coalescer \in {"lastEmit", "gone"} => stopping /\ taken = copied
  /\ copier = "done" =>
       \/ copied = written /\ container \in {"done", "broke", "removed"}
       \/ ctx # "live" \/ "unattached" \in notes \/ "brokenOff" \in notes

\* The terminal update is the last, and the channel is closed after it.
StreamOrder ==
  /\ Up => (Contract!Ended <=> pc \in AfterEnd)
  /\ closed <=> pc = "returned"

\* Until cleanup is due there is no container that run knows of, and once it
\* has run there is none unless the daemon would not remove it.
ContainerTracked ==
  /\ pc \in {"begin", "pulling", "creating"} => container = "none"
  /\ pc \in {"starting", "announcing", "waiting", "draining", "flushing"} => cleanupDue
  /\ ~cleanupDue => container = "none" \/ "orphan" \in notes
  /\ cleanupDue /\ pc \in {"closing", "returned"} => container = "removed" \/ "unremoved" \in notes
  /\ pc = "cleaning" => cleanupDue
  /\ ~listed => closed \/ "abandoned" \in notes

\* What the select returned is not an error only if the container has exited,
\* and it is there until cleanup.
VerdictBased ==
  /\ pc \in BeforeLogs \cup {"waiting"} => verdict = "none"
  /\ pc \in {"draining", "flushing", "reporting"} =>
       verdict = "error" \/ (verdict # "none" /\ waits /\ Exited)

\* The inductive invariant of a job's run on its agent.
RunnerIInv ==
  /\ RunnerTypeOK /\ LogOrder /\ LinesKept /\ StreamOrder /\ ContainerTracked
  /\ VerdictBased

-----------------------------------------------------------------------------
(* The stream of updates. *)

\* Only an update that is not followed by another counts for Ended.
LEMMA SendEffect ==
  ASSUME RunnerTypeOK, NEW u \in Updates, Send(u)
  PROVE  /\ sent' \in Seq(Updates) /\ Len(sent') = Len(sent) + 1
         /\ received \in 0..Len(sent') /\ Len(sent') - received <= BufferSize
         /\ Contract!Ended' <=> u \in Terminal
<1>1. sent \in Seq(Updates) /\ Len(sent) \in Nat /\ received \in 0..Len(sent)
  BY DEF RunnerTypeOK
<1>2. sent' = Append(sent, u) /\ Len(sent) - received < BufferSize
  BY DEF Send
<1>3. /\ sent' \in Seq(Updates) /\ Len(sent') = Len(sent) + 1
      /\ sent'[Len(sent) + 1] = u
  BY <1>1, <1>2
<1>4. sent' # <<>>
  BY <1>1, <1>3
<1>5. Contract!Ended' <=> u \in Terminal
  BY <1>3, <1>4 DEF Contract!Ended, Contract!Terminal, Terminal
<1>6. received \in 0..Len(sent') /\ Len(sent') - received <= BufferSize
  BY <1>1, <1>2, <1>3, RunnerAssumption
<1>7. QED
  BY <1>3, <1>5, <1>6

LEMMA RunnerInitIInv == RunnerInit => RunnerIInv
<1> SUFFICES ASSUME RunnerInit PROVE RunnerIInv
  OBVIOUS
<1>1. sent \in Seq(Updates) /\ Len(sent) = 0 /\ ~Contract!Ended
  BY DEF RunnerInit, Contract!Ended
<1>2. RunnerTypeOK
  <2>1. waits \in BOOLEAN /\ cleanupDue \in BOOLEAN /\ stopping \in BOOLEAN
        /\ closed \in BOOLEAN /\ listed \in BOOLEAN
    BY DEF RunnerInit
  <2>2. /\ statuses \in 0..MaxStatus /\ written \in 0..MaxOutput
        /\ copied \in 0..written /\ taken \in 0..copied /\ emitted \in 0..taken
        /\ received \in 0..Len(sent) /\ Len(sent) - received <= BufferSize
    BY <1>1, RunnerAssumption DEF RunnerInit
  <2>3. QED
    BY <1>1, <2>1, <2>2 DEF RunnerInit, RunnerTypeOK, Stages
<1>3. QED
  BY <1>1, <1>2 DEF RunnerInit, RunnerIInv, LogOrder, LinesKept, StreamOrder, ContainerTracked,
                    VerdictBased, BeforeLogs, AfterEnd

-----------------------------------------------------------------------------
(* Every step keeps each part of the invariant. *)

\* What ReportEnd sends.
LEMMA EndIsTerminal ==
  ASSUME ReportEnd
  PROVE  \E u \in Terminal : Send(u)
BY DEF ReportEnd, terminalForCtx, Terminal

\* The actions that send, with what they send.
LEMMA WhoSends ==
  /\ Begin \/ PullStatus \/ Announce \/ EmitLogs => \E u \in Updates \ Terminal : Send(u)
  /\ ReportEnd => \E u \in Terminal : Send(u)
<1>1. \A u \in {"PENDING", "LOG", "RUNNING"} : u \in Updates \ Terminal
  BY DEF Updates, Terminal
<1>2. QED
  BY <1>1, EndIsTerminal DEF Begin, PullStatus, Announce, EmitLogs

LEMMA RunnerTypeStep ==
  ASSUME RunnerTypeOK, RunnerNext PROVE RunnerTypeOK'
<1> USE DEF daemonVars, logVars, clientVars, runVars
<1>1. CASE Begin \/ PullStatus \/ Announce \/ EmitLogs \/ ReportEnd
  <2>1. PICK u \in Updates : Send(u)
    BY <1>1, WhoSends DEF Updates
  <2>2. /\ sent' \in Seq(Updates) /\ received \in 0..Len(sent')
        /\ Len(sent') - received <= BufferSize
    BY <2>1, SendEffect
  <2>3. CASE Begin
    BY <2>2, <2>3 DEF Begin, RunnerTypeOK, Stages
  <2>4. CASE PullStatus
    BY <2>2, <2>4, RunnerAssumption DEF PullStatus, RunnerTypeOK
  <2>5. CASE Announce
    BY <2>2, <2>5 DEF Announce, RunnerTypeOK, Stages
  <2>6. CASE EmitLogs
    BY <2>2, <2>6 DEF EmitLogs, RunnerTypeOK
  <2>7. CASE ReportEnd
    BY <2>2, <2>7 DEF ReportEnd, RunnerTypeOK, Stages
  <2>8. QED
    BY <1>1, <2>3, <2>4, <2>5, <2>6, <2>7
<1>2. CASE Pulled
  BY <1>2 DEF Pulled, RunnerTypeOK, Stages
<1>3. CASE Created
  BY <1>3 DEF Created, Stages, RunnerTypeOK
<1>4. CASE Started
  BY <1>4 DEF Started, Stages, RunnerTypeOK
<1>5. CASE Select
  BY <1>5 DEF Select, Stages, RunnerTypeOK
<1>6. CASE LogsStopped
  BY <1>6 DEF LogsStopped, Stages, RunnerTypeOK
<1>7. CASE StopLogs
  <2>1. stopping' \in BOOLEAN
    BY <1>7 DEF StopLogs
  <2>2. QED
    BY <1>7, <2>1 DEF StopLogs, RunnerTypeOK, Stages
<1>8. CASE CloseUpdates
  <2>1. closed' \in BOOLEAN
    BY <1>8 DEF CloseUpdates
  <2>2. QED
    BY <1>8, <2>1 DEF CloseUpdates, RunnerTypeOK, Stages
<1>9. CASE RemoveJob
  <2>1. listed' \in BOOLEAN
    BY <1>9 DEF RemoveJob
  <2>2. QED
    BY <1>9, <2>1 DEF RemoveJob, RunnerTypeOK, Stages
<1>10. CASE CallFails \/ Cleanup \/ Attach \/ StreamBreaks \/ AgentExits
  <2>1. notes' \subseteq Faults
    BY <1>10 DEF CallFails, Cleanup, Attach, StreamBreaks, AgentExits, RunnerTypeOK, Faults
  <2>2. QED
    <3>1. CASE CallFails
      BY <2>1, <3>1 DEF CallFails, RunnerTypeOK, Stages
    <3>2. CASE Cleanup
      BY <2>1, <3>2 DEF Cleanup, RunnerTypeOK, Stages
    <3>3. CASE Attach
      BY <2>1, <3>3 DEF Attach, RunnerTypeOK, Stages
    <3>4. CASE StreamBreaks
      BY <2>1, <3>4 DEF StreamBreaks, RunnerTypeOK
    <3>5. CASE AgentExits
      <4>1. listed' \in BOOLEAN
        BY <3>5 DEF AgentExits
      <4>2. QED
        BY <2>1, <3>5, <4>1 DEF AgentExits, RunnerTypeOK, Stages
    <3>6. QED
      BY <1>10, <3>1, <3>2, <3>3, <3>4, <3>5
<1>11. CASE Copy
  BY <1>11 DEF Copy, RunnerTypeOK
<1>12. CASE CopierEnds
  BY <1>12 DEF CopierEnds, RunnerTypeOK
<1>13. CASE \E last \in BOOLEAN : Flush(last)
  BY <1>13 DEF Flush, RunnerTypeOK
<1>14. CASE ContainerWrites
  BY <1>14, RunnerAssumption DEF ContainerWrites, RunnerTypeOK
<1>15. CASE ContainerExits
  BY <1>15 DEF ContainerExits, RunnerTypeOK
<1>16. CASE CancelJob
  BY SMTT(30), <1>16 DEF CancelJob, RunnerTypeOK
<1>17. CASE Expire
  BY <1>17 DEF Expire, RunnerTypeOK
<1>18. CASE Receive
  BY <1>18, RunnerAssumption DEF Receive, RunnerTypeOK
<1>19. QED
  BY <1>1, <1>2, <1>3, <1>4, <1>5, <1>6, <1>7, <1>8, <1>9, <1>10, <1>11, <1>12, <1>13, <1>14, <1>15, <1>16, <1>17,
     <1>18 DEF RunnerNext

LEMMA LogOrderStep ==
  ASSUME RunnerTypeOK, LogOrder, RunnerNext PROVE LogOrder'
<1> USE DEF daemonVars, logVars, clientVars, runVars, LogOrder, BeforeLogs, AfterEnd
<1>1. CASE Begin \/ PullStatus \/ Pulled
  BY <1>1 DEF Begin, PullStatus, Pulled
<1>2. CASE Created \/ Started \/ CallFails
  BY <1>2 DEF Created, Started, CallFails
<1>3. CASE Announce
  BY <1>3 DEF Announce
<1>4. CASE Select
  BY <1>4 DEF Select
<1>5. CASE StopLogs
  BY <1>5 DEF StopLogs, CopierWaited
<1>6. CASE LogsStopped
  BY <1>6 DEF LogsStopped, FlusherWaited
<1>7. CASE ReportEnd \/ Cleanup \/ CloseUpdates
  BY <1>7 DEF ReportEnd, Cleanup, CloseUpdates
<1>8. CASE Attach \/ CopierEnds \/ StreamBreaks
  BY <1>8 DEF Attach, CopierEnds, StreamBreaks
<1>9. ASSUME NEW last \in BOOLEAN, Flush(last) PROVE LogOrder'
  BY <1>9, RunnerAssumption DEF Flush, RunnerTypeOK
<1>10. CASE EmitLogs
  BY <1>10 DEF EmitLogs
<1>11. CASE Copy \/ ContainerWrites \/ ContainerExits
  BY SMTT(30), <1>11 DEF Copy, ContainerWrites, ContainerExits
<1>12. CASE Receive \/ RemoveJob
  BY <1>12 DEF Receive, RemoveJob
<1>13. CASE CancelJob \/ Expire
  BY <1>13 DEF CancelJob, Expire
<1>14. CASE AgentExits
  BY <1>14 DEF AgentExits
<1>15. QED
  BY <1>1, <1>2, <1>3, <1>4, <1>5, <1>6, <1>7, <1>8, <1>9, <1>10, <1>11, <1>12,
     <1>13, <1>14
  DEF RunnerNext

LEMMA LinesKeptStep ==
  ASSUME RunnerTypeOK, LogOrder, LinesKept, RunnerNext PROVE LinesKept'
<1> USE DEF daemonVars, logVars, clientVars, runVars, LinesKept
<1>1. CASE Begin \/ PullStatus \/ Pulled \/ Created \/ Started \/ CallFails \/ Announce
  BY <1>1 DEF Begin, PullStatus, Pulled, Created, Started, CallFails, Announce, LogOrder, BeforeLogs
<1>2. CASE Select \/ StopLogs \/ LogsStopped \/ ReportEnd \/ Cleanup \/ CloseUpdates
  BY <1>2 DEF Select, StopLogs, LogsStopped, ReportEnd, Cleanup, CloseUpdates
<1>3. CASE Attach
  BY <1>3 DEF Attach, LogOrder
<1>4. CASE Copy
  BY <1>4 DEF Copy, LogOrder
<1>5. CASE CopierEnds \/ StreamBreaks
  BY <1>5 DEF CopierEnds, StreamBreaks, StreamOver, Exited, LogOrder
<1>6. ASSUME NEW last \in BOOLEAN, Flush(last) PROVE LinesKept'
  BY SMTT(30), <1>6 DEF Flush, RunnerTypeOK
<1>7. CASE EmitLogs
  BY <1>7 DEF EmitLogs
<1>8. CASE ContainerWrites \/ ContainerExits
  BY <1>8 DEF ContainerWrites, ContainerExits
<1>9. CASE Receive \/ RemoveJob \/ CancelJob \/ Expire \/ AgentExits
  BY <1>9 DEF Receive, RemoveJob, CancelJob, Expire, AgentExits
<1>10. QED
  BY <1>1, <1>2, <1>3, <1>4, <1>5, <1>6, <1>7, <1>8, <1>9 DEF RunnerNext

\* What ends the stream is an update, so a step that sends none ends nothing.
LEMMA EndedKept ==
  ASSUME sent' = sent PROVE Contract!Ended' <=> Contract!Ended
BY DEF Contract!Ended

LEMMA StreamOrderStep ==
  ASSUME RunnerTypeOK, LogOrder, StreamOrder, RunnerNext PROVE StreamOrder'
<1> USE DEF daemonVars, logVars, clientVars, runVars, StreamOrder, AfterEnd, Up
<1>1. CASE Begin \/ PullStatus \/ Announce \/ EmitLogs
  <2>1. PICK u \in Updates \ Terminal : Send(u)
    BY <1>1, WhoSends
  <2>2. ~Contract!Ended'
    BY <2>1, SendEffect
  <2>3. CASE Begin \/ PullStatus \/ Announce
    BY <2>2, <2>3 DEF Begin, PullStatus, Announce
  <2>4. CASE EmitLogs
    BY <2>2, <2>4 DEF EmitLogs, LogOrder
  <2>5. QED
    BY <1>1, <2>3, <2>4
<1>2. CASE ReportEnd
  <2>1. PICK u \in Terminal : Send(u)
    BY <1>2, WhoSends
  <2>2. Contract!Ended'
    BY <2>1, SendEffect DEF Updates
  <2>3. QED
    BY <1>2, <2>2 DEF ReportEnd
<1>3. CASE CloseUpdates
  BY <1>3 DEF CloseUpdates, Contract!Ended
<1>4. CASE Pulled \/ Created \/ Started
  BY <1>4, EndedKept DEF Pulled, Created, Started
<1>5. CASE CallFails
  BY <1>5, EndedKept DEF CallFails
<1>6. CASE Select \/ StopLogs
  BY <1>6, EndedKept DEF Select, StopLogs
<1>7. CASE Attach \/ StreamBreaks
  BY <1>7, EndedKept DEF Attach, StreamBreaks
<1>8. CASE Copy \/ CopierEnds
  BY <1>8, EndedKept DEF Copy, CopierEnds
<1>9. ASSUME NEW last \in BOOLEAN, Flush(last) PROVE StreamOrder'
  BY <1>9, EndedKept DEF Flush
<1>10. CASE ContainerWrites \/ ContainerExits
  BY <1>10, EndedKept DEF ContainerWrites, ContainerExits
<1>11. CASE Receive \/ RemoveJob
  BY <1>11, EndedKept DEF Receive, RemoveJob
<1>12. CASE CancelJob \/ Expire
  BY <1>12, EndedKept DEF CancelJob, Expire
<1>13. CASE AgentExits
  BY <1>13, EndedKept DEF AgentExits
<1>14. CASE LogsStopped \/ Cleanup
  BY <1>14, EndedKept DEF LogsStopped, Cleanup
<1>15. QED
  BY <1>1, <1>2, <1>3, <1>4, <1>5, <1>6, <1>7, <1>8, <1>9, <1>10, <1>11, <1>12,
     <1>13, <1>14 DEF RunnerNext

LEMMA ContainerTrackedStep ==
  ASSUME RunnerTypeOK, ContainerTracked, RunnerNext PROVE ContainerTracked'
<1> USE DEF daemonVars, logVars, clientVars, runVars, ContainerTracked
<1>1. CASE Created \/ Started \/ CallFails
  BY <1>1 DEF Created, Started, CallFails, RunnerTypeOK
<1>2. CASE ReportEnd \/ CloseUpdates
  BY <1>2 DEF ReportEnd, CloseUpdates
<1>3. CASE Cleanup
  BY <1>3 DEF Cleanup
<1>4. CASE ContainerExits
  BY <1>4 DEF ContainerExits
<1>5. CASE Begin \/ PullStatus \/ Pulled \/ Announce \/ Select \/ StopLogs \/ LogsStopped
  BY <1>5 DEF Begin, PullStatus, Pulled, Announce, Select, StopLogs, LogsStopped
<1>6. CASE Attach \/ StreamBreaks
  BY <1>6 DEF Attach, StreamBreaks
<1>7. CASE Copy \/ CopierEnds \/ EmitLogs
  BY <1>7 DEF Copy, CopierEnds, EmitLogs
<1>8. ASSUME NEW last \in BOOLEAN, Flush(last) PROVE ContainerTracked'
  BY <1>8 DEF Flush
<1>9. CASE ContainerWrites \/ Receive
  BY <1>9 DEF ContainerWrites, Receive
<1>10. CASE RemoveJob \/ CancelJob \/ Expire
  BY <1>10 DEF RemoveJob, CancelJob, Expire
<1>11. CASE AgentExits
  BY <1>11 DEF AgentExits
<1>12. QED
  BY <1>1, <1>2, <1>3, <1>4, <1>5, <1>6, <1>7, <1>8, <1>9, <1>10, <1>11 DEF RunnerNext

LEMMA VerdictBasedStep ==
  ASSUME RunnerTypeOK, VerdictBased, RunnerNext PROVE VerdictBased'
<1> USE DEF daemonVars, logVars, clientVars, runVars, VerdictBased, BeforeLogs, Exited
<1>1. CASE Begin \/ PullStatus \/ Pulled \/ Created \/ Started \/ CallFails
  BY <1>1 DEF Begin, PullStatus, Pulled, Created, Started, CallFails
<1>2. CASE Announce \/ Select
  BY <1>2 DEF Announce, Select
<1>3. CASE StopLogs \/ LogsStopped
  BY <1>3 DEF StopLogs, LogsStopped
<1>4. CASE ReportEnd \/ Cleanup \/ CloseUpdates \/ AgentExits
  BY <1>4 DEF ReportEnd, Cleanup, CloseUpdates, AgentExits
<1>5. CASE Attach \/ Copy \/ CopierEnds \/ StreamBreaks \/ EmitLogs
  BY <1>5 DEF Attach, Copy, CopierEnds, StreamBreaks, EmitLogs
<1>6. ASSUME NEW last \in BOOLEAN, Flush(last) PROVE VerdictBased'
  BY <1>6 DEF Flush
<1>7. CASE ContainerWrites \/ ContainerExits \/ Receive
  BY <1>7 DEF ContainerWrites, ContainerExits, Receive
<1>8. CASE RemoveJob \/ CancelJob \/ Expire
  BY <1>8 DEF RemoveJob, CancelJob, Expire
<1>9. QED
  BY <1>1, <1>2, <1>3, <1>4, <1>5, <1>6, <1>7, <1>8 DEF RunnerNext

-----------------------------------------------------------------------------
(* The theorems. *)

\* The parts of the invariant hold together (run, streamLogs, logCoalescer).
THEOREM RunnerInvariant == RunnerSpec => []RunnerIInv
<1>1. RunnerIInv /\ [RunnerNext]_rVars => RunnerIInv'
  <2>1. ASSUME RunnerIInv, RunnerNext PROVE RunnerIInv'
    BY <2>1, RunnerTypeStep, LogOrderStep, LinesKeptStep, StreamOrderStep, ContainerTrackedStep,
       VerdictBasedStep DEF RunnerIInv
  <2>2. ASSUME RunnerIInv, UNCHANGED rVars PROVE RunnerIInv'
    <3>1. RunnerTypeOK'
      BY SMTT(90), <2>2 DEF RunnerIInv, RunnerTypeOK, rVars
    <3>2. LogOrder' /\ LinesKept'
      BY <2>2 DEF RunnerIInv, LogOrder, LinesKept, rVars
    <3>3. StreamOrder' /\ ContainerTracked'
      BY <2>2 DEF RunnerIInv, StreamOrder, ContainerTracked, Contract!Ended, Up, rVars
    <3>4. VerdictBased'
      BY <2>2 DEF RunnerIInv, VerdictBased, Exited, rVars
    <3>5. QED
      BY <3>1, <3>2, <3>3, <3>4 DEF RunnerIInv
  <2>3. QED
    BY <2>1, <2>2
<1>2. QED
  BY <1>1, RunnerInitIInv, PTL DEF RunnerSpec

\* The counters of lines stay nested and the updates channel never holds more
\* than its buffer (run, flush, emit of docker.go).
THEOREM RunnerTypes == RunnerSpec => []RunnerTypeOK
<1>1. RunnerIInv => RunnerTypeOK
  BY DEF RunnerIInv
<1>2. QED
  BY <1>1, RunnerInvariant, PTL

\* Every exit path drains the log before the terminal update: when the exit of
\* a container is reported, all it wrote has been sent, unless the log could not
\* be attached or broke off, or the context died (finishLogs, stop, flush).
THEOREM RunnerOutputComplete == RunnerSpec => []OutputComplete
<1>1. RunnerIInv => OutputComplete
  BY DEF RunnerIInv, OutputComplete, LogOrder, LinesKept, AfterEnd
<1>2. QED
  BY <1>1, RunnerInvariant, PTL

\* When the updates channel is closed or the job is not listed any more, no
\* container is left, except one the daemon would not remove or created without
\* saying so, or one whose agent exited under it (defer cleanup).
THEOREM RunnerNoContainerLeft == RunnerSpec => []NoContainerLeft
<1>1. RunnerIInv => NoContainerLeft
  BY DEF RunnerIInv, NoContainerLeft, StreamOrder, ContainerTracked
<1>2. QED
  BY <1>1, RunnerInvariant, PTL

\* A cancelled job is reported CANCELLED, whatever fails on the way, unless its
\* container has exited while run waited for it (terminalForCtx, the select).
THEOREM RunnerCancelReported == RunnerSpec => CancelReported
<1> DEFINE A == \A u \in Terminal : ctx = "cancelled" /\ sent' = Append(sent, u) =>
                  u = "CANCELLED" \/ (waits /\ Exited)
<1>1. RunnerIInv /\ [RunnerNext]_rVars => [A]_rVars
  <2> SUFFICES ASSUME RunnerIInv, RunnerNext, NEW u \in Terminal, ctx = "cancelled",
                      sent' = Append(sent, u)
               PROVE  u = "CANCELLED" \/ (waits /\ Exited)
    OBVIOUS
  <2>1. sent \in Seq(Updates)
    BY DEF RunnerIInv, RunnerTypeOK
  <2>2. \A v \in Updates : sent' = Append(sent, v) => u = v
    <3> SUFFICES ASSUME NEW v \in Updates, Append(sent, u) = Append(sent, v)
                 PROVE  u = v
      OBVIOUS
    <3>1. \A w \in Updates : Append(sent, w)[Len(sent) + 1] = w
      BY <2>1
    <3>2. QED
      BY <3>1 DEF Updates
  <2>3. sent' # sent
    BY <2>1 DEF Updates
  <2>4. CASE Begin \/ PullStatus \/ Announce \/ EmitLogs
    BY <2>2, <2>4, WhoSends DEF Send
  <2>5. CASE ReportEnd
    <3>1. CASE verdict = "error"
      <4>1. Send("CANCELLED")
        BY <2>5, <3>1 DEF ReportEnd, terminalForCtx
      <4>2. QED
        BY <2>2, <4>1 DEF Send, Updates, Terminal
    <3>2. CASE verdict \in {"exit", "fault"}
      BY <2>5, <3>2 DEF ReportEnd, RunnerIInv, VerdictBased
    <3>3. verdict # "none"
      BY <2>5 DEF ReportEnd, RunnerIInv, VerdictBased
    <3>4. QED
      BY <3>1, <3>2, <3>3 DEF RunnerIInv, RunnerTypeOK
  <2>6. CASE \/ Pulled \/ Created \/ Started \/ CallFails \/ Select \/ StopLogs \/ LogsStopped
             \/ Cleanup \/ CloseUpdates \/ Attach \/ Copy \/ CopierEnds \/ StreamBreaks
             \/ (\E last \in BOOLEAN : Flush(last)) \/ ContainerWrites \/ ContainerExits \/ Receive
             \/ RemoveJob \/ CancelJob \/ Expire \/ AgentExits
    BY <2>3, <2>6 DEF Pulled, Created, Started, CallFails, Select, StopLogs, LogsStopped, Cleanup,
                      CloseUpdates, Attach, Copy, CopierEnds, StreamBreaks, Flush, ContainerWrites,
                      ContainerExits, Receive, RemoveJob, CancelJob, Expire, AgentExits
  <2>7. QED
    BY <2>4, <2>5, <2>6 DEF RunnerNext
<1>2. QED
  BY <1>1, RunnerInvariant, PTL DEF RunnerSpec, CancelReported

\* run and the flusher, which send on the same channel, together keep the
\* promise of the Runner interface: one terminal update, nothing after it, then
\* the channel is closed, once (run, logCoalescer).
THEOREM RunnerImplementsStream == RunnerSpec => ImplementsStream
<1>1. RunnerInit => Contract!StreamInit
  BY DEF RunnerInit, Contract!StreamInit
<1>2. RunnerIInv /\ [RunnerNext]_rVars => [Contract!StreamNext]_<<sent, closed>>
  <2> SUFFICES ASSUME RunnerIInv, [RunnerNext]_rVars
               PROVE  Contract!StreamNext \/ UNCHANGED <<sent, closed>>
    OBVIOUS
  <2> USE DEF daemonVars, logVars, clientVars, runVars
  <2>1. CASE Begin \/ PullStatus \/ Announce \/ EmitLogs \/ ReportEnd
    <3>1. PICK u \in Updates : Send(u)
      BY <2>1, WhoSends DEF Updates
    <3>2. ~Contract!Ended /\ ~closed
      BY <2>1 DEF Begin, PullStatus, Announce, EmitLogs, ReportEnd, RunnerIInv, StreamOrder, LogOrder,
                  AfterEnd, Up
    <3>3. UNCHANGED closed
      BY <2>1 DEF Begin, PullStatus, Announce, EmitLogs, ReportEnd
    <3>4. Contract!Update(u)
      BY <3>1, <3>2, <3>3 DEF Contract!Update, Send
    <3>5. QED
      BY <3>4 DEF Contract!StreamNext, Contract!Live, Contract!Terminal, Updates, Terminal
  <2>2. CASE CloseUpdates
    BY <2>2 DEF CloseUpdates, RunnerIInv, StreamOrder, AfterEnd, Up, Contract!CloseStream,
                Contract!StreamNext
  <2>3. CASE \/ Pulled \/ Created \/ Started \/ CallFails \/ Select \/ StopLogs \/ LogsStopped
             \/ Cleanup \/ Attach \/ Copy \/ CopierEnds \/ StreamBreaks
             \/ (\E last \in BOOLEAN : Flush(last)) \/ ContainerWrites \/ ContainerExits \/ Receive
             \/ RemoveJob \/ CancelJob \/ Expire \/ AgentExits \/ UNCHANGED rVars
    BY <2>3 DEF Pulled, Created, Started, CallFails, Select, StopLogs, LogsStopped, Cleanup,
                Attach, Copy, CopierEnds, StreamBreaks, Flush, ContainerWrites, ContainerExits,
                Receive, RemoveJob, CancelJob, Expire, AgentExits, rVars
  <2>4. QED
    BY <2>1, <2>2, <2>3 DEF RunnerNext
<1>3. QED
  BY <1>1, <1>2, RunnerInvariant, PTL DEF RunnerSpec, ImplementsStream, Contract!StreamSpec
=============================================================================
