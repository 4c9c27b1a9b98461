# Formal model of gridlink

gridlink runs inference models and container jobs on machines that come and go.
This directory holds TLA+ models of its control plane and of the parts of an agent
that run jobs and models, the TLC configurations that check them, and proofs
checked by TLAPS.

## 1. The system

| part | code | state it keeps | operations | talks to |
|---|---|---|---|---|
| node registry | `coordinator/internal/registry` | node entries: status, last seen, address, stream handle | Upsert, Touch, MarkDisconnected, reaper | everything in the coordinator |
| stream handler | `coordinator/internal/server` (`Connect`) | one goroutine per agent stream | register, ack, dispatch of agent messages, deferred disconnect | registry, scheduler, deployment manager |
| deployment manager | `coordinator/internal/deployments` | desired deployments, the replica of each, bans | Create, place, Delete, OnUpdate, OnHeartbeat, Reconcile | registry, agents through stream handles |
| job scheduler | `coordinator/internal/scheduler` | job table | RunJob, OnJobUpdate, Reconcile | registry, agents |
| usage store | `coordinator/internal/store` | usage rows | Insert, Summarize | gateway through ReportUsage |
| agent session | `agent/internal/client` | stream, outbound queue, active jobs and deployments, backoff, node id file | Run, runOnce, writer, heartbeat loop, start/stop/emit | coordinator, runner, engine manager |
| native manager | `agent/internal/deploy` | an engine process per deployment, model cache | Start, download, wait for ready | agent session, engine |
| container runner | `agent/internal/runner` | a container per job | pull, create, wait, clean up | agent session, Docker |
| engine server | `agent/internal/engine` | a loaded model | chat and completion, blocking or streamed | gateway |
| gateway | `gateway/internal/{proxy,router,usage}` | replica cache, usage queue | route, forward with one retry, capture and report usage | coordinator, engines |

What makes it hard:

* Every coordinator component has its own mutex and gives it up around network
  sends. `place` reads the occupied nodes, copies the bans, scans the registry,
  sends, and records, in five separate steps.
* An agent reconnects before the coordinator has noticed that its old stream is
  dead, so two handlers of one node run at the same time.
* All of the coordinator's state is in memory; agents outlive it.
* Updates are dropped when an agent is disconnected or its queue is full.
* Node loss, failure and absence are decided by timeouts.
* Deployments of the same model share a cache entry, which is checked by one
  process and loaded by another.
* In an engine a handler may return before the goroutine that generates for it.

What correctness means here: messages reach the node they are meant for; a
node hosts one deployment; a deployment is not put back where it just failed;
what is wanted eventually runs and what is not wanted eventually stops; an
agent always gets back to the coordinator; an engine serves the weights it
should and answers for one request at a time; a request is billed at most once,
and for what was generated.
`PROJECT.json` lists the hazards line by line.

## 2. Modules

| module | models | extends |
|---|---|---|
| `Registry` | the registry and the life of an agent stream in `Connect` | |
| `Deployments` | the deployment manager, with arbitrary agents | `Registry` |
| `Channels` | agents at the other end of the registry's streams, frames in order both ways | `Registry` |
| `Jobs` | the job scheduler, the stream handlers and the agents' jobs | `Channels` |
| `Cluster` | the deployment manager and the agents' deployments | `Deployments`, `Channels` |
| `AgentSession` | the agent's client: reconnect loop, session goroutines, tasks | |
| `Routing` | the gateway's router and the control of a request | |
| `Usage` | from an answered request to its usage record: capture, reporter, stores, gateway shutdown | |
| `Ledger` | what the usage records promise; `Usage` implements it | |
| `Runner` | one container job: `run`, its log goroutines, its reader | |
| `JobStream` | what the `Runner` interface promises; `Runner` implements it | |
| `Native` | one deployment on an agent: download, model cache, engine process, updates | |
| `DepStream` | what is kept of the promise of the `Manager` interface; `Native` implements it | |
| `Engine` | the engine once its model is loaded: handlers, generation, shutdown | |
| `Provider` | a deployment, its engine and the requests to it | `Native`, `Engine` |
| `MCDeployments`, `MCCluster`, `MCRouting` | instances for TLC (the others need none) | |
| `ChannelsProofs` | proofs about `Registry`, lemmas about `Channels` | `Channels` |
| `ClusterProofs` | proofs about `Deployments` and `Cluster` | `Cluster`, `ChannelsProofs` |
| `JobsStreamsProofs`, `JobsTraceProofs`, `JobsProofs` | proofs about `Jobs`: its streams, the trace of a job, the theorems | `Jobs`, `ChannelsProofs` |
| `AgentProofs` | proofs about `AgentSession` and `Runner` | `AgentSession`, `Runner` |
| `ProviderProofs` | proofs about `Native`, `Engine` and `Provider` | `Provider` |
| `GatewayProofs` | proofs about `Usage` and `Routing` | `Usage`, `Routing` |

Definitions named `...KeepsHandle`, `...Unbounded`, `...Blind` and so on, each
under the comment "Faulty variant", are plausible bugs. No specification uses
them; each makes a property below fail when it replaces the definition after it,
which shows that the property depends on that part of the code.

### Registry

One step is one registry method (each holds the mutex for its whole body) or
one step of a handler. `known`, `status`, `silence`, `send` and `addr` are the
fields of `Node`; `silence` is the age of `LastSeen` in heartbeat intervals and
stops one above the reaper's threshold, since nothing tells larger ages apart. A
member of `Streams` is a slot for a stream, used again after its handler has
returned. `send[n]` is the stream that `Node.Send` writes to. `Register` breaks
the transport of the node's earlier streams, because `runOnce` closes its
connection before it dials again; their handlers find out later (`StreamEnds`).
`excused` is a history variable: the streams that shared their node with another
handler, or were open when the reaper struck.

### Deployments

The steps of a `place` call are separate: `ReadOccupied`, `ReadBans`,
`SelectNode` or `NoNode`, `SendStart`, `Record`. `placer[p]` is the call a
goroutine is in, for the `Create` call of each deployment and for the reconciler.
The current time is taken together with the copy of the bans. `OnHeartbeat` and `OnUpdate`
run in the handler of a stream; the stops and `unplace` calls that follow the
critical section are steps of their own (`StopOrphan`, `Unplace`). A deployment
id is minted once. Ages are kept as in `Registry`; a ban is kept as the time it
still has to run.

LOADING is not told apart from PULLING, and progress, error texts and ports are
left out: no decision of the manager depends on them. `sendStop` looks the
handle up and sends in one step; neither outcome changes the manager's state.
`overlapped` is a history variable: `{d, e}` when place calls for `d` and `e`
overlapped, `{d}` when `Reconcile` gave up the replica of `d` while its `Create`
call was still placing it, or two calls placed it at once.

### Channels, Jobs and Cluster

`Channels` puts agents at the other end of the registry's streams. An agent's
`runOnce` is one of four states: `off`, `await` (for the RegisterAck), `serve`,
and `stuck`, which is what `AgentSession` shows of a session that fails before
its RegisterAck. Frames keep their order on a stream. A broken stream loses what
is under way, or some of it: each end sees the failure when it likes. `Emit`
drops an update when there is no session or no room; a heartbeat waits for room.

`Jobs` adds the scheduler. Each of its methods is one critical section, except
`RunJob`, which makes the entry (`RunJob`) and then sends (`SendJob`). `age` is the
age of `LastUpdate` and stops at the grace period. What a runner reports is left
open: live updates, then one terminal update, as `JobStream` promises. A job that
`runJob` has not yet removed is `over`.

`Cluster` adds agents to `Deployments`: each step of the coordinator is a step
of that module, with the heartbeats and updates an agent really sent, and with
the starts and stops delivered. A deployment on an agent is pulling, ready,
stopping or over; what happens inside is `Native`.

Faults are failures of a transport, crashes of an agent (its jobs and
deployments are gone) and restarts of the coordinator (all its tables are gone).

### AgentSession

`main` is where `Run` and `runOnce` are; in `drain` the deferred calls of
`runOnce` run, in the order Go runs them: `Client.out` is nil again, `wg.Wait`,
`sessCancel`, `conn.Close`. The writer and the heartbeat goroutine, `emit` and
`emitDeployment` (which read `Client.out` under the mutex and use it after) are
interleaved with it. Jobs and deployments have the same life cycle in the client
and are both tasks. Queue entries are kinds of messages only. gRPC is outside:
a stream may end at any time, then `Send` fails, and `Recv` fails once it has
handed out what had arrived. The length of a backoff wait is left out, its schedule
(`cur`) is kept. The node id file is left out.

### Routing

One model name, since entries of different models never meet. The two critical
sections of `replicas` (`Lookup`, `Fill`) and that of `Pick` (`Choose`) are
steps; the answer of the coordinator is computed in one step (`ResolveModel`)
and stored in another, up to `ResolveTime` ticks later. `Resolve` itself, which
reads the deployment table and then the registry, is one step; it lists the READY
replicas in any order (`Listings`), since it ranges over a map. The coordinator's
side is otherwise arbitrary: replicas become READY and cease to be, deployments
come and go. The round-robin cursor wraps at a multiple of every possible number
of replicas, which the code, taking it modulo that number, cannot tell apart.
Goroutines are taken not to rest between two critical sections while the clock
ticks. `gone` and `stocked` are history variables: how long ago a replica was
READY, and for how long there has been one.

### Usage and Ledger

A request id is used once, so a request is its id. `phase` follows `forward`; an
attempt of which nothing has been written may be repeated once, with the same
id. The parser goroutine of `capture` runs beside it. A failing copy to the client
makes `httputil.ReverseProxy` abort the handler, and nothing is reported. `ch`,
`drain` and `sending` are the reporter; `net` holds the calls the coordinator has
yet to deal with, which may outlive the deadline of `send`. `Durable` chooses
the store: Postgres takes a request for a duplicate when it has a row, the JSONL
store when it is in `seen`, which a restart empties. `Terminate` is the signal:
`Serve` returns when `Shutdown` has closed the listener, and main closes the
reporter without waiting for handlers. The record's contents are the node to be
credited; `dropped`, which only feeds a log line, is left out. A record that
`validate` refuses is never made: id and node are always set.

`Ledger` says what is promised: a request is recorded at most once, credited to
the node that answered, and stays recorded. The mapping is `billed <- rows`, the
number of rows, so a second row is a violation.

### Runner and JobStream

`pc` follows `run` and its deferred calls: the terminal update, `cleanup`,
`close(updates)`. The log copier and the flusher of `logCoalescer` are goroutines
of their own; all three send on the bounded channel. A call to Docker may fail
with or without having had its effect. The context is `live`, `cancelled` or
`expired`, whichever came first; `waits` says whether `ContainerWait` was called
while it was live, since otherwise it only returns an error. Output is counted in
lines; the log may not be had (`Attach`), or break off while the context is live
(`StreamBreaks`), in which case what follows is lost. `AgentExits` is the end of the
agent's process: `main` returns after a signal as soon as `Client.Run` does, which
waits for no job, so no deferred call of `run` is sure to be made, and the container is
left to the daemon. `notes` is a history variable: which of these faults there were.
`JobStream` is the contract of `Run`: updates, the last of them terminal, then the
channel is closed.

### Native, DepStream, Engine and Provider

In `Native` `pc` follows `run`; each send on the updates channel is a step, as is
each access of `downloadModel` to the file system. `send` waits a second for room, so
an update is dropped when the channel is full. A file is identified with its
digest. Other deployments of the same file (`Rival`) may have another pin, or
none, and remove or replace the entry at any time. The engine process starts,
listens, loads and serves, and may end at any point; `Bound` is what
`exec.CommandContext` does. `Crash` is the end of the agent's process, killed or
returning from `main` without waiting for a deployment: an engine it had may go on, is
nobody's child from then on and is not followed any further (`proc` is about the
engine of the agent there is now); the cache stays. `shown` and `overtaken` are
history variables.

`DepStream` is what `Manager.Start` keeps of its contract: states come in order,
the last is FAILED or STOPPED, then the channel is closed. The interface says that
"cancelling ctx must tear down the engine and emit STOPPED" (`deploy.go:33`). That is
stated with its two exceptions: a deployment cancelled before its end is decided does
not fail, unless the engine is just being started (`starting`); and a terminal update is
left out only when the channel is full (`full`).

`Engine` has a handler and a generation per request. The handlers take turns
under `Server.mu` (`turn`); the goroutine that `Generate` starts holds
`llamaModel.mu` (`model`) until it has ended, which may be after its handler has
returned. `kv` is whose tokens are in the KV cache, `out` the channel of tokens. What
is sampled, whether a stop sequence is complete and whether a call into the
C library fails are choices. `generated` is the code's counter; `sampled` and `sent` count
what happened. The body is read and the chat template applied before any mutex is
taken (`Prepare`). A client may hang up, after which writes fail at once, or stop
reading for as long as it likes (`Stall`): the server has no write timeout
(`cmd/agent/engine.go:82`), so a handler that streams waits in `Flush`, and one that
has collected its answer in the final write (`CanWrite`), with `Server.mu` held.
Before generation only an error is written, which the buffers take. `EngineDies` is
the end of the process.

In `Provider` requests arrive once READY was shown, and the engine ends when its process does.

## 3. What is checked

| run | instance | distinct states | result |
|---|---|---|---|
| `jobs` | 1 node, 2 streams, 1 job, grace period 3, 2 faults | 149,159 | `HandleSound`: a handle on record belongs to a running handler of that ONLINE node. `HandleLossExplained`: a running stream is without the handle only after a rival stream or a reaper pass. `SilenceNoticed`: a silent node is heard from again or goes OFFLINE. `NoFalseLoss`: `Reconcile` never fails a job that its agent runs, is about to start or has just reported on. `TerminalKept`: a terminal state is final, except for an update from a stream the agent has left. `JobsSettle`: a job that is over for its agent does not stay unfinished on record |
| `handle_restored` | 1 node, 2 streams | | **violated**: `LiveStreamHasHandle` |
| `placement` | 1 node, 1 stream, 2 deployments | 2,122,666 | `SharingNeedsOverlap`: two deployments share a node only if their place calls overlapped |
| `cluster` | 1 node, 1 stream, 1 deployment, 1 fault | 187,871 | `BanRespected`: no deployment on a node it is banned from, except through a `Create` call still under way. `DeletedStops`: what nobody wants is stopped where it can be. `GhostGone`: a replica that its agent does not have does not stay READY on record. `WantedRuns`: what is wanted runs where it can |
| `ready_lost` | as `cluster` | | **violated**: `ReadyKnown` |
| `session` | 2 tasks, one of them not supported, queue of 2 | 1,721 | `RegisterFirst`: `Register` is the first frame of every stream, though updates are queued all the time. `LostSessionRetried`, `ShutdownReturns`: a session lost after its RegisterAck is followed by another one, and a shutdown ends `Run` |
| `session_retry` | as `session` | | **violated**: `FailureRetried` |
| `routing` | 2 requests, 2 deployments on 2 nodes, time to live 2, symmetry | 388,717 | `RoutedWasReady`, `RefusedWasEmpty`: no request is routed, or refused for want of replicas, on knowledge older than the time to live plus one call |
| `usage` | 2 requests, 2 nodes, queue of 1, JSONL | 111,437 | `ImplementsLedger`: at most one row per request, for the node that answered. `CloseFlushes`: what was queued at the signal is sent before the exit. `CloseReturns`: the shutdown ends even if the coordinator hangs |
| `usage_shutdown` | 2 requests, 1 node, queue of 2, Postgres | | **violated**: `ShutdownKeepsUsage` |
| `runner` | 1 pull status, 2 lines of output, channel of 1 | 42,970 | `ImplementsStream`: one terminal update, nothing after it, one close. `OutputComplete`: when an exit is reported all output has been sent, unless the log was not attached or broke off, or the context died. `NoContainerLeft`: none is left once the job is off the list, except one the daemon would not remove or created without saying so, or one whose agent's process ended. `CancelReported`: a cancelled job is reported CANCELLED, unless its container exited while `run` waited for it. `CancelEnds`: a cancelled or expired job ends though its container may not |
| `provider` | 2 contents, rivals with the same pin and with none, 1 crash; 2 requests, one streamed, 1 token each, channels of 1 | 144,708 | `WeightsAsPinned`: an engine serves the weights of its pin, unless the file was replaced between check and load. `NoEngineLeft`: no process of the agent there is now is left that nobody waits for. `ImplementsDepStream`: order and end of the updates, STOPPED after a cancellation with the two exceptions of `DepStream`. `StopEnds`: a stopped deployment ends, wherever it was. `ExitNoticed`: an engine that ends is noticed. `ContextOwned`: a generation has the model to itself. `AnswersTrue`: a complete answer is complete and bills what was generated, unless it is a stream whose generation failed. `Answered`: every well-formed request is answered, unless clients that do not read hold the engine up for good |

Every passing run also checks the type invariant of its module.

**Bounds.** Ages and bans saturate, stream slots are used again, and in the modules
without faults no action is limited by a counter, so those runs cover behaviours of any
length. `MaxFaults` and `MaxCrashes` bound only the faults; everything else goes on for
ever. Two faults and two streams let an agent reconnect while the old handler is still
there, and fail again. A grace period of 3 ticks is the shortest that a dispatch and a
heartbeat, each less than two ticks under way, cannot cross together; `NoFalseLoss`
fails with 2. Queues of one frame make an agent drop updates and a coordinator's send
wait; one heartbeat at a time is under way. One node and two deployments are the least
for a contested node; the reconciler and two `Create` calls are then three place calls
at once. In `placement` heartbeats list both deployments or none and agents report
nothing; in `cluster` one deployment is reported on at every stage, and the proofs cover
any; it exists from the start, so the bans that a `Create` call can miss are covered by
`ManagerBans` and `ClusterBans` only. Two requests suffice for a resolve that crosses an
invalidation, for a queue of one record that is full while another is being sent, and
for a request that waits for another's generation; requests of `Routing` are slots that
are used again. A channel of one update makes every sender of `Runner` and `Native`
block or drop; one token and the final one do not fit an engine channel of one. Two
contents are the pinned one and any other. In `provider` rivals act only while no engine
serves: what they do to the cache entry after that concerns only the next start. The
`routing` and `placement` runs identify states that differ only in variables that
influence nothing (`View`).

**Time.** In `Jobs` and `Cluster` a tick is long compared to a message (`Timely`). In
`Jobs` no tick passes while a `Send` of `RunJob` is under way, and a frame is read, or
lost with its reader, before the second tick after it was sent. This includes frames
that had arrived on a stream that has broken since: its handler reads them, or fails, in
time. `NoFalseLoss` leans on that, since a heartbeat read arbitrarily late from an old
stream would fail any job dispatched after it. In `Cluster`, where a tick is as long as
`lostAfter`, sends and the frames to an agent are through within one, and an agent is
heard in every tick unless its stream has broken. The grace period, the reaper and
`lostAfter` are meant for networks of which this is true (30 and 60 seconds); without it
no timeout is long enough.

**Fairness.** The clock runs and the tickers fire (reaper, reconciler); each goroutine
of the coordinator, the agent, the gateway and the engine that can go on does; deadlines
and timers pass. Fairness is stated per goroutine: the reconciler's covers its pass and
the `place` calls that follow it (`Reconciles`), a deployment's its end and its removal
(`Ends`). `DeletedStops`, `GhostGone` and `WantedRuns` say of a bad situation that it
does not last: again and again it does not hold. `cluster` needs strong fairness of the
heartbeat, which in the model waits for the stream to be empty, while the code's only
waits for room. Nothing is assumed of operators, of the network, of the clients of an
engine (they may hang up or not read for ever), of runners and engines (they may run,
load or hang for ever), nor of a download, unless its context is dead. `handle_restored`
assumes that an agent with a working stream keeps heartbeating. `runner` assumes that a
call to Docker returns once its context is dead; the container may run for ever.
`provider` assumes that a killed process ends, that a decode or a sample call returns,
and that a write returns when the client reads or has hung up. `Answered` says of its
clients only that from some time on none that does not read has the turn (`HeldUp`);
`LostSessionRetried` and the liveness of `jobs` and `cluster` rest on agents that come
back, as `Run` does.

**Deadlock** is checked except in the session runs, where `Run` returns after a
shutdown, and in `runner`, where the job ends.

### Where the code disagrees with its comments

1. `LiveStreamHasHandle`. An agent reconnects; `Upsert` stores the new stream's
   handle; then the handler of the old stream returns and its deferred
   `MarkDisconnected` drops that handle. The next heartbeat makes the node
   ONLINE again, without a handle, and nothing gives it one back while the
   stream lives. Nothing can be placed on that node or stopped there.
2. `FailureRetried`. `runOnce` defers `wg.Wait` after `sessCancel`, so it runs
   first. If the session fails after `Register` was sent and before the
   `RegisterAck` is read, the writer waits on an empty queue for a context that
   is cancelled only after it has returned: the agent never reconnects. After
   the ack the next heartbeat's failing `Send` saves the session
   (`LostSessionRetried`), and a shutdown always gets through
   (`ShutdownReturns`).
3. `ReadyKnown`. READY is sent once. If the agent is disconnected or its queue
   is full at that moment the update is dropped, and the heartbeats, which list
   ids and no states, do not make up for it: the engine serves, and the
   coordinator never routes to it.
4. `ShutdownKeepsUsage`. `Serve` returns before `Shutdown` has waited for the
   handlers; main flushes the queue and exits under them. Usage that was
   captured and not yet queued is lost.

The models also contain behaviours that no run is spent on. Some are the named
exceptions of properties:

* Two place calls that both read the occupied nodes before either records its
  replica put two deployments on one node (`SharingNeedsOverlap`).
* An update from an abandoned stream may overwrite a terminal state
  (`TerminalKept`).
* A deployment with another pin, or none, may replace the cache entry between
  the check and the load of another one (`WeightsAsPinned`).
* A stream whose generation fails ends like a complete one, with an empty usage
  (`AnswersTrue`).
* A container that exits just after a cancellation is reported by its exit code,
  because `select` may pick either branch, although "cancellation of ctx must kill the
  container and emit CANCELLED" (`runner.go:24`; `CancelReported`).
* A deployment stopped while its engine's address is awaited, or before the
  process is started, ends with FAILED, although a stop must "emit STOPPED"
  (`deploy.go:33`; `AddrFails`, `Launch`), and a terminal update that finds the channel
  full is dropped (`ImplementsDepStream`).
* A log stream that breaks off is noted in the log only: the exit is reported as if
  the output were complete (`StreamBreaks`, `OutputComplete`).
* An agent that is killed, and one that is asked to end (`main.go:129` waits for neither
  jobs nor deployments), leaves containers and engines running; the next agent knows
  nothing of them (`AgentExits`, `Crash`; `NoContainerLeft`, `NoEngineLeft`).
* A client that does not read keeps its handler in a write with `Server.mu` held, and
  behind a full channel its generation with the model's mutex: nobody else is answered
  until it reads or hangs up (`Stall`, `Answered`).

Others are plain to see in the modules:

* A resolve under way when another request calls `Invalidate` stores the
  unreachable replica again; `RoutedWasReady` bounds how long that can last.
* The retry of a request excludes the failed deployment rather than the failed
  node, so a replica that has moved meanwhile is passed over (`Another`).
* A deployed model is answered with 404 when the list of deployed models cannot
  be had (`ListFails`).
* The chat template is applied without the model's mutex, so a request accepted before a
  shutdown may use a model that `Close` has freed (`Prepare`, `llama_darwin.go:253`).

## 4. What is proved

Every invariant, every action property and every refinement that a passing run
checks is also a theorem, for every value of the constants that meets the named
assumptions (`RegistryAssumption`, `DeploymentsAssumption`, `ChannelsAssumption`,
`ClusterAssumption`, `JobsAssumption`, `NoneIsNoJob`, `SessionAssumption`,
`RoutingAssumption`, `UsageAssumption`, `RunnerAssumption`, `NativeAssumption`,
`EngineAssumption`). They say of the constants what the code's types and constants
do: sets of ids apart from "none", capacities that are numbers, a finite number of
replicas. One theorem group asks for more and says so: `Grace >= 3`, below.

* `ChannelsProofs`: `RegistryHandleSound`, `RegistryHandleLossExplained`. The inductive
  invariant `RegIInv` adds that a running handler's node is known, and that two
  running handlers of one node are both in `excused`: without the latter an
  `Upsert` could take the handle of a stream not in the history. The lemmas on
  streams say of each operation (`Put`, `Take`, `Emit`, ...) that frames stay frames
  and queues within their capacity, for any kind of frame.
* `ClusterProofs`, of the manager: `ManagerImplementsRegistry` (`DepSpec => RegSpec`), so
  every property of the registry also holds under the manager, and `ManagerSharing`,
  `ManagerBans`, `ManagerTypes`. `DepIInv` adds what a call in flight
  knows: every replica of another deployment is on a node it has ruled out,
  unless the calls overlapped (`OccupiedSeen`); two calls in flight are in the
  history (`FlightsOverlap`); a node banned now has been ruled out
  (`BansSeen`). Steps that start no call, record no replica and impose no ban
  are covered by one lemma (`QuietStep`). Heartbeats and updates are arbitrary here.
* `ClusterProofs`, of the manager and its agents: `ClusterStepsAreManagerSteps`, for any
  number of agents, streams, deployments and faults, so `DepIInv` holds among real agents:
  `ClusterBans`, `ClusterSharing`, `ClusterTypes`. That agents say only what
  `Deployments` allows needs the types of the frames in the queues; that a stop
  goes to a node that registered needs that a handler at work on a message has
  not returned (`WorkServed`). The start is not that of `Deployments`
  (`ClusterInit`: all is created, nothing placed), but satisfies its invariant.
* `JobsProofs`: `JobsTypes`; `JobsImplementRegistry` (`JobSpec => RegSpec`), and with
  it `JobsHandleSound` and `JobsHandleLossExplained`; `JobsNoFalseLoss`,
  `JobsSettledSilent`, `JobsTerminalKept`. See below.
* `AgentProofs`, of the session: `SessionTypes`, `SessionRegisterFirst`. `SessIInv`
  adds that an unsent `Register` is at the head of the queue, and that no goroutine of a
  session outlives its `runOnce` (`NothingLeftBehind`), so no writer of an earlier one can
  take it.
* `AgentProofs`, of a container job: `RunnerTypes`, `RunnerOutputComplete`,
  `RunnerNoContainerLeft`, `RunnerCancelReported`, `RunnerImplementsStream`. `RunnerIInv` says
  where lines of output can be at each step of `run` and in which order its
  goroutines end (`LogOrder`, `LinesKept`), that the terminal update is out exactly
  when `run` is in its deferred cleanup, and the channel is closed after it
  (`StreamOrder`), who has still to remove the container
  (`ContainerTracked`), and that a verdict other than an error rests on an exit that `run`
  waited for (`VerdictBased`).
* `GatewayProofs`, of the usage records: `UseImplementsLedger` (`UseSpec` implements
  `Ledger`, for both stores), `UseCloseFlushes`, `UseTypeCorrect`. The invariant
  `Pipeline` says that a record is in the queue once, and only before its call; that a
  call under way is for a request without a row; and that what is queued, sent or stored
  belongs to an answered request and names who answered. So the JSONL store needs
  its `seen` no more than Postgres needs its constraint as long as the reporter
  sends each record once. For the flush `CloseOrder` adds that
  what was queued at the signal belongs to finished requests, which cannot queue
  it again.
* `GatewayProofs`, of routing: `RouteTypes`, `RouteRoutedWasReady`,
  `RouteRefusedWasEmpty`, for any number of requests and replicas. `RouteIInv` says
  that an answer under way was true `age` ticks ago, that a usable cache entry was true
  `since + ResolveTime` ticks ago, whichever call filled it, and that what the first
  critical section of `Pick` saw is recent enough in the second.
* `ProviderProofs`, of a deployment: `NativeWeightsAsPinned`, `NativeNoEngineLeft`,
  `NativeImplementsDepStream`. `NatIInv` adds that a cache entry that was checked is
  still what it was, gone or overtaken (`CacheRelied`), that only a process that
  serves has loaded anything (`LoadedServes`), and which states can have been
  shown at each step of `run` (`ShownSoFar`), from which the order of the updates
  follows.
* `ProviderProofs`, of the engine: `EngineContextOwned`, `EngineAnswersTrue`. `EngIInv`
  adds, of the mutex, that a goroutine which has not ended holds it and that a freed
  model is nobody's (`MutexHeld`); and of each request that it starts from
  nothing, that its handler reads until the last token is out (`Awaited`), that
  the counters agree, and that the text read and the tokens in the channel add up to
  what was sent, the last token coming last (`NothingLost`). Each step concerns one
  request, so one lemma (`ReqFrame`) covers all others.
* `ProviderProofs`, of both: the composition implements its parts (`ProviderIsNative`,
  `ProviderIsEngine`), so the five results above hold of it, and `ProviderTypes`.

### The jobs

`NoFalseLoss` is about a race: a heartbeat that does not list a job is read after
the job was dispatched. It needs an invariant over every frame on every stream.
`JobsIInv` has three parts besides the registry's invariant and the types.

* The ends of streams (`JobsStreamsProofs`): frames wait only where there is somebody
  who may read them, a stream that an agent uses is handled for that agent
  (`StreamsOwned`), and an agent gets one RegisterAck per stream (`AckedOnce`), so what a
  serving agent reads are jobs.
* Where a job is, `Trace(j)` (`JobsTraceProofs`). An id not yet given out is nowhere
  (`UnmintedNowhere`); a job has to do with one node only (`OneHome`); while `RunJob`
  is sending it nobody else has heard of it (`SendsFirst`); there is one command for it,
  and until that is read its agent knows nothing of it (`SentOnce`); nothing follows an
  outcome, except on a stream the agent has left (`LastWord`). Every step is one that
  dispatches, takes or reports the job, or it brings nothing new about it
  (`JobStepCalm`): a queue then is the rest of what it was, with frames on other
  matters at its end (`Rest`). So there are four cases, not twenty.
* How old its entry can be, `Ages(j)` (`JobsProofs`): not older than the command that is
  still on its way (`RunFresh`); and if a heartbeat that does not list the job is on its
  way and the job was there later, not older than the delay of that heartbeat plus one
  tick (`BeatFresh`), for it left before the agent read the command.

A frame is under way for one tick at most (`Timely`), so when such a heartbeat is read
the entry is two ticks old at most. That is the assumption `Grace >= 3` of
`JobsNoFalseLoss`: `reconcileGrace` is 30 seconds, three heartbeat intervals
(`scheduler.go:28`, `server.go:31`). With a terminal state on record a job is then
silent: it does not run, is not about to, and has nothing under way on a stream in use
(`JobsSettledSilent`), and `JobsTerminalKept` follows.

### What is only model-checked

TLC has checked the inductive invariants too, on the instances of section 3. The liveness
properties (`SilenceNoticed`, `JobsSettle`, `DeletedStops`, `GhostGone`, `WantedRuns`,
`LostSessionRetried`, `ShutdownReturns`, `CloseReturns`, `CancelEnds`, `StopEnds`,
`ExitNoticed`, `Answered`) are only model-checked: the prover handles neither fairness
nor `ENABLED`. The fairness of the refined specifications is not part of the
refinement theorems, which are about steps.

## 5. Not modelled

* **Hardware detection** and the **sandbox profile**: computed once, no state that
  changes.
* **Command line programs**: flags and wiring, except for the shutdown of the
  gateway (`Usage`), that of the agent, which waits for nothing (`Runner`, `Native`), and
  the life of the engine process (`Native`, `Engine`).
* **SQL** (migrations, summaries of usage) and the **C library** of the engine are external.
* **Text**: stop sequences are a choice in `Engine`. A stop sequence that
  straddles two tokens is found, but its beginning has been sent by then; no
  property is about it.
* **Node id file**: an agent is taken to keep its id.
* **Authentication**, request parsing and the listing calls of the gateway and of
  the admin service: they touch no shared state.
* **Two agents at once** in the runs of `Jobs` and `Cluster`: jobs name their node and
  deployments on different nodes meet only in `place`. TLC has one agent here;
  the proofs are for any number.
