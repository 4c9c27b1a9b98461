------------------------------- MODULE Native -------------------------------
(***************************************************************************)
(* One deployment on an agent: NativeManager.run and downloadModel         *)
(* (agent/internal/deploy), runDeployment of the agent's client, which     *)
(* reads the updates, and the engine process up to the model it loads.     *)
(*                                                                         *)
(* Other deployments of the same file and revision share its entry in the  *)
(* model cache.  They may be pinned to other digests, or to none, and      *)
(* remove or replace the entry at any time (Rival).                        *)
(***************************************************************************)
EXTENDS Integers, Sequences

CONSTANTS
  None,        \* no file, no pin
  Contents,    \* what a file may hold, identified with its digest
  Pin,         \* NativeEngine.sha256 of the deployment, None when empty
  RivalPins,   \* the same of the other deployments
  BufferSize,  \* capacity of the updates channel
  MaxCrashes   \* bound: ends of the agent's process

ASSUME NativeAssumption ==
  /\ None \notin Contents
  /\ Pin \in Contents \cup {None} /\ RivalPins \subseteq Contents \cup {None}
  /\ BufferSize \in Nat \ {0} /\ MaxCrashes \in Nat

VARIABLES
  pc,          \* where run is
  cancelled,   \* whether the deployment's context is dead
  updates,     \* the channel
  shown,       \* history: the last update put on it
  temp,        \* the temporary file, None before its download is complete
  cache,       \* the entry of the model cache
  overtaken,   \* history: whether the entry was replaced after the check
  proc,        \* the engine process that the agent has started
  weights,     \* what it has loaded
  crashes      \* ends of the agent's process so far

chanVars == <<updates, shown>>
diskVars == <<temp, cache, overtaken>>
procVars == <<proc, weights>>
natVars  == <<pc, cancelled, chanVars, diskVars, procVars, crashes>>

States == {"PULLING", "LOADING", "READY", "FAILED", "STOPPED"}

Steps == {"off", "begin", "stat", "hash", "remove", "fetch", "copy", "install", "hundred",
          "loading", "launch", "addr", "wait", "ready", "serve", "FAILED", "STOPPED",
          "close", "closed"}

NativeTypeOK ==
  /\ pc \in Steps /\ cancelled \in BOOLEAN
  /\ updates \in Seq(States) /\ Len(updates) <= BufferSize
  /\ shown \in States \cup {"NONE"}
  /\ temp \in Contents \cup {None} /\ cache \in Contents \cup {None}
  /\ overtaken \in BOOLEAN
  /\ proc \in {"none", "up", "listening", "serving", "dead", "mute"}
  /\ weights \in Contents \cup {None}
  /\ crashes \in 0..MaxCrashes

\* An earlier deployment may have left a file.
NativeInit ==
  /\ pc = "off" /\ cancelled = FALSE
  /\ updates = <<>> /\ shown = "NONE"
  /\ temp = None /\ cache \in Contents \cup {None} /\ overtaken = FALSE
  /\ proc = "none" /\ weights = None
  /\ crashes = 0

Alive == proc \in {"up", "listening", "serving"}

-----------------------------------------------------------------------------
(* The client: startDeployment, stopDeployment and runDeployment. *)

\* A duplicate start is ignored.  A spec that Start refuses changes nothing.
Start ==
  /\ pc = "off"
  /\ pc' = "begin"
  /\ UNCHANGED <<cancelled, chanVars, diskVars, procVars, crashes>>

Stop ==
  /\ pc # "off" /\ ~cancelled
  /\ cancelled' = TRUE
  /\ UNCHANGED <<pc, chanVars, diskVars, procVars, crashes>>

Receive ==
  /\ updates # <<>>
  /\ updates' = Tail(updates)
  /\ UNCHANGED <<pc, cancelled, shown, diskVars, procVars, crashes>>

\* The range over updates ends, and removeDeployment runs.
Forgotten ==
  /\ pc = "closed" /\ updates = <<>>
  /\ pc' = "off" /\ cancelled' = FALSE /\ shown' = "NONE" /\ overtaken' = FALSE
  /\ UNCHANGED <<updates, temp, cache, procVars, crashes>>

-----------------------------------------------------------------------------
(* run: a send waits for room, for a second, and is dropped after that. *)

\* Faulty variant: the channel takes any number of updates.
SendUnbounded(from, state, to) ==
  /\ pc = from /\ pc' = to
  /\ updates' = Append(updates, state) /\ shown' = state
  /\ UNCHANGED <<cancelled, diskVars, procVars, crashes>>

Send(from, state, to) ==
  /\ pc = from /\ pc' = to
  /\ IF Len(updates) < BufferSize
     THEN updates' = Append(updates, state) /\ shown' = state
     ELSE UNCHANGED chanVars
  /\ UNCHANGED <<cancelled, diskVars, procVars, crashes>>

Sends ==
  \/ Send("begin", "PULLING", "stat")
  \/ Send("hundred", "PULLING", "loading")
  \/ Send("loading", "LOADING", "launch")
  \/ Send("ready", "READY", "serve")
  \/ Send("FAILED", "FAILED", "close")
  \/ Send("STOPPED", "STOPPED", "close")

CloseUpdates ==
  /\ pc = "close" /\ pc' = "closed"
  /\ UNCHANGED <<cancelled, chanVars, diskVars, procVars, crashes>>

\* Faulty variant: the context is not looked at.
EndingFailed == "FAILED"

\* The terminal state of a run that ends with an error.
Ending == IF cancelled THEN "STOPPED" ELSE "FAILED"

-----------------------------------------------------------------------------
(* downloadModel. *)

\* A file is taken as it is when there is no pin.
Stat ==
  /\ pc = "stat"
  /\ pc' = IF cache = None THEN "fetch" ELSE IF Pin = None THEN "loading" ELSE "hash"
  /\ UNCHANGED <<cancelled, chanVars, diskVars, procVars, crashes>>

\* Faulty variant: the name of the file is trusted.
IntactByName == cache # None

\* fileSHA256 matches; the file may have gone since Stat.
Intact == cache = Pin

\* A file that cannot be read is removed as well.
Hash ==
  /\ pc = "hash"
  /\ \/ Intact /\ pc' = "hundred"
     \/ pc' = "remove"
  /\ UNCHANGED <<cancelled, chanVars, diskVars, procVars, crashes>>

\* By name: the file may be another one by now.  An error is ignored.
Remove ==
  /\ pc = "remove" /\ pc' = "fetch"
  /\ cache' \in {cache, None}
  /\ UNCHANGED <<cancelled, chanVars, temp, overtaken, procVars, crashes>>

\* The request is answered and the temporary file is there.
Fetch ==
  /\ pc = "fetch" /\ pc' = "copy"
  /\ UNCHANGED <<cancelled, chanVars, diskVars, procVars, crashes>>

Progress == Send("copy", "PULLING", "copy")

\* The body is complete; what it holds is up to the other side.
Copied ==
  /\ pc = "copy" /\ pc' = "install"
  /\ temp' \in Contents
  /\ UNCHANGED <<cancelled, chanVars, cache, overtaken, procVars, crashes>>

Matches(c, pin) == pin = None \/ c = pin

\* The digest matches, and the file is renamed into place.
Install ==
  /\ pc = "install" /\ Matches(temp, Pin)
  /\ pc' = "hundred"
  /\ cache' = temp /\ temp' = None
  /\ UNCHANGED <<cancelled, chanVars, overtaken, procVars, crashes>>

\* An error of the file system or of the network, a bad status, the context,
\* or a digest that does not match.  The deferred calls remove the file.
DownloadFails ==
  /\ pc \in {"stat", "fetch", "copy", "install"}
  /\ pc' = Ending
  /\ temp' = None
  /\ UNCHANGED <<cancelled, chanVars, cache, overtaken, procVars, crashes>>

\* The entry has been checked, or needs no check.
Relying == pc \in {"hundred", "loading", "launch", "addr", "wait", "ready", "serve"}

\* Remove and Install of another deployment.
Rival ==
  /\ \/ (\E pin \in RivalPins : pin # None) /\ cache' = None /\ UNCHANGED overtaken
     \/ \E pin \in RivalPins, c \in Contents :
          /\ Matches(c, pin)
          /\ cache' = c
          /\ overtaken' = (overtaken \/ (Relying /\ pin # Pin))
  /\ UNCHANGED <<pc, cancelled, chanVars, temp, procVars, crashes>>

-----------------------------------------------------------------------------
(* run, from the start of the engine on. *)

\* cmd.Start fails on a dead context, or for a reason of its own; that is
\* FAILED in both cases.
Launch ==
  /\ pc = "launch"
  /\ \/ ~cancelled /\ pc' = "addr" /\ proc' = "up"
     \/ pc' = "FAILED" /\ UNCHANGED proc
  /\ UNCHANGED <<cancelled, chanVars, diskVars, weights, crashes>>

\* readEngineAddr has the line, which may be all that is left of the process.
AddrRead ==
  /\ pc = "addr" /\ proc \in {"listening", "serving", "dead"}
  /\ pc' = "wait"
  /\ UNCHANGED <<cancelled, chanVars, diskVars, procVars, crashes>>

\* Kill and Wait.
Reaped == proc' = "none" /\ weights' = None

\* Faulty variant: the error is reported and the process left alone.
AddrFailsOnly ==
  /\ pc = "addr" /\ pc' = "FAILED"
  /\ UNCHANGED <<cancelled, chanVars, diskVars, procVars, crashes>>

\* It timed out, the output ended or the context is dead; FAILED in any case.
AddrFails ==
  /\ pc = "addr" /\ pc' = "FAILED"
  /\ Reaped
  /\ UNCHANGED <<cancelled, chanVars, diskVars, crashes>>

\* waitReady: the engine lists its model ...
EngineReady ==
  /\ pc = "wait" /\ proc = "serving"
  /\ pc' = "ready"
  /\ UNCHANGED <<cancelled, chanVars, diskVars, procVars, crashes>>

\* Faulty variant: the wait has no timeout.
NotReadyOnStop ==
  /\ pc = "wait" /\ pc' = Ending
  /\ cancelled
  /\ Reaped
  /\ UNCHANGED <<cancelled, chanVars, diskVars, crashes>>

\* ... or does not within readyTimeout, or the context is dead.
NotReady ==
  /\ pc = "wait" /\ pc' = Ending
  /\ Reaped
  /\ UNCHANGED <<cancelled, chanVars, diskVars, crashes>>

\* cmd.Wait returns.
EngineExited ==
  /\ pc = "serve" /\ ~Alive
  /\ pc' = Ending
  /\ Reaped
  /\ UNCHANGED <<cancelled, chanVars, diskVars, crashes>>

-----------------------------------------------------------------------------
(* The engine process (runEngine): it listens, says so, loads and serves. *)

Listen ==
  /\ proc = "up" /\ proc' = "listening"
  /\ UNCHANGED <<pc, cancelled, chanVars, diskVars, weights, crashes>>

Load ==
  /\ proc = "listening" /\ cache # None
  /\ proc' = "serving" /\ weights' = cache
  /\ UNCHANGED <<pc, cancelled, chanVars, diskVars, crashes>>

\* A process that ends before it has printed its address is mute.
Ends ==
  /\ Alive
  /\ proc' = IF proc = "up" THEN "mute" ELSE "dead"
  /\ weights' = None
  /\ UNCHANGED <<pc, cancelled, chanVars, diskVars, crashes>>

\* It cannot listen or load, or it crashes.
Exit == Ends

\* Faulty variant: a stop kills the engine only before it is READY.
BoundUntilReady == cancelled /\ pc \in {"addr", "wait"}

\* exec.CommandContext: the process is bound to the context from Start to Wait.
Bound == cancelled /\ pc \in {"addr", "wait", "ready", "serve"}

Kill == Bound /\ Ends

\* The agent's process ends: it is killed, or main returns after a signal, which
\* waits for no deployment.  An engine that runs is left behind and not followed
\* any further; the temporary file stays, under a name that is not used again.
Crash ==
  /\ crashes < MaxCrashes /\ crashes' = crashes + 1
  /\ pc' = "off" /\ cancelled' = FALSE
  /\ updates' = <<>> /\ shown' = "NONE"
  /\ temp' = None /\ overtaken' = FALSE
  /\ proc' = "none" /\ weights' = None
  /\ UNCHANGED cache

Runs ==
  \/ Sends \/ Stat \/ Hash \/ Remove \/ Install \/ Launch \/ AddrRead \/ AddrFails
  \/ EngineReady \/ NotReady \/ EngineExited \/ CloseUpdates

NativeNext ==
  \/ Start \/ Stop \/ Receive \/ Forgotten \/ Runs
  \/ Fetch \/ Progress \/ Copied \/ DownloadFails \/ Rival
  \/ Listen \/ Load \/ Exit \/ Kill \/ Crash

NativeSpec == NativeInit /\ [][NativeNext]_natVars

\* The goroutines run on, their timers included; a download is sure to end
\* only once its context is dead.
NativeFairness ==
  /\ WF_natVars(Runs)
  /\ WF_natVars(cancelled /\ DownloadFails)
  /\ WF_natVars(Receive \/ Forgotten)
  /\ WF_natVars(Kill)

NativeFairSpec == NativeSpec /\ NativeFairness

-----------------------------------------------------------------------------
(* Properties. *)

\* "Content is written to a temp file and only renamed into place once the
\* digest matches": the engine serves the weights its deployment is pinned to,
\* whatever crashes, bad downloads and other deployments of the same file came
\* before.  The one exception is another deployment with another pin, or none,
\* that renames its own file into place between the check and the load.
WeightsAsPinned == weights # None /\ Pin # None => weights = Pin \/ overtaken

\* What makes WeightsAsPinned inductive: once the entry has been checked it is
\* what it was checked to be, gone, or overtaken, ...
CacheRelied == Relying /\ Pin # None => cache \in {None, Pin} \/ overtaken

\* ... and only a process that serves has loaded anything.
LoadedServes == weights # None => proc = "serving"

\* When FAILED or STOPPED goes out, and from then on, the engine is gone: no
\* path of run leaves a process behind that nobody waits for.  It says nothing
\* of the engine of an agent that has ended: that one is left behind (Crash).
NoEngineLeft == Alive => pc \in {"addr", "wait", "ready", "serve"}

Phase == CASE pc = "off"               -> "off"
           [] pc \in {"launch", "addr"} -> "starting"
           [] pc = "FAILED"            -> "failing"
           [] pc = "STOPPED"           -> "stopping"
           [] pc = "close"             -> "ended"
           [] pc = "closed"            -> "closed"
           [] OTHER                    -> "open"

\* What has been shown at each step of run.
ShownSoFar ==
  /\ pc \in {"off", "begin", "stat", "hash", "remove", "fetch", "copy", "install", "hundred",
             "loading"} => shown \in {"NONE", "PULLING"}
  /\ pc \in {"launch", "addr", "wait", "ready"} => shown \in {"NONE", "PULLING", "LOADING"}
  /\ pc \in {"serve", "FAILED", "STOPPED"} => shown \in {"NONE", "PULLING", "LOADING", "READY"}
  /\ pc = "STOPPED" => cancelled

NatIInv ==
  NativeTypeOK /\ CacheRelied /\ LoadedServes /\ NoEngineLeft /\ WeightsAsPinned /\ ShownSoFar

Contract ==
  INSTANCE DepStream WITH phase <- Phase, full <- Len(updates) = BufferSize

\* The updates come in order and end with FAILED or STOPPED, in every order of
\* failures, stops and full channels; and of a deployment that was stopped they
\* say so, STOPPED, unless the stop came while the engine was being started
\* (there run reports FAILED) or the channel was full.  The two exceptions are
\* what the code does not keep of the comment on Manager, "Cancelling ctx must
\* tear down the engine and emit STOPPED".
ImplementsDepStream == Contract!StreamSpec

\* A deployment that was stopped ends, wherever it was: in the check, the
\* download, the start of the engine or while it served.
StopEnds == cancelled ~> pc = "off"

\* An engine that ends by itself does not go unnoticed.
ExitNoticed == proc \in {"dead", "mute"} ~> pc = "off"
=============================================================================
