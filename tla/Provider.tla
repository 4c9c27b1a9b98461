------------------------------ MODULE Provider ------------------------------
(***************************************************************************)
(* A deployment on an agent and the engine process it runs: requests come  *)
(* to the engine once the deployment is READY, and everything in the       *)
(* engine ends with its process, whether it is killed by a stop or         *)
(* crashes.  An engine that outlives its agent is not followed any         *)
(* further, nor are the requests it may still answer.                      *)
(***************************************************************************)
EXTENDS Native, Engine

provVars == <<natVars, engVars>>

ProviderTypeOK == NativeTypeOK /\ EngineTypeOK

ProviderInit == NativeInit /\ EngineInit

\* A step of the deployment; the engine lives as long as its process does.
Deploys(step) ==
  /\ step
  /\ IF proc = "serving" /\ proc' # "serving" THEN EngineDies ELSE UNCHANGED engVars

\* The gateway sends requests to replicas it knows to be READY.
Routed == pc = "serve" /\ shown = "READY" /\ updates = <<>>

Serves(step) == proc = "serving" /\ step /\ UNCHANGED natVars

Arrives(r) == Routed /\ Serves(Accept(r))

\* Bound: what happens to the cache entry while the engine serves concerns
\* only its next start, and happens then.
Rivals == proc # "serving" /\ Deploys(Rival)

ProviderNext ==
  \/ Deploys(Start \/ Stop \/ Receive \/ Forgotten \/ Runs)
  \/ Deploys(Fetch \/ Progress \/ Copied \/ DownloadFails)
  \/ Rivals
  \/ Deploys(Listen \/ Load \/ Exit \/ Kill \/ Crash)
  \/ \E r \in Requests :
       Arrives(r) \/ Serves(Prepare(r) \/ Handles(r) \/ Client(r) \/ Generates(r))
  \/ Serves(Signal \/ Close)

ProviderSpec == ProviderInit /\ [][ProviderNext]_provVars

\* The goroutines of the agent and of the engine run on, timers included; a
\* download is sure to end only once its context is dead.
ProviderFairness ==
  /\ WF_provVars(Deploys(Runs))
  /\ WF_provVars(Deploys(cancelled /\ DownloadFails))
  /\ WF_provVars(Deploys(Receive \/ Forgotten))
  /\ WF_provVars(Deploys(Kill))
  /\ \A r \in Requests : WF_provVars(Serves(Handles(r))) /\ WF_provVars(Serves(Generates(r)))

ProviderFairSpec == ProviderSpec /\ ProviderFairness
=============================================================================
