--------------------------- MODULE ProviderProofs ---------------------------
(***************************************************************************)
(* A deployment on a provider, for any contents, pins, requests and sizes  *)
(* of the channels: the weights an engine serves, the engines that run     *)
(* leaves and the updates it sends (Native); that a generation has the     *)
(* model to itself and that a complete answer is complete and bills what   *)
(* was generated (Engine); and that a deployment together with its engine  *)
(* is still a deployment and still an engine, so that all this holds of    *)
(* the two together (Provider).                                            *)
(***************************************************************************)
EXTENDS Provider, TLAPS

(* The deployment. *)

USE NativeAssumption

LEMMA NatInitIInv == NativeInit => NatIInv
<1> SUFFICES ASSUME NativeInit PROVE NatIInv
  OBVIOUS
<1>1. cancelled \in BOOLEAN /\ overtaken \in BOOLEAN
  BY ZenonT(30) DEF NativeInit
<1>2. updates \in Seq(States) /\ Len(updates) <= BufferSize
  BY DEF NativeInit
<1>3. NativeTypeOK
  BY <1>1, <1>2 DEF NativeInit, NativeTypeOK, Steps
<1>4. QED
  BY <1>3 DEF NativeInit, NatIInv, CacheRelied, LoadedServes, NoEngineLeft, WeightsAsPinned,
              ShownSoFar, Relying, Alive

LEMMA EndingSteps == Ending \in {"STOPPED", "FAILED"}
BY DEF Ending

LEMMA SendEffect ==
  ASSUME NativeTypeOK, NEW from \in Steps, NEW state \in States, NEW to \in Steps,
         Send(from, state, to)
  PROVE  /\ NativeTypeOK'
         /\ shown' = state \/ shown' = shown
<1>1. CASE Len(updates) < BufferSize
  <2>1. /\ updates' = Append(updates, state) /\ shown' = state
        /\ pc' = to
        /\ UNCHANGED <<cancelled, diskVars, procVars, crashes>>
    BY <1>1 DEF Send
  <2>2. updates' \in Seq(States) /\ Len(updates') <= BufferSize
    BY <1>1, <2>1 DEF NativeTypeOK
  <2>3. QED
    BY <2>1, <2>2 DEF NativeTypeOK, diskVars, procVars
<1>2. CASE ~(Len(updates) < BufferSize)
  <2>1. UNCHANGED chanVars /\ pc' = to /\ UNCHANGED <<cancelled, diskVars, procVars, crashes>>
    BY <1>2 DEF Send
  <2>2. QED
    BY <2>1 DEF NativeTypeOK, chanVars, diskVars, procVars
<1>3. QED
  BY <1>1, <1>2

\* The sends that run makes itself.
LEMMA SendsTypes ==
  ASSUME NativeTypeOK, Sends \/ Progress
  PROVE  NativeTypeOK'
BY ZenonT(30), SendEffect DEF Sends, Progress, Steps, States

LEMMA NatTypes == NativeTypeOK /\ [NativeNext]_natVars => NativeTypeOK'
<1> SUFFICES ASSUME NativeTypeOK, [NativeNext]_natVars PROVE NativeTypeOK'
  OBVIOUS
<1>1. CASE Sends \/ Progress
  BY <1>1, SendsTypes
<1>2. CASE Start \/ CloseUpdates \/ Stat \/ Hash \/ Fetch \/ AddrRead \/ EngineReady
  BY <1>2 DEF NativeTypeOK, Start, CloseUpdates, Stat, Hash, Fetch, AddrRead, EngineReady,
              Steps, chanVars, diskVars, procVars
<1>3. CASE Stop
  BY <1>3 DEF NativeTypeOK, Stop, chanVars, diskVars, procVars
<1>4. CASE Receive
  <2>1. updates' \in Seq(States) /\ Len(updates') <= BufferSize
    BY <1>4 DEF NativeTypeOK, Receive
  <2>2. QED
    BY <1>4, <2>1 DEF NativeTypeOK, Receive, diskVars, procVars
<1>5. CASE Forgotten
  BY <1>5, ZenonT(30) DEF NativeTypeOK, Forgotten, procVars, Steps
<1>6. CASE Remove \/ Copied \/ Install
  BY <1>6 DEF NativeTypeOK, Remove, Copied, Install, Steps, chanVars, procVars
<1>7. CASE DownloadFails
  BY <1>7, EndingSteps DEF NativeTypeOK, DownloadFails, Steps, chanVars, procVars
<1>8. CASE Rival
  <2>1. cache' \in Contents \cup {None}
    BY <1>8 DEF Rival
  <2>2. overtaken' \in BOOLEAN
    BY <1>8, ZenonT(30) DEF Rival, NativeTypeOK
  <2>3. QED
    BY <1>8, <2>1, <2>2 DEF NativeTypeOK, Rival, chanVars, procVars
<1>9. CASE Launch \/ Listen \/ Load
  BY <1>9 DEF NativeTypeOK, Launch, Listen, Load, Steps, chanVars, diskVars
<1>10. CASE AddrFails \/ NotReady \/ EngineExited
  BY <1>10, EndingSteps
     DEF NativeTypeOK, AddrFails, NotReady, EngineExited, Reaped, Steps, chanVars, diskVars
<1>11. CASE Exit \/ Kill
  BY <1>11 DEF NativeTypeOK, Exit, Kill, Ends, chanVars, diskVars
<1>12. CASE Crash
  <2>1. updates' \in Seq(States) /\ Len(updates') <= BufferSize
    BY <1>12 DEF Crash
  <2>2. crashes' \in 0..MaxCrashes
    BY <1>12 DEF NativeTypeOK, Crash
  <2>3. cancelled' \in BOOLEAN /\ overtaken' \in BOOLEAN
    BY <1>12, ZenonT(30) DEF Crash
  <2>4. QED
    BY <1>12, <2>1, <2>2, <2>3 DEF NativeTypeOK, Crash, Reaped, Steps
<1>13. CASE UNCHANGED natVars
  BY <1>13 DEF NativeTypeOK, natVars, chanVars, diskVars, procVars
<1>14. QED
  BY <1>1, <1>2, <1>3, <1>4, <1>5, <1>6, <1>7, <1>8, <1>9, <1>10, <1>11, <1>12, <1>13
     DEF NativeNext, Runs

\* run reaps the engine on every way out, and what a process has loaded goes
\* with it.
LEMMA NatEngine ==
  ASSUME NativeTypeOK, NoEngineLeft, LoadedServes, [NativeNext]_natVars
  PROVE  NoEngineLeft' /\ LoadedServes'
<1>1. CASE Sends \/ Progress
  BY <1>1 DEF Sends, Progress, Send, NoEngineLeft, LoadedServes, Alive, procVars
<1>2. CASE Start \/ CloseUpdates \/ Stat \/ Hash \/ Remove \/ Fetch \/ Copied \/ Install
  BY <1>2 DEF Start, CloseUpdates, Stat, Hash, Remove, Fetch, Copied, Install, NoEngineLeft,
              LoadedServes, Alive, procVars
<1>3. CASE Stop \/ Receive \/ Forgotten \/ Rival \/ DownloadFails \/ UNCHANGED natVars
  BY <1>3 DEF Stop, Receive, Forgotten, Rival, DownloadFails, NoEngineLeft, LoadedServes,
              Alive, procVars, natVars
<1>4. CASE Launch \/ Listen \/ Load \/ AddrRead \/ EngineReady
  BY <1>4 DEF Launch, Listen, Load, AddrRead, EngineReady, NoEngineLeft, LoadedServes, Alive,
              procVars
<1>5. CASE AddrFails \/ NotReady \/ EngineExited \/ Crash
  BY <1>5 DEF AddrFails, NotReady, EngineExited, Crash, Reaped, NoEngineLeft, LoadedServes,
              Alive
<1>6. CASE Exit \/ Kill
  BY <1>6 DEF Exit, Kill, Ends, NoEngineLeft, LoadedServes, Alive
<1>7. QED
  BY <1>1, <1>2, <1>3, <1>4, <1>5, <1>6 DEF NativeNext, Runs

\* From the check on, only a rival with another pin changes the entry to
\* something else, and that is on record.
LEMMA NatWeights ==
  ASSUME NatIInv, [NativeNext]_natVars
  PROVE  CacheRelied' /\ WeightsAsPinned'
<1> USE DEF NatIInv
<1>1. CASE Sends \/ Progress
  BY <1>1 DEF Sends, Progress, Send, CacheRelied, WeightsAsPinned, Relying, diskVars, procVars
<1>2. CASE Start \/ CloseUpdates \/ Stat \/ Hash \/ Fetch \/ AddrRead \/ EngineReady
  BY <1>2 DEF Start, CloseUpdates, Stat, Hash, Intact, Fetch, AddrRead, EngineReady,
              CacheRelied, WeightsAsPinned, Relying, diskVars, procVars
<1>3. CASE Stop \/ Receive \/ UNCHANGED natVars
  BY <1>3 DEF Stop, Receive, CacheRelied, WeightsAsPinned, Relying, natVars, diskVars, procVars
<1>4. CASE Remove \/ Copied \/ Install
  BY <1>4 DEF Remove, Copied, Install, Matches, CacheRelied, WeightsAsPinned, Relying, procVars
<1>5. CASE DownloadFails \/ AddrFails \/ NotReady \/ EngineExited
  BY <1>5, EndingSteps
     DEF DownloadFails, AddrFails, NotReady, EngineExited, Reaped, CacheRelied, WeightsAsPinned,
         Relying, diskVars, procVars
<1>6. CASE Rival
  <2>1. pc' = pc /\ weights' = weights
    BY <1>6 DEF Rival, procVars
  <2>2. CASE cache' = None /\ overtaken' = overtaken
    BY <2>1, <2>2 DEF CacheRelied, WeightsAsPinned, Relying
  <2>3. ASSUME NEW pin \in RivalPins, NEW c \in Contents, Matches(c, pin), cache' = c,
               overtaken' = (overtaken \/ (Relying /\ pin # Pin))
        PROVE  CacheRelied' /\ WeightsAsPinned'
    <3>1. (overtaken => overtaken') /\ (Relying /\ pin # Pin => overtaken')
      BY <2>3, Zenon
    <3>2. pin = Pin /\ Pin # None => cache' = Pin
      BY <2>3 DEF Matches
    <3>3. QED
      BY <2>1, <3>1, <3>2 DEF CacheRelied, WeightsAsPinned, Relying
  <2>4. QED
    BY <1>6, <2>2, <2>3 DEF Rival
<1>7. CASE Launch \/ Listen \/ Exit \/ Kill
  BY <1>7 DEF Launch, Listen, Exit, Kill, Ends, CacheRelied, WeightsAsPinned, Relying, diskVars
<1>8. CASE Load
  <2>1. Relying /\ UNCHANGED <<pc, cache, overtaken>> /\ cache # None /\ weights' = cache
    BY <1>8 DEF Load, NoEngineLeft, Alive, Relying, diskVars
  <2>2. QED
    BY <2>1 DEF CacheRelied, WeightsAsPinned, Relying
<1>9. CASE Forgotten
  <2>1. weights' = None /\ pc' = "off"
    BY <1>9 DEF Forgotten, NoEngineLeft, LoadedServes, Alive, procVars
  <2>2. QED
    BY <2>1 DEF CacheRelied, WeightsAsPinned, Relying
<1>10. CASE Crash
  BY <1>10 DEF Crash, Reaped, CacheRelied, WeightsAsPinned, Relying
<1>11. QED
  BY <1>1, <1>2, <1>3, <1>4, <1>5, <1>6, <1>7, <1>8, <1>9, <1>10 DEF NativeNext, Runs

LEMMA NatShown ==
  ASSUME NativeTypeOK, ShownSoFar, [NativeNext]_natVars
  PROVE  ShownSoFar'
<1>1. CASE Sends \/ Progress
  <2>1. ASSUME NEW from, NEW state, NEW to, Send(from, state, to), to # "STOPPED",
               <<from, state, to>> \in
                 {<<"begin", "PULLING", "stat">>, <<"copy", "PULLING", "copy">>,
                  <<"hundred", "PULLING", "loading">>, <<"loading", "LOADING", "launch">>,
                  <<"ready", "READY", "serve">>, <<"FAILED", "FAILED", "close">>,
                  <<"STOPPED", "STOPPED", "close">>}
        PROVE  ShownSoFar'
    <3>1. pc = from /\ pc' = to /\ (shown' = state \/ shown' = shown)
      BY <2>1 DEF Send, chanVars
    <3>2. QED
      BY <2>1, <3>1 DEF ShownSoFar
  <2>2. QED
    BY <1>1, <2>1 DEF Sends, Progress
<1>2. CASE Start \/ CloseUpdates \/ Stat \/ Hash \/ Remove \/ Fetch \/ Copied \/ Install
  BY <1>2 DEF Start, CloseUpdates, Stat, Hash, Remove, Fetch, Copied, Install, ShownSoFar,
              chanVars
<1>3. CASE Stop \/ Receive \/ Rival \/ Listen \/ Load \/ Exit \/ Kill \/ UNCHANGED natVars
  BY <1>3 DEF Stop, Receive, Rival, Listen, Load, Exit, Kill, Ends, ShownSoFar, natVars,
              chanVars
<1>4. CASE Launch \/ AddrRead \/ AddrFails \/ EngineReady
  BY <1>4 DEF Launch, AddrRead, AddrFails, EngineReady, ShownSoFar, chanVars
<1>5. CASE DownloadFails \/ NotReady \/ EngineExited
  BY <1>5 DEF DownloadFails, NotReady, EngineExited, Ending, ShownSoFar, chanVars
<1>6. CASE Forgotten \/ Crash
  BY <1>6 DEF Forgotten, Crash, ShownSoFar
<1>7. QED
  BY <1>1, <1>2, <1>3, <1>4, <1>5, <1>6 DEF NativeNext, Runs

-----------------------------------------------------------------------------

\* The invariant of a native deployment holds in every state its goroutines
\* reach, whatever the order in which they run and whichever engine start or
\* load fails.
THEOREM NativeInvariant == NativeSpec => []NatIInv
<1>1. NatIInv /\ [NativeNext]_natVars => NatIInv'
  <2> SUFFICES ASSUME NatIInv, [NativeNext]_natVars PROVE NatIInv'
    OBVIOUS
  <2>1. NativeTypeOK'
    BY NatTypes DEF NatIInv
  <2>2. NoEngineLeft' /\ LoadedServes'
    BY NatEngine DEF NatIInv
  <2>3. CacheRelied' /\ WeightsAsPinned'
    BY NatWeights
  <2>4. ShownSoFar'
    BY NatShown DEF NatIInv
  <2>5. QED
    BY <2>1, <2>2, <2>3, <2>4 DEF NatIInv
<1>2. QED
  BY <1>1, NatInitIInv, PTL DEF NativeSpec

\* downloadModel and the engine: what is served is what was pinned, unless
\* another deployment with another pin came in between.
THEOREM NativeWeightsAsPinned == NativeSpec => []WeightsAsPinned
<1>1. NatIInv => WeightsAsPinned
  BY DEF NatIInv
<1>2. QED
  BY <1>1, NativeInvariant, PTL

\* run leaves no engine behind, whichever way it returns.
THEOREM NativeNoEngineLeft == NativeSpec => []NoEngineLeft
<1>1. NatIInv => NoEngineLeft
  BY DEF NatIInv
<1>2. QED
  BY <1>1, NativeInvariant, PTL

\* The updates of run, sent, dropped and read in any order, are a DepStream: they
\* end with STOPPED when the deployment was stopped, unless its engine was being
\* started then, and none is missing at the end unless the channel was full.
THEOREM NativeImplementsDepStream == NativeSpec => ImplementsDepStream
<1>1. NativeInit => Contract!StreamInit
  BY DEF NativeInit, Contract!StreamInit, Phase
<1>2. NatIInv /\ [NativeNext]_natVars => [Contract!StreamNext]_(Contract!streamVars)
  <2> SUFFICES ASSUME NatIInv, [NativeNext]_natVars
               PROVE  Contract!StreamNext \/ UNCHANGED <<shown, Phase, cancelled>>
    BY DEF Contract!streamVars
  <2>1. CASE Sends \/ Progress
    <3>1. ASSUME NEW from, NEW state, NEW to, Send(from, state, to),
                 <<from, state, to>> \in
                   {<<"begin", "PULLING", "stat">>, <<"copy", "PULLING", "copy">>,
                    <<"hundred", "PULLING", "loading">>, <<"loading", "LOADING", "launch">>,
                    <<"ready", "READY", "serve">>}
          PROVE  Contract!Update \/ UNCHANGED <<shown, Phase, cancelled>>
      <4>1. /\ pc = from /\ pc' = to /\ (shown' = state \/ shown' = shown)
            /\ cancelled' = cancelled
        BY <3>1 DEF Send, chanVars
      <4>2. Phase = "open" /\ Phase' \in {"open", "starting"}
        BY <3>1, <4>1 DEF Phase
      <4>3. shown' # shown => Contract!Rank[shown'] > Contract!Rank[shown]
        BY <3>1, <4>1 DEF NatIInv, ShownSoFar, Contract!Rank
      <4>4. QED
        BY <3>1, <4>1, <4>2, <4>3 DEF Contract!Update, Contract!Live, Contract!Underway
    <3>2. ASSUME NEW state \in {"FAILED", "STOPPED"}, Send(state, state, "close")
          PROVE  Contract!End
      <4>1. pc = state /\ pc' = "close" /\ cancelled' = cancelled
        BY <3>2 DEF Send
      <4>2. /\ Phase = IF state = "FAILED" THEN "failing" ELSE "stopping"
            /\ Phase' = "ended"
        BY <3>2, <4>1 DEF Phase
      <4>3. shown' = state \/ (Len(updates) = BufferSize /\ shown' = shown)
        <5>1. CASE Len(updates) < BufferSize
          BY <3>2, <5>1 DEF Send
        <5>2. CASE ~(Len(updates) < BufferSize)
          <6>1. Len(updates) = BufferSize
            BY <5>2 DEF NatIInv, NativeTypeOK
          <6>2. QED
            BY <3>2, <5>2, <6>1 DEF Send, chanVars
        <5>3. QED
          BY <5>1, <5>2
      <4>4. QED
        BY <3>2, <4>1, <4>2, <4>3 DEF Contract!End
    <3>3. QED
      BY <2>1, <3>1, <3>2 DEF Sends, Progress, Contract!StreamNext
  <2>2. CASE Start
    <3>1. Phase = "off" /\ Phase' = "open" /\ shown' = shown /\ cancelled' = cancelled
      BY <2>2 DEF Start, Phase, chanVars
    <3>2. QED
      BY <3>1 DEF Contract!StreamNext, Contract!Begin
  <2>3. CASE Stop
    <3>1. Phase # "off" /\ Phase' = Phase /\ shown' = shown /\ cancelled' = TRUE
      BY <2>3 DEF Stop, Phase, chanVars
    <3>2. QED
      BY <3>1, ZenonT(30) DEF Contract!StreamNext, Contract!Cancel
  <2>4. CASE CloseUpdates
    <3>1. Phase = "ended" /\ Phase' = "closed" /\ shown' = shown /\ cancelled' = cancelled
      BY <2>4 DEF CloseUpdates, Phase, chanVars
    <3>2. QED
      BY <3>1 DEF Contract!StreamNext, Contract!Close
  <2>5. CASE Forgotten \/ Crash
    <3>1. Phase' = "off" /\ shown' = "NONE" /\ cancelled' = FALSE
      BY <2>5 DEF Forgotten, Crash, Phase
    <3>2. QED
      BY <3>1 DEF Contract!StreamNext, Contract!Forget
  <2>6. CASE Stat \/ Hash \/ Remove \/ Fetch \/ Copied \/ Install \/ EngineReady
    BY <2>6 DEF Stat, Hash, Remove, Fetch, Copied, Install, EngineReady, Phase, chanVars
  <2>7. CASE DownloadFails \/ NotReady \/ EngineExited
    <3>1. /\ Phase = "open" /\ shown' = shown /\ cancelled' = cancelled
          /\ Phase' = IF cancelled THEN "stopping" ELSE "failing"
      BY <2>7 DEF DownloadFails, NotReady, EngineExited, Ending, Phase, chanVars
    <3>2. Contract!Fail \/ Contract!Stop
      BY <3>1 DEF Contract!Fail, Contract!Stop, Contract!Underway
    <3>3. QED
      BY <3>2 DEF Contract!StreamNext
  <2>10. CASE AddrFails \/ Launch
    <3>1. /\ Phase = "starting" /\ shown' = shown /\ cancelled' = cancelled
          /\ Phase' \in {"starting", "failing"}
      BY <2>10 DEF AddrFails, Launch, Phase, chanVars
    <3>2. QED
      BY <3>1 DEF Contract!StreamNext, Contract!Fail, Contract!Underway
  <2>11. CASE AddrRead
    <3>1. Phase = "starting" /\ Phase' = "open" /\ shown' = shown /\ cancelled' = cancelled
      BY <2>11 DEF AddrRead, Phase, chanVars
    <3>2. QED
      BY <3>1 DEF Contract!StreamNext, Contract!Started
  <2>8. CASE Receive \/ Rival \/ Listen \/ Load \/ Exit \/ Kill \/ UNCHANGED natVars
    BY <2>8 DEF Receive, Rival, Listen, Load, Exit, Kill, Ends, Phase, natVars, chanVars
  <2>9. QED
    BY <2>1, <2>2, <2>3, <2>4, <2>5, <2>6, <2>7, <2>8, <2>10, <2>11 DEF NativeNext, Runs
<1>3. QED
  BY <1>1, <1>2, NativeInvariant, PTL DEF NativeSpec, ImplementsDepStream, Contract!StreamSpec

HIDE NativeAssumption

-----------------------------------------------------------------------------
(* The engine. *)

USE EngineAssumption

LEMMA EngInitIInv == EngineInit => EngIInv
<1> SUFFICES ASSUME EngineInit PROVE EngIInv
  OBVIOUS
<1>1. HandlerAt("new") \in Handler /\ NoGeneration \in Generation
  BY DEF HandlerAt, Handler, NoGeneration, Generation
<1>2. <<>> \in Seq(Token) /\ Len(<<>>) = 0
  OBVIOUS
<1>3. EngineTypeOK
  BY <1>1, <1>2 DEF EngineInit, EngineTypeOK
<1>4. MutexHeld
  BY DEF EngineInit, MutexHeld, NoGeneration
<1>5. ASSUME NEW r \in Requests PROVE ReqInv(r)
  BY DEF EngineInit, ReqInv, StartsFresh, CountsAgree, NothingLost, Awaited, AnswerTrue,
         HandlerAt, NoGeneration
<1>6. QED
  BY <1>3, <1>4, <1>5 DEF EngIInv

-----------------------------------------------------------------------------
(* What the steps of a goroutine do. *)

LEMMA GenFields ==
  ASSUME NEW g \in Generation
  PROVE  /\ g.pc \in {"off", "prefill", "sample", "decode", "finish", "end"}
         /\ g.generated \in 0..MaxTokens /\ g.sampled \in 0..MaxTokens
         /\ g.sent \in 0..MaxTokens /\ g.failed \in BOOLEAN
BY DEF Generation

LEMMA GenRecord ==
  ASSUME NEW place \in {"off", "prefill", "sample", "decode", "finish", "end"},
         NEW generated \in 0..MaxTokens, NEW sampled \in 0..MaxTokens,
         NEW sent \in 0..MaxTokens, NEW failed \in BOOLEAN
  PROVE  [pc |-> place, generated |-> generated, sampled |-> sampled, sent |-> sent,
          failed |-> failed] \in Generation
BY DEF Generation

\* A step to another pc only.
LEMMA GenMoves ==
  ASSUME gen \in [Requests -> Generation], NEW r \in Requests,
         NEW place \in {"off", "prefill", "sample", "end"}, gen' = [gen EXCEPT ![r].pc = place]
  PROVE  /\ gen'[r].pc = place
         /\ gen'[r].generated = gen[r].generated /\ gen'[r].sampled = gen[r].sampled
         /\ gen'[r].sent = gen[r].sent /\ gen'[r].failed = gen[r].failed
         /\ gen' \in [Requests -> Generation]
         /\ \A q \in Requests \ {r} : gen'[q] = gen[q]
BY DEF Generation

LEMMA GenLeaves ==
  ASSUME gen \in [Requests -> Generation], NEW r \in Requests, NEW failed \in BOOLEAN,
         gen' = [gen EXCEPT ![r] = Leave(@, failed)]
  PROVE  /\ gen'[r].pc = "finish"
         /\ gen'[r].generated = gen[r].generated /\ gen'[r].sampled = gen[r].sampled
         /\ gen'[r].sent = gen[r].sent
         /\ gen' \in [Requests -> Generation]
         /\ \A q \in Requests \ {r} : gen'[q] = gen[q]
<1>1. Leave(gen[r], failed) \in Generation
  BY GenFields, GenRecord DEF Leave
<1>2. QED
  BY <1>1 DEF Leave

LEMMA OverEffect ==
  ASSUME EngineTypeOK, NEW r \in Requests, Over(r)
  PROVE  /\ gen[r].pc = "sample" /\ gen'[r].pc = "finish"
         /\ gen'[r].generated = gen[r].generated /\ gen'[r].sampled = gen[r].sampled
         /\ gen'[r].sent = gen[r].sent
         /\ gen' \in [Requests -> Generation]
         /\ \A q \in Requests \ {r} : gen'[q] = gen[q]
         /\ UNCHANGED <<req, out, turn, model, kv, life>>
<1>1. gen \in [Requests -> Generation]
  BY DEF EngineTypeOK
<1>2. PICK failed \in BOOLEAN : gen' = [gen EXCEPT ![r] = Leave(@, failed)]
  BY ZenonT(30) DEF Over
<1>3. QED
  BY <1>1, <1>2, GenLeaves, ZenonT(30) DEF Over

LEMMA DecodeEffect ==
  ASSUME EngineTypeOK, NEW r \in Requests, Decode(r)
  PROVE  /\ gen[r].pc = "decode" /\ gen'[r].pc \in {"sample", "finish"}
         /\ gen'[r].generated = gen[r].generated /\ gen'[r].sampled = gen[r].sampled
         /\ gen'[r].sent = gen[r].sent
         /\ gen' \in [Requests -> Generation]
         /\ \A q \in Requests \ {r} : gen'[q] = gen[q]
         /\ UNCHANGED <<req, out, turn, model, kv, life>>
<1>1. gen \in [Requests -> Generation]
  BY DEF EngineTypeOK
<1>2. CASE gen' = [gen EXCEPT ![r].pc = "sample"]
  BY <1>1, <1>2, GenMoves, ZenonT(30) DEF Decode
<1>3. CASE gen' = [gen EXCEPT ![r] = Leave(@, TRUE)]
  BY <1>1, <1>3, GenLeaves, ZenonT(30) DEF Decode
<1>4. QED
  BY <1>2, <1>3, ZenonT(30) DEF Decode

LEMMA SampleEffect ==
  ASSUME EngineTypeOK, NEW r \in Requests, CountsAgree(r), Sample(r)
  PROVE  /\ gen[r].pc = "sample" /\ gen'[r].pc \in {"decode", "finish"}
         /\ gen'[r].generated = gen[r].generated + 1 /\ gen'[r].sampled = gen[r].sampled + 1
         /\ \/ gen'[r].sent = gen[r].sent /\ out' = out
            \/ /\ gen'[r].sent = gen[r].sent + 1
               /\ Len(out[r]) < OutSize /\ out' = [out EXCEPT ![r] = Append(@, Piece)]
         /\ gen' \in [Requests -> Generation]
         /\ \A q \in Requests \ {r} : gen'[q] = gen[q]
         /\ UNCHANGED <<req, turn, model, kv, life>>
<1>1. gen \in [Requests -> Generation]
  BY DEF EngineTypeOK
<1>2. PICK stop \in BOOLEAN, text \in BOOLEAN :
        Push(r, text) /\ gen' = [gen EXCEPT ![r] = Advance(@, stop, text)]
  BY ZenonT(30) DEF Sample
<1>3. gen[r].pc = "sample" /\ gen[r].generated < MaxTokens
  BY DEF Sample
<1>4. gen[r].sent + 1 \in 0..MaxTokens /\ gen[r].sampled + 1 \in 0..MaxTokens
  BY <1>1, <1>3, GenFields DEF CountsAgree
<1>5. Advance(gen[r], stop, text) \in Generation
  BY <1>1, <1>3, <1>4, GenFields, GenRecord DEF Advance, Counted, CountsAgree
<1>6. /\ gen' \in [Requests -> Generation]
      /\ gen'[r] = Advance(gen[r], stop, text)
      /\ \A q \in Requests \ {r} : gen'[q] = gen[q]
  BY <1>1, <1>2, <1>5
<1>7. \/ ~text /\ out' = out
      \/ text /\ Len(out[r]) < OutSize /\ out' = [out EXCEPT ![r] = Append(@, Piece)]
  BY <1>2 DEF Push
<1>8. UNCHANGED <<req, turn, model, kv, life>>
  BY DEF Sample
<1>9. /\ gen'[r].pc \in {"decode", "finish"}
      /\ gen'[r].generated = gen[r].generated + 1 /\ gen'[r].sampled = gen[r].sampled + 1
      /\ gen'[r].sent = IF text THEN gen[r].sent + 1 ELSE gen[r].sent
  BY <1>6, SMTT(30) DEF Advance, Counted
<1>10. QED
  BY <1>3, <1>6, <1>7, <1>8, <1>9, ZenonT(30)

\* Whatever the loop does, it does to its own generation.
LEMMA LoopEffect ==
  ASSUME EngineTypeOK, NEW r \in Requests, CountsAgree(r), Over(r) \/ Sample(r) \/ Decode(r)
  PROVE  /\ gen[r].pc \in {"sample", "decode"}
         /\ gen'[r].pc \in {"sample", "decode", "finish"}
         /\ \A q \in Requests \ {r} : gen'[q] = gen[q] /\ out'[q] = out[q]
         /\ UNCHANGED <<req, turn, model, kv, life>>
<1> USE DEF EngineTypeOK, Generation
<1>1. CASE Over(r)
  BY <1>1, OverEffect
<1>2. CASE Sample(r)
  BY <1>2, SampleEffect, ZenonT(30)
<1>3. CASE Decode(r)
  BY <1>3, DecodeEffect, ZenonT(30)
<1>4. QED
  BY <1>1, <1>2, <1>3

-----------------------------------------------------------------------------
(* The mutex. *)

LEMMA EngMutex ==
  ASSUME EngineTypeOK, MutexHeld, \A r \in Requests : CountsAgree(r), [EngineNext]_engVars
  PROVE  MutexHeld'
<1> USE DEF EngineTypeOK, Generation, MutexHeld
<1>1. ASSUME NEW r \in Requests, \/ Accept(r) \/ Prepare(r) \/ Lock(r) \/ Read(r) \/ Drained(r)
                                \/ Client(r)
      PROVE  MutexHeld'
  <2>1. UNCHANGED <<gen, model, kv, life>>
    BY <1>1, ZenonT(30) DEF Accept, Prepare, Lock, Read, Drained, Client, HangUp, Stall
  <2>2. QED
    BY <2>1, ZenonT(30)
<1>2. ASSUME NEW r \in Requests, Generate(r) PROVE MutexHeld'
  <2>1. CASE UNCHANGED <<gen, model, kv, life>>
    BY <2>1, ZenonT(30)
  <2>2. CASE /\ gen' = [gen EXCEPT ![r].pc = "prefill"]
             /\ model = Nobody /\ model' = r
             /\ life # "freed" /\ UNCHANGED <<kv, life>>
    BY <2>2, ZenonT(90)
  <2>3. QED
    BY <1>2, <2>1, <2>2 DEF Generate
<1>3. ASSUME NEW r \in Requests, Prefill(r) PROVE MutexHeld'
  BY <1>3, ZenonT(30) DEF Prefill
<1>4. ASSUME NEW r \in Requests, Over(r) \/ Sample(r) \/ Decode(r) PROVE MutexHeld'
  BY <1>4, LoopEffect, ZenonT(30)
<1>5. ASSUME NEW r \in Requests, Finish(r) \/ GoroutineEnds(r) PROVE MutexHeld'
  <2>1. CASE gen[r].pc = "finish" /\ gen' = [gen EXCEPT ![r].pc = "end"]
             /\ UNCHANGED <<model, kv, life>>
    <3>1. gen'[r].pc = "end" /\ \A q \in Requests \ {r} : gen'[q] = gen[q]
      BY <2>1, GenMoves
    <3>2. QED
      BY <2>1, <3>1, ZenonT(30), SMTT(30)
  <2>2. CASE gen[r].pc = "end" /\ gen' = [gen EXCEPT ![r].pc = "off"] /\ model' = Nobody
             /\ UNCHANGED <<kv, life>>
    <3>1. gen'[r].pc = "off" /\ \A q \in Requests \ {r} : gen'[q] = gen[q]
      BY <2>2, GenMoves
    <3>2. QED
      BY <2>2, <3>1, ZenonT(30), SMTT(30)
  <2>3. QED
    BY <1>5, <2>1, <2>2, ZenonT(30) DEF Finish, GoroutineEnds
<1>6. CASE Signal \/ Close \/ EngineDies \/ UNCHANGED engVars
  BY <1>6, SMTT(30) DEF Signal, Close, EngineDies, NoGeneration, engVars
<1>7. QED
  BY <1>1, <1>2, <1>3, <1>4, <1>5, <1>6, ZenonT(30) DEF EngineNext, Handles, Generates

-----------------------------------------------------------------------------
(* What a step does to the request it is about. *)

LEMMA ReqFrame ==
  ASSUME NEW q \in Requests, ReqInv(q),
         req'[q] = req[q], gen'[q] = gen[q], out'[q] = out[q]
  PROVE  ReqInv(q)'
BY ZenonT(30) DEF ReqInv, StartsFresh, CountsAgree, NothingLost, Awaited, AnswerTrue, Last

LEMMA HandlerFields ==
  ASSUME NEW h \in Handler
  PROVE  /\ h.pc \in {"new"} \cup Accepted \cup Ended
         /\ h.gone \in BOOLEAN /\ h.stalled \in BOOLEAN
         /\ h.text \in 0..MaxTokens /\ h.usage \in 0..MaxTokens
BY DEF Handler

LEMMA ReqMoves ==
  ASSUME req \in [Requests -> Handler], NEW r \in Requests,
         NEW place \in {"parse", "lock", "generate", "read"} \cup Ended,
         req' = [req EXCEPT ![r].pc = place]
  PROVE  /\ req'[r].pc = place
         /\ req'[r].text = req[r].text /\ req'[r].usage = req[r].usage
         /\ req' \in [Requests -> Handler]
         /\ \A q \in Requests \ {r} : req'[q] = req[q]
BY DEF Handler, Accepted, Ended

LEMMA ReqClient ==
  ASSUME req \in [Requests -> Handler], NEW r \in Requests,
         NEW gone \in BOOLEAN, NEW stalled \in BOOLEAN,
         req' = [req EXCEPT ![r] = ClientIs(@, gone, stalled)]
  PROVE  /\ req'[r].pc = req[r].pc
         /\ req'[r].text = req[r].text /\ req'[r].usage = req[r].usage
         /\ req' \in [Requests -> Handler]
         /\ \A q \in Requests \ {r} : req'[q] = req[q]
<1>1. ASSUME NEW h \in Handler
      PROVE  /\ ClientIs(h, gone, stalled) \in Handler
             /\ ClientIs(h, gone, stalled).pc = h.pc
             /\ ClientIs(h, gone, stalled).text = h.text
             /\ ClientIs(h, gone, stalled).usage = h.usage
  BY ZenonT(30) DEF Handler, ClientIs
<1>2. QED
  BY <1>1

\* A token is added to, or taken from, the channel.
LEMMA Appended ==
  ASSUME NEW S, NEW s \in Seq(S), NEW e \in S
  PROVE  /\ Append(s, e) \in Seq(S) /\ Len(Append(s, e)) = Len(s) + 1
         /\ \A i \in 1..Len(s) : Append(s, e)[i] = s[i]
         /\ Append(s, e)[Len(s) + 1] = e
OBVIOUS

LEMMA Taken ==
  ASSUME NEW S, NEW s \in Seq(S), s # <<>>
  PROVE  /\ Tail(s) \in Seq(S) /\ Len(s) \in Nat \ {0} /\ Len(Tail(s)) = Len(s) - 1
         /\ \A i \in 1..(Len(s) - 1) : Tail(s)[i] = s[i + 1]
         /\ Head(s) = s[1]
OBVIOUS

\* One token less: all of it text p, or text p up to a last token l.
LEMMA TakenText ==
  ASSUME NEW S, NEW s \in Seq(S), s # <<>>, NEW p, \A i \in 1..Len(s) : s[i] = p
  PROVE  Head(s) = p /\ \A i \in 1..Len(Tail(s)) : Tail(s)[i] = p
<1>1. /\ Len(s) \in Nat \ {0} /\ Len(Tail(s)) = Len(s) - 1 /\ Head(s) = s[1]
      /\ \A i \in 1..(Len(s) - 1) : Tail(s)[i] = s[i + 1]
  BY Taken
<1>2. ASSUME NEW i \in 1..(Len(s) - 1) PROVE Tail(s)[i] = p
  <2>1. i + 1 \in 1..Len(s)
    BY <1>1
  <2>2. QED
    BY <1>1, <2>1
<1>3. 1 \in 1..Len(s)
  BY <1>1
<1>4. QED
  BY <1>1, <1>2, <1>3

LEMMA TakenLast ==
  ASSUME NEW S, NEW s \in Seq(S), s # <<>>, NEW p, NEW l,
         \A i \in 1..(Len(s) - 1) : s[i] = p, s[Len(s)] = l
  PROVE  \/ Len(s) = 1 /\ Head(s) = l
         \/ /\ Len(s) > 1 /\ Head(s) = p /\ Tail(s)[Len(Tail(s))] = l
            /\ \A i \in 1..(Len(Tail(s)) - 1) : Tail(s)[i] = p
<1>1. /\ Len(s) \in Nat \ {0} /\ Len(Tail(s)) = Len(s) - 1 /\ Head(s) = s[1]
      /\ \A i \in 1..(Len(s) - 1) : Tail(s)[i] = s[i + 1]
  BY Taken
<1>2. CASE Len(s) = 1
  BY <1>1, <1>2
<1>3. CASE Len(s) > 1
  <2>1. ASSUME NEW i \in 1..(Len(s) - 2) PROVE Tail(s)[i] = p
    <3>1. i \in 1..(Len(s) - 1) /\ i + 1 \in 1..(Len(s) - 1)
      BY <1>1
    <3>2. QED
      BY <1>1, <3>1
  <2>2. Len(s) - 1 \in 1..(Len(s) - 1) /\ 1 \in 1..(Len(s) - 1)
    BY <1>1, <1>3
  <2>3. Tail(s)[Len(s) - 1] = s[Len(s) - 1 + 1] /\ Len(s) - 1 + 1 = Len(s)
    BY <1>1, <2>2
  <2>4. Len(Tail(s)) - 1 = Len(s) - 2
    BY <1>1
  <2>5. QED
    BY <1>1, <1>3, <2>1, <2>2, <2>3, <2>4
<1>4. QED
  BY <1>1, <1>2, <1>3

LEMMA Tokens ==
  ASSUME EngineTypeOK, NEW r \in Requests
  PROVE  Piece \in Token /\ Last(r) \in Token
<1>1. gen[r] \in Generation
  BY DEF EngineTypeOK
<1>2. gen[r].generated \in 0..MaxTokens /\ gen[r].failed \in BOOLEAN
  BY <1>1, GenFields, ZenonT(30)
<1>3. QED
  BY <1>2 DEF Piece, Last, Token

-----------------------------------------------------------------------------
(* The steps of a handler keep the invariant of its request. *)

LEMMA QuietKeeps ==
  ASSUME EngineTypeOK, NEW r \in Requests, ReqInv(r),
         Accept(r) \/ Prepare(r) \/ Lock(r) \/ Client(r) \/ Drained(r)
  PROVE  /\ ReqInv(r)' /\ req' \in [Requests -> Handler]
         /\ turn' \in Requests \cup {Nobody}
         /\ UNCHANGED <<gen, out, model, kv, life>>
         /\ \A q \in Requests \ {r} : req'[q] = req[q]
<1> USE DEF ReqInv, StartsFresh, CountsAgree, NothingLost, Awaited, AnswerTrue, Last
<1>0. req \in [Requests -> Handler] /\ turn \in Requests \cup {Nobody}
  BY ZenonT(30) DEF EngineTypeOK
<1>1. CASE Accept(r) \/ Prepare(r)
  <2>1. PICK place \in {"parse", "lock", "error"} : req' = [req EXCEPT ![r].pc = place]
    BY <1>1, ZenonT(30) DEF Accept, Prepare
  <2>2. req[r].pc \in {"new", "parse"} /\ UNCHANGED <<gen, out, turn, model, kv, life>>
    BY <1>1 DEF Accept, Prepare
  <2>3. place \in {"parse", "lock", "generate", "read"} \cup Ended
    BY DEF Ended
  <2>4. /\ req'[r].pc \in {"parse", "lock", "error"}
        /\ req'[r].text = req[r].text /\ req'[r].usage = req[r].usage
        /\ req' \in [Requests -> Handler]
        /\ \A q \in Requests \ {r} : req'[q] = req[q]
    BY <1>0, <2>1, <2>3, ReqMoves, ZenonT(30)
  <2>5. ReqInv(r)'
    BY <2>2, <2>4 DEF NoGeneration
  <2>6. QED
    BY <1>0, <2>2, <2>4, <2>5
<1>2. CASE Lock(r)
  <2>1. /\ req[r].pc = "lock" /\ req' = [req EXCEPT ![r].pc = "generate"] /\ turn' = r
        /\ UNCHANGED <<gen, out, model, kv, life>>
    BY <1>2 DEF Lock
  <2>2. /\ req'[r].pc = "generate"
        /\ req'[r].text = req[r].text /\ req'[r].usage = req[r].usage
        /\ req' \in [Requests -> Handler]
        /\ \A q \in Requests \ {r} : req'[q] = req[q]
    BY <1>0, <2>1, ReqMoves, ZenonT(30)
  <2>3. ReqInv(r)'
    BY <2>1, <2>2 DEF NoGeneration
  <2>4. QED
    BY <1>0, <2>1, <2>2, <2>3
<1>3. CASE Client(r)
  <2>1. /\ \E gone, stalled \in BOOLEAN : req' = [req EXCEPT ![r] = ClientIs(@, gone, stalled)]
        /\ UNCHANGED <<gen, out, turn, model, kv, life>>
    BY <1>3, ZenonT(30) DEF Client, HangUp, Stall
  <2>2. QED
    BY <1>0, <2>1, ReqClient, ZenonT(30)
<1>4. CASE Drained(r)
  <2>1. req' = [req EXCEPT ![r].pc = "ok"] /\ turn' = Nobody
    BY <1>4 DEF Drained, Answer
  <2>2. req[r].text = gen[r].sent /\ req[r].usage = gen[r].generated
    BY ZenonT(30), <1>4 DEF Drained
  <2>3. QED
    BY <1>0, <1>4, <2>1, <2>2, ReqMoves, ZenonT(30) DEF Drained, Ended
<1>5. QED
  BY ZenonT(30), <1>1, <1>2, <1>3, <1>4

\* The counts of a request that has just begun.
LEMMA NothingYet == 0 + 0 = 0 /\ 1 - 1 = 0 /\ 0 <= 0 /\ 1..0 = {} /\ Len(<<>>) = 0
OBVIOUS

\* The count t of text the handler has and the length k of the channel, as one
\* token is read or the last one is sent.
LEMMA TextCounts ==
  ASSUME NEW t \in Int, NEW k \in Int
  PROVE  /\ t + 1 + (k - 1) = t + k
         /\ t + 1 + (k - 1) - 1 = t + k - 1
         /\ t + (k + 1) - 1 = t + k
         /\ t + 1 - 1 = t
OBVIOUS

LEMMA TextFits ==
  ASSUME NEW t \in 0..MaxTokens, NEW k \in Nat \ {0}, NEW u \in 0..MaxTokens,
         t + k = u \/ (t + k - 1 = u /\ k > 1)
  PROVE  t + 1 \in 0..MaxTokens
OBVIOUS

LEMMA GenerateKeeps ==
  ASSUME EngineTypeOK, NEW r \in Requests, ReqInv(r), Generate(r)
  PROVE  /\ ReqInv(r)' /\ req' \in [Requests -> Handler] /\ gen' \in [Requests -> Generation]
         /\ turn' \in Requests \cup {Nobody} /\ model' \in Requests \cup {Nobody}
         /\ UNCHANGED <<out, kv, life>>
         /\ \A q \in Requests \ {r} : req'[q] = req[q] /\ gen'[q] = gen[q]
<1>0. /\ req \in [Requests -> Handler] /\ gen \in [Requests -> Generation]
      /\ turn \in Requests \cup {Nobody} /\ model \in Requests \cup {Nobody}
  BY DEF EngineTypeOK
<1>1. CASE Answer(r, "error") /\ UNCHANGED <<gen, model>>
  <2>1. /\ req[r].pc = "generate" /\ req' = [req EXCEPT ![r].pc = "error"] /\ turn' = Nobody
        /\ UNCHANGED <<gen, out, model, kv, life>>
    BY <1>1, ZenonT(30) DEF Generate, Answer
  <2>2. /\ req'[r].pc = "error"
        /\ req' \in [Requests -> Handler]
        /\ \A q \in Requests \ {r} : req'[q] = req[q]
    BY <1>0, <2>1, ReqMoves, ZenonT(30) DEF Ended
  <2>3. ReqInv(r)'
    BY <2>1, <2>2, SMTT(60)
    DEF ReqInv, StartsFresh, CountsAgree, NothingLost, Awaited, AnswerTrue, Last, NoGeneration
  <2>4. QED
    BY <1>0, <2>1, <2>2, <2>3
<1>2. CASE /\ req' = [req EXCEPT ![r].pc = "read"] /\ gen' = [gen EXCEPT ![r].pc = "prefill"]
           /\ model' = r /\ UNCHANGED turn
  <2>1. /\ req[r].text = 0 /\ gen[r].sent = 0 /\ gen[r].sampled = 0 /\ gen[r].generated = 0
        /\ out[r] = <<>> /\ Len(out[r]) = 0
    BY DEF Generate, ReqInv, StartsFresh, NoGeneration
  <2>2. UNCHANGED <<out, kv, life>>
    BY DEF Generate
  <2>3. /\ req'[r].pc = "read" /\ req'[r].text = 0
        /\ req' \in [Requests -> Handler]
        /\ \A q \in Requests \ {r} : req'[q] = req[q]
    BY <1>0, <1>2, <2>1, ReqMoves, ZenonT(30)
  <2>4. /\ gen'[r].pc = "prefill" /\ gen'[r].generated = 0 /\ gen'[r].sampled = 0
        /\ gen'[r].sent = 0
        /\ gen' \in [Requests -> Generation]
        /\ \A q \in Requests \ {r} : gen'[q] = gen[q]
    BY <1>0, <1>2, <2>1, GenMoves, ZenonT(30)
  <2>5. out'[r] = <<>> /\ Len(out'[r]) = 0
    BY <2>1, <2>2
  <2>6. CountsAgree(r)'
    BY <2>4, NothingYet, ZenonT(30) DEF CountsAgree
  <2>7. NothingLost(r)'
    <3>1. \A i \in 1 .. Len(out'[r]) : out'[r][i] = Piece
      BY <2>5, NothingYet, ZenonT(30)
    <3>2. req'[r].text + Len(out'[r]) = gen'[r].sent
      BY <2>3, <2>4, <2>5, NothingYet, ZenonT(30)
    <3>3. QED
      BY <2>4, <3>1, <3>2, ZenonT(30) DEF NothingLost
  <2>8. ReqInv(r)'
    BY <2>3, <2>4, <2>6, <2>7, ZenonT(30) DEF ReqInv, StartsFresh, Awaited, AnswerTrue
  <2>9. QED
    BY <1>0, <1>2, <2>2, <2>3, <2>4, <2>8
<1>3. QED
  BY <1>1, <1>2 DEF Generate

\* A handler takes text from the channel while there is more, then the last
\* token: an error ends it, and anything else completes what it has.
LEMMA ReadKeeps ==
  ASSUME EngineTypeOK, NEW r \in Requests, ReqInv(r), Read(r)
  PROVE  /\ ReqInv(r)' /\ req' \in [Requests -> Handler] /\ out' \in [Requests -> Seq(Token)]
         /\ Len(out'[r]) <= OutSize /\ turn' \in Requests \cup {Nobody}
         /\ UNCHANGED <<gen, model, kv, life>>
         /\ \A q \in Requests \ {r} : req'[q] = req[q] /\ out'[q] = out[q]
<1> DEFINE s == out[r]
           n == Len(out[r])
           running == gen[r].pc \in {"prefill", "sample", "decode", "finish"}
<1>0. /\ req \in [Requests -> Handler] /\ gen \in [Requests -> Generation]
      /\ out \in [Requests -> Seq(Token)] /\ Len(out[r]) <= OutSize
      /\ turn \in Requests \cup {Nobody}
  BY DEF EngineTypeOK
<1>1. /\ req[r].pc = "read" /\ s # <<>> /\ UNCHANGED <<gen, model, kv, life>>
      /\ out' = [out EXCEPT ![r] = Tail(@)]
  BY DEF Read
<1>2. /\ Tail(s) \in Seq(Token) /\ n \in Nat \ {0} /\ Len(Tail(s)) = n - 1
      /\ \A i \in 1..(n - 1) : Tail(s)[i] = s[i + 1]
      /\ Head(s) = s[1]
  BY <1>0, <1>1, Taken
<1>3. /\ out' \in [Requests -> Seq(Token)] /\ out'[r] = Tail(s)
      /\ Len(out'[r]) = n - 1 /\ Len(out'[r]) <= OutSize
      /\ \A q \in Requests \ {r} : out'[q] = out[q]
  BY <1>0, <1>1, <1>2
<1>4. /\ req[r].text \in 0..MaxTokens /\ req[r].usage \in 0..MaxTokens
      /\ gen[r].sent \in 0..MaxTokens /\ gen[r].generated \in 0..MaxTokens
  BY <1>0, GenFields, HandlerFields, ZenonT(30)
<1>a. req[r].text \in Int /\ n \in Int /\ gen[r].sent \in Int
  BY <1>2, <1>4
<1>5. /\ running => /\ \A i \in 1..n : s[i] = Piece
                    /\ req[r].text + n = gen[r].sent
      /\ ~running => /\ \A i \in 1..(n - 1) : s[i] = Piece
                     /\ s[n] = Last(r)
                     /\ req[r].text + n - 1 = gen[r].sent
  BY <1>1, <1>2, ZenonT(30) DEF ReqInv, NothingLost
<1>6. \/ /\ running /\ Head(s) = Piece
         /\ \A i \in 1..(n - 1) : Tail(s)[i] = Piece
      \/ /\ ~running /\ n > 1 /\ Head(s) = Piece
         /\ \A i \in 1..(n - 1 - 1) : Tail(s)[i] = Piece
         /\ Tail(s)[n - 1] = Last(r)
      \/ ~running /\ n = 1 /\ Head(s) = Last(r)
  <2>1. CASE running
    <3>1. \A i \in 1..Len(s) : s[i] = Piece
      BY <1>5, <2>1, ZenonT(30)
    <3>2. Head(s) = Piece /\ \A i \in 1..Len(Tail(s)) : Tail(s)[i] = Piece
      BY <1>0, <1>1, <3>1, TakenText, ZenonT(30)
    <3>3. QED
      BY <1>2, <2>1, <3>2, ZenonT(30)
  <2>2. CASE ~running
    <3>1. (\A i \in 1..(Len(s) - 1) : s[i] = Piece) /\ s[Len(s)] = Last(r)
      BY <1>5, <2>2, ZenonT(30)
    <3>2. \/ Len(s) = 1 /\ Head(s) = Last(r)
          \/ /\ Len(s) > 1 /\ Head(s) = Piece /\ Tail(s)[Len(Tail(s))] = Last(r)
             /\ \A i \in 1..(Len(Tail(s)) - 1) : Tail(s)[i] = Piece
      <4>1. s \in Seq(Token) /\ s # <<>>
        BY <1>0, <1>1, ZenonT(30)
      <4>2. QED
        BY <3>1, <4>1, TakenLast, ZenonT(60)
    <3>3. QED
      BY <1>2, <2>2, <3>2, ZenonT(30)
  <2>3. QED
    BY <2>1, <2>2
<1>7. Last(r)' = Last(r)
  BY <1>1 DEF Last
<1>8. CASE \/ /\ running /\ Head(s) = Piece
              /\ \A i \in 1..(n - 1) : Tail(s)[i] = Piece
           \/ /\ ~running /\ n > 1 /\ Head(s) = Piece
              /\ \A i \in 1..(n - 1 - 1) : Tail(s)[i] = Piece
              /\ Tail(s)[n - 1] = Last(r)
  <2>1. ~Head(s).err /\ Head(s).text /\ ~Head(s).done
    BY SMTT(30), <1>8 DEF Piece
  <2>2. req' = [req EXCEPT ![r] = Noted(@, Head(s))] /\ UNCHANGED turn
    BY <2>1 DEF Read
  <2>3. req[r].text + 1 \in 0..MaxTokens
    <3>1. \/ req[r].text + n = gen[r].sent
          \/ req[r].text + n - 1 = gen[r].sent /\ n > 1
      BY <1>5, <1>8, ZenonT(30)
    <3>2. QED
      BY <1>2, <1>4, <3>1, TextFits, ZenonT(30)
  <2>4. /\ Noted(req[r], Head(s)) \in Handler
        /\ Noted(req[r], Head(s)).pc = "read" /\ Noted(req[r], Head(s)).text = req[r].text + 1
    BY <1>0, <1>1, <2>1, <2>3, ZenonT(30) DEF Noted, Handler
  <2>5. /\ req' \in [Requests -> Handler] /\ req'[r].pc = "read"
        /\ req'[r].text = req[r].text + 1
        /\ \A q \in Requests \ {r} : req'[q] = req[q]
    BY <1>0, <2>2, <2>4
  <2>6. NothingLost(r)'
    <3>1. CASE running
      <4>1. req[r].text + 1 + (n - 1) = gen[r].sent
        <5>1. req[r].text + 1 + (n - 1) = req[r].text + n
          BY <1>a, TextCounts, ZenonT(30)
        <5>2. QED
          BY <1>5, <3>1, <5>1, ZenonT(30)
      <4>2. \A i \in 1..(n - 1) : Tail(s)[i] = Piece
        BY <1>8, <3>1
      <4>3. QED
        BY <1>1, <1>3, <2>5, <3>1, <4>1, <4>2 DEF NothingLost
    <3>2. CASE ~running
      <4>1. req[r].text + 1 + (n - 1) - 1 = gen[r].sent
        <5>1. req[r].text + 1 + (n - 1) - 1 = req[r].text + n - 1
          BY <1>a, TextCounts, ZenonT(30)
        <5>2. QED
          BY <1>5, <3>2, <5>1, ZenonT(30)
      <4>2. /\ \A i \in 1..(n - 1 - 1) : Tail(s)[i] = Piece
            /\ Tail(s)[n - 1] = Last(r) /\ n - 1 # 0
        BY <1>2, <1>8, <3>2
      <4>3. /\ \A i \in 1..(Len(out'[r]) - 1) : out'[r][i] = Piece
            /\ out'[r][Len(out'[r])] = Last(r)' /\ Len(out'[r]) # 0
            /\ req'[r].text + Len(out'[r]) - 1 = gen'[r].sent
        <5>1. Len(out'[r]) = n - 1 /\ out'[r] = Tail(s)
          BY <1>3
        <5>2. req'[r].text = req[r].text + 1 /\ gen'[r].sent = gen[r].sent
          BY <1>1, <2>5
        <5>3. out'[r][Len(out'[r])] = Last(r)'
          BY <1>7, <4>2, <5>1, ZenonT(30)
        <5>4. req'[r].text + Len(out'[r]) - 1 = gen'[r].sent
          BY <4>1, <5>1, <5>2
        <5>5. QED
          BY <4>2, <5>1, <5>3, <5>4, ZenonT(30)
      <4>4. gen'[r].pc \notin {"prefill", "sample", "decode", "finish"}
        BY <1>1, <3>2
      <4>5. QED
        BY <4>3, <4>4 DEF NothingLost
    <3>3. QED
      BY <3>1, <3>2
  <2>7. ReqInv(r)'
    BY <1>1, <2>5, <2>6 DEF ReqInv, StartsFresh, CountsAgree, Awaited, AnswerTrue
  <2>8. QED
    BY <1>0, <1>1, <1>3, <2>2, <2>5, <2>7
<1>9. CASE ~running /\ n = 1 /\ Head(s) = Last(r)
  <2>1. /\ Head(s).err = gen[r].failed /\ ~Head(s).text /\ Head(s).done
        /\ Head(s).count = gen[r].generated
    <3>1. /\ Last(r).err = gen[r].failed /\ ~Last(r).text /\ Last(r).done
          /\ Last(r).count = gen[r].generated
      BY DEF Last
    <3>2. QED
      BY <1>9, <3>1, ZenonT(30)
  <2>2. req[r].text = gen[r].sent
    <3>1. req[r].text + 1 - 1 = req[r].text
      BY <1>a, TextCounts, ZenonT(30)
    <3>2. req[r].text + n - 1 = gen[r].sent /\ n = 1
      BY <1>5, <1>9, ZenonT(30)
    <3>3. QED
      BY <3>1, <3>2, ZenonT(30)
  <2>3. CASE gen[r].failed
    <3>1. req' = [req EXCEPT ![r].pc = Failure(r)] /\ turn' = Nobody
      BY <2>1, <2>3, ZenonT(30) DEF Read, Answer
    <3>2. Failure(r) \in {"ok", "error"} /\ (Failure(r) = "ok" => r \in Streamed)
      BY DEF Failure
    <3>3. /\ req'[r].pc = Failure(r) /\ req' \in [Requests -> Handler]
          /\ \A q \in Requests \ {r} : req'[q] = req[q]
      BY <1>0, <3>1, <3>2, ReqMoves, ZenonT(30) DEF Ended
    <3>4. gen[r].pc \in {"off", "end"}
      BY <1>0, <1>9, GenFields
    <3>5. ReqInv(r)'
      BY <1>1, <2>3, <3>2, <3>3, <3>4
      DEF ReqInv, StartsFresh, CountsAgree, NothingLost, Awaited, AnswerTrue
    <3>6. QED
      BY <1>0, <1>1, <1>3, <3>1, <3>3, <3>5
  <2>4. CASE ~gen[r].failed
    <3>1. req' = [req EXCEPT ![r] = Noted(@, Head(s))] /\ UNCHANGED turn
      BY ZenonT(30), <2>1, <2>4 DEF Read
    <3>2. /\ Noted(req[r], Head(s)) \in Handler
          /\ Noted(req[r], Head(s)).pc = "read"
          /\ Noted(req[r], Head(s)).text = req[r].text
          /\ Noted(req[r], Head(s)).usage = gen[r].generated
      BY <1>0, <1>1, <1>4, <2>1, ZenonT(30) DEF Noted, Handler
    <3>3. /\ req' \in [Requests -> Handler] /\ req'[r].pc = "read"
          /\ req'[r].text = req[r].text /\ req'[r].usage = gen[r].generated
          /\ \A q \in Requests \ {r} : req'[q] = req[q]
      BY <1>0, <3>1, <3>2
    <3>4. NothingLost(r)'
      <4>1. n - 1 = 0
        BY <1>9, NothingYet, ZenonT(30)
      <4>2. Len(out'[r]) = 0 /\ gen'[r].pc \notin {"prefill", "sample", "decode", "finish"}
        BY <1>1, <1>3, <1>9, <4>1, ZenonT(30)
      <4>3. req'[r].text = gen'[r].sent /\ req'[r].usage = gen'[r].generated /\ ~gen'[r].failed
        BY <1>1, <2>2, <2>4, <3>3, ZenonT(30)
      <4>4. QED
        BY <4>2, <4>3, ZenonT(30) DEF NothingLost
    <3>5. ReqInv(r)'
      BY <1>1, <3>3, <3>4 DEF ReqInv, StartsFresh, CountsAgree, Awaited, AnswerTrue
    <3>6. QED
      BY <1>0, <1>1, <1>3, <3>1, <3>3, <3>5, ZenonT(30)
  <2>5. QED
    BY ZenonT(30), <2>3, <2>4
<1>10. QED
  BY ZenonT(30), <1>6, <1>8, <1>9

-----------------------------------------------------------------------------
(* The steps of a goroutine keep the invariant of its request. *)

\* Until it finishes, a step that sends nothing changes nothing that counts.
LEMMA RunsOn ==
  ASSUME NEW r \in Requests, ReqInv(r), req' = req, out' = out,
         gen[r].pc \in {"prefill", "sample", "decode"},
         gen'[r].pc \in {"sample", "decode", "finish"},
         gen'[r].generated = gen[r].generated, gen'[r].sampled = gen[r].sampled,
         gen'[r].sent = gen[r].sent
  PROVE  ReqInv(r)'
<1>1. req[r].pc = "read"
  BY DEF ReqInv, Awaited
<1>2. NothingLost(r)'
  BY ZenonT(30), <1>1 DEF ReqInv, NothingLost
<1>3. QED
  BY <1>1, <1>2 DEF ReqInv, StartsFresh, CountsAgree, Awaited, AnswerTrue

LEMMA PrefillKeeps ==
  ASSUME EngineTypeOK, NEW r \in Requests, ReqInv(r), Prefill(r)
  PROVE  /\ ReqInv(r)' /\ gen' \in [Requests -> Generation]
         /\ kv' = r /\ UNCHANGED <<req, out, turn, model, life>>
         /\ \A q \in Requests \ {r} : gen'[q] = gen[q]
<1>0. gen \in [Requests -> Generation]
  BY DEF EngineTypeOK
<1>1. gen[r].pc = "prefill" /\ kv' = r /\ UNCHANGED <<req, out, turn, model, life>>
  BY DEF Prefill
<1>2. /\ gen'[r].pc \in {"sample", "finish"}
      /\ gen'[r].generated = gen[r].generated /\ gen'[r].sampled = gen[r].sampled
      /\ gen'[r].sent = gen[r].sent
      /\ gen' \in [Requests -> Generation]
      /\ \A q \in Requests \ {r} : gen'[q] = gen[q]
  <2>1. CASE gen' = [gen EXCEPT ![r].pc = "sample"]
    BY <1>0, <2>1, GenMoves, ZenonT(30)
  <2>2. CASE gen' = [gen EXCEPT ![r] = Leave(@, TRUE)]
    BY <1>0, <2>2, GenLeaves, ZenonT(30)
  <2>3. QED
    BY <2>1, <2>2, ZenonT(30) DEF Prefill
<1>3. ReqInv(r)'
  BY <1>1, <1>2, RunsOn
<1>4. QED
  BY <1>1, <1>2, <1>3

LEMMA LoopKeeps ==
  ASSUME EngineTypeOK, NEW r \in Requests, ReqInv(r), Over(r) \/ Decode(r)
  PROVE  /\ ReqInv(r)' /\ gen' \in [Requests -> Generation]
         /\ UNCHANGED <<req, out, turn, model, kv, life>>
         /\ \A q \in Requests \ {r} : gen'[q] = gen[q]
BY OverEffect, DecodeEffect, RunsOn

LEMMA SampleKeeps ==
  ASSUME EngineTypeOK, NEW r \in Requests, ReqInv(r), Sample(r)
  PROVE  /\ ReqInv(r)' /\ gen' \in [Requests -> Generation]
         /\ out' \in [Requests -> Seq(Token)] /\ Len(out'[r]) <= OutSize
         /\ UNCHANGED <<req, turn, model, kv, life>>
         /\ \A q \in Requests \ {r} : gen'[q] = gen[q] /\ out'[q] = out[q]
<1>0. out \in [Requests -> Seq(Token)] /\ Len(out[r]) <= OutSize /\ Piece \in Token
  BY Tokens DEF EngineTypeOK
<1>1. CountsAgree(r)
  BY DEF ReqInv
<1>2. /\ gen[r].pc = "sample" /\ gen'[r].pc \in {"decode", "finish"}
      /\ gen'[r].generated = gen[r].generated + 1 /\ gen'[r].sampled = gen[r].sampled + 1
      /\ gen' \in [Requests -> Generation]
      /\ \A q \in Requests \ {r} : gen'[q] = gen[q]
      /\ UNCHANGED <<req, turn, model, kv, life>>
  BY <1>1, SampleEffect
<1>3. /\ gen[r].generated \in Nat /\ gen[r].sampled \in Nat /\ gen[r].sent \in Nat
      /\ req[r].text \in Nat
  BY GenFields, HandlerFields DEF EngineTypeOK
<1>4. req[r].pc = "read"
  BY <1>2, ZenonT(30) DEF ReqInv, Awaited
<1>5. (\A i \in 1..Len(out[r]) : out[r][i] = Piece) /\ req[r].text + Len(out[r]) = gen[r].sent
  BY <1>2, <1>4, ZenonT(30) DEF ReqInv, NothingLost
<1>6. CASE gen'[r].sent = gen[r].sent /\ out' = out
  <2>1. CountsAgree(r)'
    BY SMTT(90), <1>1, <1>2, <1>3, <1>6 DEF CountsAgree
  <2>2. NothingLost(r)'
    BY <1>2, <1>4, <1>5, <1>6, ZenonT(30) DEF NothingLost
  <2>3. ReqInv(r)'
    BY ZenonT(30), <1>2, <1>4, <2>1, <2>2 DEF ReqInv, StartsFresh, Awaited, AnswerTrue
  <2>4. QED
    BY <1>0, <1>2, <1>6, <2>3
<1>7. CASE /\ gen'[r].sent = gen[r].sent + 1
           /\ Len(out[r]) < OutSize /\ out' = [out EXCEPT ![r] = Append(@, Piece)]
  <2>0. /\ Append(out[r], Piece) \in Seq(Token)
        /\ Len(Append(out[r], Piece)) = Len(out[r]) + 1 /\ Len(out[r]) \in Nat
        /\ \A i \in 1..Len(out[r]) : Append(out[r], Piece)[i] = out[r][i]
        /\ Append(out[r], Piece)[Len(out[r]) + 1] = Piece
    BY <1>0, Appended
  <2>1. /\ out' \in [Requests -> Seq(Token)] /\ out'[r] = Append(out[r], Piece)
        /\ Len(out'[r]) = Len(out[r]) + 1 /\ Len(out'[r]) <= OutSize
        /\ \A q \in Requests \ {r} : out'[q] = out[q]
    <3>1. /\ out' \in [Requests -> Seq(Token)] /\ out'[r] = Append(out[r], Piece)
          /\ \A q \in Requests \ {r} : out'[q] = out[q]
      BY <1>0, <1>7, <2>0, ZenonT(30)
    <3>2. Len(out[r]) + 1 <= OutSize
      BY <1>7, <2>0
    <3>3. QED
      BY <2>0, <3>1, <3>2, ZenonT(30)
  <2>2. CountsAgree(r)'
    <3>1. \A t, u \in Nat : t <= u => t + 1 <= u + 1
      OBVIOUS
    <3>2. gen[r].generated = gen[r].sampled /\ gen[r].sent + 1 <= gen[r].sampled + 1
      BY <1>1, <1>3, <3>1, ZenonT(30) DEF CountsAgree
    <3>3. QED
      BY <1>2, <1>7, <3>2, ZenonT(30) DEF CountsAgree
  <2>3. \A i \in 1..Len(out'[r]) : out'[r][i] = Piece
    <3>1. ASSUME NEW i \in 1..(Len(out[r]) + 1) PROVE Append(out[r], Piece)[i] = Piece
      <4>1. i \in 1..Len(out[r]) \/ i = Len(out[r]) + 1
        BY <2>0
      <4>2. QED
        BY <1>5, <2>0, <4>1
    <3>2. QED
      BY <2>1, <3>1
  <2>4. req[r].text + Len(out'[r]) = gen'[r].sent
    <3>1. \A t, k, u \in Int : t + k = u => t + (k + 1) = u + 1
      OBVIOUS
    <3>2. req[r].text + (Len(out[r]) + 1) = gen[r].sent + 1
      BY <1>3, <1>5, <2>0, <3>1
    <3>3. QED
      BY <1>7, <2>1, <3>2
  <2>5. NothingLost(r)'
    BY <1>2, <2>3, <2>4 DEF NothingLost
  <2>6. ReqInv(r)'
    BY <1>2, <1>4, <2>2, <2>5, ZenonT(60) DEF ReqInv, StartsFresh, Awaited, AnswerTrue
  <2>7. QED
    BY ZenonT(30), <1>2, <2>1, <2>6
<1>8. QED
  BY ZenonT(30), <1>1, <1>6, <1>7, SampleEffect

LEMMA FinishKeeps ==
  ASSUME EngineTypeOK, NEW r \in Requests, ReqInv(r), Finish(r)
  PROVE  /\ ReqInv(r)' /\ gen' \in [Requests -> Generation]
         /\ out' \in [Requests -> Seq(Token)] /\ Len(out'[r]) <= OutSize
         /\ UNCHANGED <<req, turn, model, kv, life>>
         /\ \A q \in Requests \ {r} : gen'[q] = gen[q] /\ out'[q] = out[q]
<1>0. /\ gen \in [Requests -> Generation] /\ out \in [Requests -> Seq(Token)]
      /\ Last(r) \in Token
  BY Tokens DEF EngineTypeOK
<1>1. /\ gen[r].pc = "finish" /\ Len(out[r]) < OutSize
      /\ gen' = [gen EXCEPT ![r].pc = "end"]
      /\ out' = [out EXCEPT ![r] = Append(@, Last(r))]
      /\ UNCHANGED <<req, turn, model, kv, life>>
  BY DEF Finish
<1>2. /\ gen'[r].pc = "end"
      /\ gen'[r].generated = gen[r].generated /\ gen'[r].sampled = gen[r].sampled
      /\ gen'[r].sent = gen[r].sent /\ gen'[r].failed = gen[r].failed
      /\ gen' \in [Requests -> Generation]
      /\ \A q \in Requests \ {r} : gen'[q] = gen[q]
  BY <1>0, <1>1, GenMoves, ZenonT(30)
<1>3. /\ Append(out[r], Last(r)) \in Seq(Token)
      /\ Len(Append(out[r], Last(r))) = Len(out[r]) + 1 /\ Len(out[r]) \in Nat
      /\ \A i \in 1..Len(out[r]) : Append(out[r], Last(r))[i] = out[r][i]
      /\ Append(out[r], Last(r))[Len(out[r]) + 1] = Last(r)
  BY <1>0, Appended
<1>4. /\ out' \in [Requests -> Seq(Token)] /\ out'[r] = Append(out[r], Last(r))
      /\ Len(out'[r]) = Len(out[r]) + 1 /\ Len(out'[r]) <= OutSize
      /\ \A q \in Requests \ {r} : out'[q] = out[q]
  <2>1. /\ out' \in [Requests -> Seq(Token)] /\ out'[r] = Append(out[r], Last(r))
        /\ \A q \in Requests \ {r} : out'[q] = out[q]
    BY <1>0, <1>1, <1>3, ZenonT(30)
  <2>2. Len(out[r]) + 1 <= OutSize
    BY <1>1, <1>3
  <2>3. QED
    BY <1>3, <2>1, <2>2, ZenonT(30)
<1>5. req[r].pc = "read"
  BY <1>1 DEF ReqInv, Awaited
<1>6. (\A i \in 1..Len(out[r]) : out[r][i] = Piece) /\ req[r].text + Len(out[r]) = gen[r].sent
  BY <1>1, <1>5 DEF ReqInv, NothingLost
<1>7. /\ \A i \in 1..(Len(out'[r]) - 1) : out'[r][i] = Piece
      /\ out'[r][Len(out'[r])] = Last(r)' /\ Len(out'[r]) # 0
  <2>1. Len(out[r]) + 1 - 1 = Len(out[r]) /\ Len(out[r]) + 1 # 0
    BY <1>3
  <2>2. Last(r)' = Last(r)
    BY <1>2, ZenonT(30) DEF Last
  <2>3. Len(out'[r]) # 0 /\ 1..(Len(out'[r]) - 1) = 1..Len(out[r])
    <3>1. Len(out'[r]) = Len(out[r]) + 1 /\ Len(out[r]) \in Nat
      BY <1>3, <1>4, ZenonT(30)
    <3>2. QED
      BY <3>1, SMTT(60)
  <2>4. out'[r][Len(out'[r])] = Last(r)'
    BY <1>3, <1>4, <2>2, ZenonT(30)
  <2>5. \A i \in 1..Len(out[r]) : out'[r][i] = Piece
    BY <1>3, <1>4, <1>6, ZenonT(30)
  <2>6. QED
    BY <2>3, <2>4, <2>5, ZenonT(30)
<1>8. req[r].text + Len(out'[r]) - 1 = gen'[r].sent
  <2>1. req[r].text \in Int /\ gen[r].sent \in Int /\ Len(out[r]) \in Int
    <3>1. req[r] \in Handler /\ gen[r] \in Generation
      BY ZenonT(30) DEF EngineTypeOK
    <3>2. req[r].text \in 0..MaxTokens /\ gen[r].sent \in 0..MaxTokens
      BY <3>1, GenFields, HandlerFields, ZenonT(30)
    <3>3. QED
      BY <1>3, <3>2
  <2>2. QED
    <3>1. req[r].text + (Len(out[r]) + 1) - 1 = req[r].text + Len(out[r])
      BY <2>1, TextCounts, ZenonT(30)
    <3>2. Len(out'[r]) = Len(out[r]) + 1 /\ gen'[r].sent = gen[r].sent
      BY <1>2, <1>3, <1>4, ZenonT(30)
    <3>3. QED
      BY <1>6, <3>1, <3>2, ZenonT(30)
<1>9. NothingLost(r)'
  BY <1>1, <1>2, <1>7, <1>8 DEF NothingLost
<1>10. ReqInv(r)'
  BY <1>1, <1>2, <1>5, <1>9 DEF ReqInv, StartsFresh, CountsAgree, Awaited, AnswerTrue
<1>11. QED
  BY <1>1, <1>2, <1>4, <1>10

LEMMA EndKeeps ==
  ASSUME EngineTypeOK, NEW r \in Requests, ReqInv(r), GoroutineEnds(r)
  PROVE  /\ ReqInv(r)' /\ gen' \in [Requests -> Generation]
         /\ model' = Nobody /\ UNCHANGED <<req, out, turn, kv, life>>
         /\ \A q \in Requests \ {r} : gen'[q] = gen[q]
<1>1. /\ gen[r].pc = "end" /\ gen' = [gen EXCEPT ![r].pc = "off"] /\ model' = Nobody
      /\ UNCHANGED <<req, out, turn, kv, life>>
  BY DEF GoroutineEnds
<1>2. /\ gen'[r].pc = "off"
      /\ gen'[r].generated = gen[r].generated /\ gen'[r].sampled = gen[r].sampled
      /\ gen'[r].sent = gen[r].sent /\ gen'[r].failed = gen[r].failed
      /\ gen' \in [Requests -> Generation]
      /\ \A q \in Requests \ {r} : gen'[q] = gen[q]
  BY <1>1, GenMoves, ZenonT(30) DEF EngineTypeOK
<1>3. Last(r)' = Last(r)
  BY <1>2 DEF Last
<1>4. NothingLost(r)'
  BY <1>1, <1>2, <1>3 DEF ReqInv, NothingLost
<1>5. StartsFresh(r)'
  BY <1>1 DEF ReqInv, StartsFresh, NoGeneration
<1>6. ReqInv(r)'
  BY <1>1, <1>2, <1>4, <1>5 DEF ReqInv, CountsAgree, Awaited, AnswerTrue
<1>7. QED
  BY <1>1, <1>2, <1>6

-----------------------------------------------------------------------------
(* The inductive invariant. *)

LEMMA DiesKeeps ==
  ASSUME EngineTypeOK, EngineDies
  PROVE  EngineTypeOK' /\ \A r \in Requests : ReqInv(r)'
<1>1. \A h \in Handler : HandlerAt("broken") \in Handler /\ HandlerAt(h.pc) \in Handler
  BY HandlerFields DEF HandlerAt, Handler, Ended
<1>2. NoGeneration \in Generation /\ <<>> \in Seq(Token) /\ Len(<<>>) = 0
  BY DEF NoGeneration, Generation
<1>3. req' \in [Requests -> Handler]
  BY <1>1 DEF EngineDies, EngineTypeOK
<1>4. EngineTypeOK'
  <2>1. gen' \in [Requests -> Generation] /\ out' \in [Requests -> Seq(Token)]
    BY <1>2 DEF EngineDies
  <2>2. \A r \in Requests : Len(out'[r]) <= OutSize
    BY SMTT(30), <1>2 DEF EngineDies
  <2>3. /\ turn' \in Requests \cup {Nobody} /\ model' \in Requests \cup {Nobody}
        /\ kv' \in Requests \cup {Nobody} /\ life' \in {"open", "closing", "freed"}
    BY DEF EngineDies
  <2>4. QED
    BY <1>3, <2>1, <2>2, <2>3, ZenonT(30) DEF EngineTypeOK
<1>5. ASSUME NEW r \in Requests PROVE ReqInv(r)'
  <2>1. gen'[r] = NoGeneration /\ out'[r] = <<>>
    BY ZenonT(30) DEF EngineDies
  <2>2. req'[r].text = 0 /\ req'[r].usage = 0 /\ req'[r].pc \notin {"lock", "generate", "read"}
    BY DEF EngineDies, HandlerAt, Accepted
  <2>3. /\ NoGeneration.pc = "off" /\ NoGeneration.generated = 0 /\ NoGeneration.sampled = 0
        /\ NoGeneration.sent = 0
    BY DEF NoGeneration
  <2>4. StartsFresh(r)' /\ CountsAgree(r)'
    BY <2>1, <2>2, <2>3, NothingYet, ZenonT(30) DEF StartsFresh, CountsAgree
  <2>5. NothingLost(r)' /\ Awaited(r)' /\ AnswerTrue(r)'
    BY <2>1, <2>2, <2>3, ZenonT(30) DEF NothingLost, Awaited, AnswerTrue
  <2>6. QED
    BY <2>4, <2>5, ZenonT(30) DEF ReqInv
<1>6. QED
  BY <1>4, <1>5

\* A step is about one request, or about none.
LEMMA StepKeeps ==
  ASSUME EngineTypeOK, \A q \in Requests : ReqInv(q), [EngineNext]_engVars
  PROVE  EngineTypeOK' /\ \A q \in Requests : ReqInv(q)'
<1>0. /\ req \in [Requests -> Handler] /\ gen \in [Requests -> Generation]
      /\ out \in [Requests -> Seq(Token)] /\ \A q \in Requests : Len(out[q]) <= OutSize
      /\ turn \in Requests \cup {Nobody} /\ model \in Requests \cup {Nobody}
      /\ kv \in Requests \cup {Nobody} /\ life \in {"open", "closing", "freed"}
  BY ZenonT(30) DEF EngineTypeOK
<1>1. ASSUME NEW r \in Requests,
             /\ ReqInv(r)' /\ req' \in [Requests -> Handler]
             /\ gen' \in [Requests -> Generation]
             /\ out' \in [Requests -> Seq(Token)] /\ Len(out'[r]) <= OutSize
             /\ turn' \in Requests \cup {Nobody} /\ model' \in Requests \cup {Nobody}
             /\ kv' \in Requests \cup {Nobody} /\ life' = life,
             \A q \in Requests \ {r} : req'[q] = req[q] /\ gen'[q] = gen[q] /\ out'[q] = out[q]
      PROVE  EngineTypeOK' /\ \A q \in Requests : ReqInv(q)'
  <2>1. \A q \in Requests \ {r} : ReqInv(q)'
    BY <1>1, ReqFrame
  <2>2. EngineTypeOK'
    BY <1>0, <1>1, ZenonT(30) DEF EngineTypeOK
  <2>3. QED
    BY <1>1, <2>1, <2>2, ZenonT(30)
<1>2. ASSUME NEW r \in Requests, Accept(r) \/ Prepare(r) \/ Lock(r) \/ Client(r) \/ Drained(r)
      PROVE  EngineTypeOK' /\ \A q \in Requests : ReqInv(q)'
  BY <1>0, <1>1, <1>2, QuietKeeps, ZenonT(30)
<1>3. ASSUME NEW r \in Requests, Generate(r)
      PROVE  EngineTypeOK' /\ \A q \in Requests : ReqInv(q)'
  BY <1>0, <1>1, <1>3, GenerateKeeps, ZenonT(30)
<1>4. ASSUME NEW r \in Requests, Read(r)
      PROVE  EngineTypeOK' /\ \A q \in Requests : ReqInv(q)'
  BY <1>0, <1>1, <1>4, ReadKeeps, ZenonT(30)
<1>5. ASSUME NEW r \in Requests, Prefill(r)
      PROVE  EngineTypeOK' /\ \A q \in Requests : ReqInv(q)'
  BY <1>0, <1>1, <1>5, PrefillKeeps, ZenonT(30)
<1>6. ASSUME NEW r \in Requests, Over(r) \/ Decode(r)
      PROVE  EngineTypeOK' /\ \A q \in Requests : ReqInv(q)'
  BY <1>0, <1>1, <1>6, LoopKeeps, ZenonT(30)
<1>7. ASSUME NEW r \in Requests, Sample(r)
      PROVE  EngineTypeOK' /\ \A q \in Requests : ReqInv(q)'
  BY <1>0, <1>1, <1>7, SampleKeeps, ZenonT(30)
<1>8. ASSUME NEW r \in Requests, Finish(r)
      PROVE  EngineTypeOK' /\ \A q \in Requests : ReqInv(q)'
  BY <1>0, <1>1, <1>8, FinishKeeps, ZenonT(30)
<1>9. ASSUME NEW r \in Requests, GoroutineEnds(r)
      PROVE  EngineTypeOK' /\ \A q \in Requests : ReqInv(q)'
  BY <1>0, <1>1, <1>9, EndKeeps, ZenonT(30)
<1>10. CASE Signal \/ Close \/ UNCHANGED engVars
  <2>1. UNCHANGED <<req, gen, out, turn, model, kv>> /\ life' \in {"open", "closing", "freed"}
    BY <1>0, <1>10 DEF Signal, Close, engVars
  <2>2. \A q \in Requests : ReqInv(q)'
    BY ZenonT(30), <2>1, ReqFrame
  <2>3. QED
    BY <1>0, <2>1, <2>2 DEF EngineTypeOK
<1>11. CASE EngineDies
  BY <1>11, DiesKeeps
<1>12. QED
  BY <1>2, <1>3, <1>4, <1>5, <1>6, <1>7, <1>8, <1>9, <1>10, <1>11, ZenonT(30)
  DEF EngineNext, Handles, Generates

\* The engine keeps its invariant: the model's mutex is held by the one
\* goroutine that runs, and for each request what its handler has read, what
\* is in the channel and what was counted add up.
THEOREM EngineInvariant == EngineSpec => []EngIInv
<1>1. EngIInv /\ [EngineNext]_engVars => EngIInv'
  <2> SUFFICES ASSUME EngIInv, [EngineNext]_engVars PROVE EngIInv'
    OBVIOUS
  <2>1. EngineTypeOK /\ MutexHeld /\ \A r \in Requests : ReqInv(r)
    BY DEF EngIInv
  <2>2. MutexHeld'
    BY <2>1, EngMutex DEF ReqInv
  <2>3. EngineTypeOK' /\ \A r \in Requests : ReqInv(r)'
    BY <2>1, StepKeeps
  <2>4. QED
    BY <2>2, <2>3 DEF EngIInv
<1>2. QED
  BY <1>1, EngInitIInv, PTL DEF EngineSpec

\* One llama_context never decodes for two requests, and is never freed under
\* a generation, however early its handler returned (llamaModel.mu is the
\* goroutine's to release, and Close takes it).
THEOREM EngineContextOwned == EngineSpec => []ContextOwned
<1>1. EngIInv => ContextOwned
  BY ZenonT(30) DEF EngIInv, EngineTypeOK, MutexHeld, ContextOwned
<1>2. QED
  BY <1>1, EngineInvariant, PTL

\* An answer that ends as a complete one has all text that was sent and bills
\* what was generated, unless it is a stream whose generation failed.
THEOREM EngineAnswersTrue == EngineSpec => []AnswersTrue
<1>1. EngIInv => AnswersTrue
  BY ZenonT(30) DEF EngIInv, ReqInv, AnswersTrue
<1>2. QED
  BY <1>1, EngineInvariant, PTL

HIDE EngineAssumption

-----------------------------------------------------------------------------
(* The two together. *)

\* What the engine process does to its deployment, and serving requests does
\* not change it: run, downloadModel and the client see nothing else.
THEOREM ProviderIsNative == ProviderSpec => NativeSpec
<1>1. ProviderInit => NativeInit
  BY DEF ProviderInit
<1>2. [ProviderNext]_provVars => [NativeNext]_natVars
  <2> SUFFICES ASSUME [ProviderNext]_provVars PROVE [NativeNext]_natVars
    OBVIOUS
  <2>1. CASE \/ Deploys(Start \/ Stop \/ Receive \/ Forgotten \/ Runs)
             \/ Deploys(Fetch \/ Progress \/ Copied \/ DownloadFails)
             \/ Rivals \/ Deploys(Listen \/ Load \/ Exit \/ Kill \/ Crash)
    BY <2>1 DEF Deploys, Rivals, NativeNext
  <2>2. CASE \/ \E r \in Requests :
                  Arrives(r) \/ Serves(Prepare(r) \/ Handles(r) \/ Client(r) \/ Generates(r))
             \/ Serves(Signal \/ Close)
    BY <2>2 DEF Arrives, Serves
  <2>3. CASE UNCHANGED provVars
    BY <2>3 DEF provVars
  <2>4. QED
    BY <2>1, <2>2, <2>3 DEF ProviderNext
<1>3. QED
  BY <1>1, <1>2, PTL DEF ProviderSpec, NativeSpec

\* What the deployment does to the engine is nothing, or its end.
THEOREM ProviderIsEngine == ProviderSpec => EngineSpec
<1>1. ProviderInit => EngineInit
  BY DEF ProviderInit
<1>2. [ProviderNext]_provVars => [EngineNext]_engVars
  <2> SUFFICES ASSUME [ProviderNext]_provVars PROVE [EngineNext]_engVars
    OBVIOUS
  <2>1. CASE \/ Deploys(Start \/ Stop \/ Receive \/ Forgotten \/ Runs)
             \/ Deploys(Fetch \/ Progress \/ Copied \/ DownloadFails)
             \/ Rivals \/ Deploys(Listen \/ Load \/ Exit \/ Kill \/ Crash)
    BY <2>1 DEF Deploys, Rivals, EngineNext
  <2>2. CASE \/ \E r \in Requests :
                  Arrives(r) \/ Serves(Prepare(r) \/ Handles(r) \/ Client(r) \/ Generates(r))
             \/ Serves(Signal \/ Close)
    BY <2>2 DEF Arrives, Serves, EngineNext
  <2>3. CASE UNCHANGED provVars
    BY <2>3 DEF provVars
  <2>4. QED
    BY <2>1, <2>2, <2>3 DEF ProviderNext
<1>3. QED
  BY <1>1, <1>2, PTL DEF ProviderSpec, EngineSpec

\* The values stay in range: the updates channel within its buffer, the
\* tokens within the limit, each request in one place.
THEOREM ProviderTypes == ProviderSpec => []ProviderTypeOK
<1>1. NatIInv /\ EngIInv => ProviderTypeOK
  BY DEF NatIInv, EngIInv, ProviderTypeOK
<1>2. QED
  BY <1>1, ProviderIsNative, ProviderIsEngine, NativeInvariant, EngineInvariant, PTL

\* The engine a deployment runs serves the weights it is pinned to, unless
\* another deployment has replaced the file between the check and the load.
THEOREM ProviderWeightsAsPinned == ProviderSpec => []WeightsAsPinned
BY ProviderIsNative, NativeWeightsAsPinned, PTL

\* No engine outlives the deployment it was started for.
THEOREM ProviderNoEngineLeft == ProviderSpec => []NoEngineLeft
BY ProviderIsNative, NativeNoEngineLeft, PTL

\* The updates a deployment sends follow the order the coordinator relies on.
THEOREM ProviderImplementsDepStream == ProviderSpec => ImplementsDepStream
BY ProviderIsNative, NativeImplementsDepStream, PTL

\* The model is one generation's at a time, across kills and restarts of its
\* process.
THEOREM ProviderContextOwned == ProviderSpec => []ContextOwned
BY ProviderIsEngine, EngineContextOwned, PTL

\* A complete answer is complete and bills what was generated, across kills
\* and restarts of the process.
THEOREM ProviderAnswersTrue == ProviderSpec => []AnswersTrue
BY ProviderIsEngine, EngineAnswersTrue, PTL
=============================================================================
