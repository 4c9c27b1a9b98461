----------------------------- MODULE JobsProofs -----------------------------
(***************************************************************************)
(* How old the entry of a job can get before its agent is heard of, the    *)
(* inductive invariant of the job scheduler, and the theorems it gives.    *)
(***************************************************************************)
EXTENDS JobsTraceProofs

(* How long ago something was heard of a job. *)

AgeAtMost(j, k) == job[j] = None \/ job[j].age <= k

\* Ticks since the frame was sent.
Delay(f) == IF f.late THEN 1 ELSE 0

\* The entry of a job that is being sent, or that is on its way, is as old as
\* the send or the frame at most.
SendFresh(j) == via[j] # None => AgeAtMost(j, 0)

\* A RunJob command still on its stream is for a job no older than the command.
RunFresh(j) ==
  \A s \in Streams : \A i \in DOMAIN down[s] :
    IsRun(down[s][i], j) => AgeAtMost(j, Delay(down[s][i]))

\* Job j was there after its agent had queued what is at i on stream s.
Since(j, s, i) ==
  \/ run[owner[s]][j] = "live"
  \/ \E k \in DOMAIN up[s] : k > i /\ IsUpdate(up[s][k], j)
  \/ session[owner[s]] \notin {None, s} /\ UpdateFrame(j, session[owner[s]])

\* A heartbeat that does not list a job that was there later was queued before
\* the agent read the job: the entry is as old as the two frames at most.
BeatFresh(j) ==
  \A s \in Streams : \A i \in DOMAIN up[s] :
    up[s][i].kind = "beat" /\ j \notin up[s][i].active /\ Since(j, s, i) =>
      AgeAtMost(j, 1 + Delay(up[s][i]))

\* How old the entry of job j can be, by where its command or its beats are.
Ages(j) == SendFresh(j) /\ RunFresh(j) /\ BeatFresh(j)

\* An entry that has not aged keeps any bound on its age.
LEMMA YoungerEntry ==
  ASSUME SchedOK, NEW j \in JobIds, NoOlder(j), NEW k \in Nat, NEW m \in Nat, k <= m, AgeAtMost(j, k)
  PROVE  job'[j] = None \/ job'[j].age <= m
<1>1. job[j] # None => job[j].age \in Nat
  BY JobFields, JobsAssumption DEF SchedOK
<1>2. QED
  BY <1>1 DEF NoOlder, AgeAtMost

\* Being read late does not make a frame look younger, and changes nothing else
\* that it says.
LEMMA SameDelay ==
  /\ \A g \in UpFrame : \A f : Same(f, g) => Delay(g) <= Delay(f)
  /\ \A g \in UpFrame : \A f : Same(f, g) /\ f.kind = "beat" =>
       g.kind = "beat" /\ f.active = g.active
  /\ \A g \in DownFrame : \A f : Same(f, g) => Delay(g) <= Delay(f)
  /\ \A f : Delay(f) \in {0, 1}
<1>1. \A f : Delay(f) \in {0, 1}
  BY DEF Delay
<1>2. ASSUME NEW g \in UpFrame, NEW f, Same(f, g) PROVE Delay(g) <= Delay(f)
  <2>1. CASE f = g
    BY <1>1, <2>1
  <2>2. CASE f = [g EXCEPT !.late = TRUE]
    <3>1. Delay(f) = 1
      BY <2>2, LateUp DEF Delay
    <3>2. QED
      BY <1>1, <3>1
  <2>3. QED
    BY <1>2, <2>1, <2>2 DEF Same
<1>3. ASSUME NEW g \in UpFrame, NEW f, Same(f, g), f.kind = "beat"
      PROVE  g.kind = "beat" /\ f.active = g.active
  BY ZenonT(30), <1>3, LateUp DEF Same
<1>4. ASSUME NEW g \in DownFrame, NEW f, Same(f, g) PROVE Delay(g) <= Delay(f)
  <2>1. CASE f = g
    BY <1>1, <2>1
  <2>2. CASE f = [g EXCEPT !.late = TRUE]
    <3>1. Delay(f) = 1
      BY <2>2, LateDown DEF Delay
    <3>2. QED
      BY <1>1, <3>1
  <2>3. QED
    BY <1>4, <2>1, <2>2 DEF Same
<1>5. QED
  BY <1>1, <1>2, <1>3, <1>4

\* The three bounds outlive a step that brings nothing new about the job.
LEMMA SendFreshKept ==
  ASSUME NEW j, Calm(j), NoOlder(j), SendFresh(j)
  PROVE  SendFresh(j)'
BY DEF Calm, NoOlder, SendFresh, AgeAtMost

LEMMA RunFreshKept ==
  ASSUME TypesOK, TypesOK', NEW j \in JobIds, DownKept(j), NoOlder(j), RunFresh(j)
  PROVE  RunFresh(j)'
<1> SUFFICES ASSUME NEW s \in Streams, NEW i \in DOMAIN down'[s], IsRun(down'[s][i], j)
             PROVE  AgeAtMost(j, Delay(down[s][i]))'
  BY DEF RunFresh, Delay, AgeAtMost
<1>0. FramesOK /\ SchedOK
  BY DEF TypesOK
<1>1. PICK d \in Nat :
        /\ i + d \in DOMAIN down[s] /\ IsRun(down[s][i + d], j)
        /\ Same(down'[s][i], down[s][i + d])
  BY <1>0, KeptSays
<1>2. down[s][i + d] \in DownFrame
  BY <1>0, <1>1, ElementOfSeq, LenProperties DEF FramesOK, ChanTypeOK
<1>3. AgeAtMost(j, Delay(down[s][i + d]))
  BY <1>1 DEF RunFresh
<1>4. Delay(down[s][i + d]) <= Delay(down'[s][i])
  BY <1>1, <1>2, SameDelay
<1>5. Delay(down[s][i + d]) \in Nat /\ Delay(down'[s][i]) \in Nat
  BY SameDelay
<1>6. job'[j] = None \/ job'[j].age <= Delay(down'[s][i])
  BY <1>0, <1>3, <1>4, <1>5, YoungerEntry
<1>7. QED
  BY <1>6 DEF AgeAtMost, Delay

\* Nothing that is left came later than before.
LEMMA SinceKept ==
  ASSUME TypesOK, TypesOK', RegTypeOK, NEW j \in JobIds, Calm(j), UpKept(j, {}), DownKept(j),
         NEW s \in Streams, up'[s] # <<>>, owner[s] \in Nodes, NEW i, NEW d \in Nat,
         \A k \in DOMAIN up'[s] : k > i /\ IsUpdate(up'[s][k], j) =>
           k + d > i + d /\ k + d \in DOMAIN up[s] /\ IsUpdate(up[s][k + d], j),
         \/ run'[owner'[s]][j] = "live"
         \/ \E k \in DOMAIN up'[s] : k > i /\ IsUpdate(up'[s][k], j)
         \/ session'[owner'[s]] \notin {None, s} /\ UpdateFrame(j, session[owner[s]])'
  PROVE  Since(j, s, i + d)
<1>1. owner'[s] = owner[s]
  BY DEF Calm
<1>2. CASE run'[owner[s]][j] = "live"
  BY <1>2 DEF Calm, Since
<1>3. CASE \E k \in DOMAIN up'[s] : k > i /\ IsUpdate(up'[s][k], j)
  BY <1>3 DEF Since
<1>4. CASE session'[owner[s]] \notin {None, s} /\ UpdateFrame(j, session[owner[s]])'
  <2>1. UpdateFrame(j, session[owner[s]])' <=>
          \E k \in DOMAIN up'[session'[owner[s]]] : IsUpdate(up'[session'[owner[s]]][k], j)
    BY <1>1 DEF UpdateFrame
  <2>2. \A n \in Nodes :
          session'[n] # None /\ (\E k \in DOMAIN up'[session'[n]] : IsUpdate(up'[session'[n]][k], j)) =>
            session'[n] = session[n] /\ UpdateFrame(j, session[n])
    BY ZenonT(30), CalmLeaves DEF UpdateFrame
  <2>3. QED
    BY ZenonT(30), <1>4, <2>1, <2>2 DEF Since
<1>5. QED
  BY <1>1, <1>2, <1>3, <1>4

\* A stream on which something waits is handled for a node.
LEMMA WaitingOwned ==
  ASSUME RegIInv, StreamsOwned, NEW s \in Streams, up[s] # <<>>
  PROVE  owner[s] \in Nodes
BY OwnerNode DEF StreamsOwned

LEMMA BeatFreshKept ==
  ASSUME RegIInv, TypesOK, TypesOK', StreamsOwned, NEW j \in JobIds, Calm(j), UpKept(j, {}),
         UpKept(j, {"beat"}), DownKept(j), NoOlder(j), BeatFresh(j)
  PROVE  BeatFresh(j)'
<1>0. FramesOK /\ SchedOK /\ RegTypeOK
  BY DEF TypesOK, RegIInv
<1>1. ASSUME NEW s \in Streams, NEW i \in DOMAIN up'[s], up'[s][i].kind = "beat",
             j \notin up'[s][i].active,
             \/ run'[owner'[s]][j] = "live"
             \/ \E k \in DOMAIN up'[s] : k > i /\ IsUpdate(up'[s][k], j)
             \/ session'[owner'[s]] \notin {None, s} /\ UpdateFrame(j, session[owner[s]])'
      PROVE  job'[j] = None \/ job'[j].age <= 1 + Delay(up'[s][i])
  <2>1. PICK d \in Nat :
          /\ \A k \in DOMAIN up'[s] : k \in Nat
          /\ \A k \in DOMAIN up'[s] : IsUpdate(up'[s][k], j) =>
               k + d \in DOMAIN up[s] /\ IsUpdate(up[s][k + d], j)
          /\ \A k \in DOMAIN up'[s] : up'[s][k].kind \in {"beat"} =>
               k + d \in DOMAIN up[s] /\ Same(up'[s][k], up[s][k + d])
    BY <1>0, KeptSays
  <2>2. i + d \in DOMAIN up[s] /\ Same(up'[s][i], up[s][i + d])
    BY <1>1, <2>1
  <2>3. up[s] # <<>> /\ up'[s] # <<>>
    BY <1>1, <2>2
  <2>4. owner[s] \in Nodes
    BY <2>3, WaitingOwned
  <2>5. \A k \in DOMAIN up'[s] : k > i => k + d > i + d
    BY <1>1, <2>1
  <2>6. Since(j, s, i + d)
    BY <1>0, <1>1, <2>1, <2>3, <2>4, <2>5, SinceKept
  <2>7. up[s][i + d] \in UpFrame
    BY <1>0, <2>2, ElementOfSeq, LenProperties DEF FramesOK, ChanTypeOK
  <2>8. /\ up[s][i + d].kind = "beat" /\ j \notin up[s][i + d].active
        /\ Delay(up[s][i + d]) <= Delay(up'[s][i])
    BY <1>1, <2>2, <2>7, SameDelay
  <2>9. AgeAtMost(j, 1 + Delay(up[s][i + d]))
    BY <2>2, <2>6, <2>8 DEF BeatFresh
  <2>10. Delay(up[s][i + d]) \in {0, 1} /\ Delay(up'[s][i]) \in {0, 1}
    BY SameDelay
  <2>11. /\ 1 + Delay(up[s][i + d]) \in Nat /\ 1 + Delay(up'[s][i]) \in Nat
         /\ 1 + Delay(up[s][i + d]) <= 1 + Delay(up'[s][i])
    BY <2>8, <2>10
  <2>12. QED
    BY <1>0, <2>9, <2>11, YoungerEntry
<1>2. QED
  BY <1>1 DEF BeatFresh, Since, AgeAtMost, Delay

LEMMA SameAt ==
  ASSUME NEW S, NEW q \in Seq(S) PROVE (\A k \in DOMAIN q : k + 0 = k) /\ 0 \in Nat
BY LenProperties

\* A heartbeat that is queued lists what runs.
LEMMA BeatAges ==
  ASSUME RegIInv, TypesOK, TypesOK', StreamsOwned, NEW j \in JobIds, Calm(j), UpKept(j, {}),
         DownKept(j), Ages(j), NEW n \in Nodes, Beat(n)
  PROVE  Ages(j)'
<1>0. FramesOK /\ SchedOK /\ RegTypeOK
  BY DEF TypesOK, RegIInv
<1> DEFINE t == session[n]
           f == [kind |-> "beat", active |-> {k \in JobIds : run[n][k] # "none"}, late |-> FALSE]
<1>1. EmitBeat(n, f) /\ UNCHANGED <<via, job, run, owner, session, down>>
  BY DEF Beat, schedVars, hostVars, regVars
<1>2. f.kind = "beat" /\ (j \notin f.active => run[n][j] = "none")
  OBVIOUS
<1> HIDE DEF f
<1>3. CASE up' # up
  <2>1. /\ t \in Streams /\ owner[t] = n /\ Len(up[t]) \in Nat
        /\ DOMAIN up'[t] = DOMAIN up[t] \cup {Len(up[t]) + 1}
        /\ up'[t][Len(up[t]) + 1] = f
        /\ \A i \in DOMAIN up[t] : i \in Nat /\ i < Len(up[t]) + 1 /\ up'[t][i] = up[t][i]
        /\ \A s \in Streams \ {t} : up'[s] = up[s]
    BY <1>0, <1>1, <1>3, EmittedAt
  <2> HIDE DEF t
  <2>2. ASSUME NEW s \in Streams, NEW i \in DOMAIN up'[s], up'[s][i].kind = "beat",
               j \notin up'[s][i].active,
               \/ run'[owner'[s]][j] = "live"
               \/ \E k \in DOMAIN up'[s] : k > i /\ IsUpdate(up'[s][k], j)
               \/ session'[owner'[s]] \notin {None, s} /\ UpdateFrame(j, session[owner[s]])'
        PROVE  job'[j] = None \/ job'[j].age <= 1 + Delay(up'[s][i])
    <3>1. ~IsUpdate(f, j)
      BY <1>2 DEF IsUpdate
    <3>2. \A k \in DOMAIN up'[s] : IsUpdate(up'[s][k], j) => k \in DOMAIN up[s] /\ IsUpdate(up[s][k], j)
      BY <2>1, <3>1
    <3>3. CASE s = t /\ i = Len(up[t]) + 1
      <4>1. run[owner[s]][j] = "none" /\ session[owner[s]] = s
        BY <1>2, <2>1, <2>2, <3>3 DEF t
      <4>2. ~\E k \in DOMAIN up'[s] : k > i /\ IsUpdate(up'[s][k], j)
        BY ZenonT(30), <2>1, <3>2, <3>3, NotAfter
      <4>3. QED
        BY ZenonT(30), <1>1, <2>2, <4>1, <4>2
    <3>4. CASE i \in DOMAIN up[s] /\ up'[s][i] = up[s][i]
      <4>1. up[s] # <<>> /\ up'[s] # <<>>
        BY ZenonT(30), <2>2, <3>4, PlaceTaken
      <4>2. owner[s] \in Nodes
        BY <4>1, WaitingOwned
      <4>3. /\ \A k \in DOMAIN up[s] : k + 0 = k
            /\ i + 0 = i /\ 0 \in Nat
        <5>1. up[s] \in Seq(UpFrame)
          BY ZenonT(30), <1>0 DEF FramesOK, ChanTypeOK
        <5>2. QED
          BY ZenonT(30), <3>4, <5>1, SameAt
      <4>4. Since(j, s, i + 0)
        BY <1>0, <2>2, <3>2, <4>1, <4>2, <4>3, SinceKept
      <4>5. AgeAtMost(j, 1 + Delay(up[s][i]))
        BY <2>2, <3>4, <4>3, <4>4 DEF Ages, BeatFresh
      <4>6. QED
        BY <1>1, <3>4, <4>5 DEF AgeAtMost
    <3>5. QED
      BY SMTT(30), <2>1, <2>2, <3>3, <3>4
  <2>3. BeatFresh(j)'
    BY <2>2 DEF BeatFresh, Since, AgeAtMost, Delay
  <2>4. SendFresh(j)' /\ RunFresh(j)'
    BY <1>1 DEF Ages, SendFresh, RunFresh, AgeAtMost, Delay
  <2>5. QED
    BY <2>3, <2>4 DEF Ages
<1>4. CASE up' = up
  BY <1>1, <1>4 DEF Ages, SendFresh, RunFresh, BeatFresh, Since, UpdateFrame, AgeAtMost, Delay
<1>5. QED
  BY <1>3, <1>4

\* A tick passes only when nothing waits that has seen one already.
LEMMA TickAges ==
  ASSUME RegIInv, TypesOK, TypesOK', StreamsOwned, NEW j \in JobIds, Ages(j), TimePasses
  PROVE  Ages(j)'
<1>0. FramesOK /\ SchedOK
  BY DEF TypesOK
<1>1. /\ Timely /\ UNCHANGED <<via, run, owner, session>>
      /\ \A s \in Streams : up'[s] = Lately(up[s]) /\ down'[s] = Lately(down[s])
      /\ job'[j] = IF job[j] = None THEN None ELSE [job[j] EXCEPT !.age = Older(@, Grace - 1)]
  BY DEF TimePasses, Tick, streamVars, hostVars
<1>2. \A s \in Streams : up[s] \in Seq(UpFrame) /\ down[s] \in Seq(DownFrame)
  BY <1>0 DEF FramesOK, ChanTypeOK
<1>3. /\ \A f \in UpFrame : [f EXCEPT !.late = TRUE] \in UpFrame
      /\ \A f \in DownFrame : [f EXCEPT !.late = TRUE] \in DownFrame
  BY LateUp, LateDown
<1>4. \A s \in Streams :
        /\ DOMAIN up'[s] = DOMAIN up[s]
        /\ \A i \in DOMAIN up[s] : up'[s][i] = [up[s][i] EXCEPT !.late = TRUE] /\ up[s][i] \in UpFrame
  <2>1. ASSUME NEW s \in Streams
        PROVE  /\ DOMAIN Lately(up[s]) = DOMAIN up[s]
               /\ \A i \in DOMAIN up[s] : Lately(up[s])[i] = [up[s][i] EXCEPT !.late = TRUE]
    BY <1>2, <1>3, LatelyType, ZenonT(30)
  <2>2. \A s \in Streams : \A i \in DOMAIN up[s] : up[s][i] \in UpFrame
    BY <1>2, ElementOfSeq, LenProperties
  <2>3. QED
    BY <1>1, <2>1, <2>2, ZenonT(30)
<1>5. \A s \in Streams :
        /\ DOMAIN down'[s] = DOMAIN down[s]
        /\ \A i \in DOMAIN down[s] :
             down'[s][i] = [down[s][i] EXCEPT !.late = TRUE] /\ down[s][i] \in DownFrame
  <2>1. ASSUME NEW s \in Streams
        PROVE  /\ DOMAIN Lately(down[s]) = DOMAIN down[s]
               /\ \A i \in DOMAIN down[s] : Lately(down[s])[i] = [down[s][i] EXCEPT !.late = TRUE]
    BY <1>2, <1>3, LatelyType, ZenonT(30)
  <2>2. \A s \in Streams : \A i \in DOMAIN down[s] : down[s][i] \in DownFrame
    BY <1>2, ElementOfSeq, LenProperties
  <2>3. QED
    BY <1>1, <2>1, <2>2, ZenonT(30)
<1>6. \A s \in Streams : \A i \in DOMAIN up[s] :
        /\ up'[s][i].kind = up[s][i].kind /\ Delay(up'[s][i]) = 1 /\ Delay(up[s][i]) = 0
        /\ up[s][i].kind = "beat" => up'[s][i].active = up[s][i].active
        /\ IsUpdate(up'[s][i], j) <=> IsUpdate(up[s][i], j)
  <2>1. ASSUME NEW s \in Streams, NEW i \in DOMAIN up[s]
        PROVE  /\ up'[s][i].kind = up[s][i].kind /\ up'[s][i].late /\ ~up[s][i].late
               /\ up[s][i].kind = "beat" => up'[s][i].active = up[s][i].active
               /\ IsUpdate(up'[s][i], j) <=> IsUpdate(up[s][i], j)
    <3>1. up'[s][i] = [up[s][i] EXCEPT !.late = TRUE] /\ up[s][i] \in UpFrame
      BY <1>4, <2>1
    <3>2. ~up[s][i].late
      BY <1>1, <2>1 DEF Timely, HasLate
    <3>3. QED
      BY SMTT(30), <3>1, <3>2, LateUp DEF IsUpdate
  <2>2. QED
    BY <2>1 DEF Delay
<1>7. \A s \in Streams : \A i \in DOMAIN down[s] :
        /\ Delay(down'[s][i]) = 1 /\ Delay(down[s][i]) = 0
        /\ IsRun(down'[s][i], j) <=> IsRun(down[s][i], j)
  <2>1. ASSUME NEW s \in Streams, NEW i \in DOMAIN down[s] PROVE ~down[s][i].late
    <3>1. down[s] # <<>>
      BY <2>1
    <3>2. PICK n \in Nodes : session[n] = s
      BY <3>1 DEF StreamsOwned
    <3>3. QED
      BY <1>1, <2>1, <3>2, RegistryAssumption DEF Timely, HasLate
  <2>2. ASSUME NEW s \in Streams, NEW i \in DOMAIN down[s]
        PROVE  down'[s][i].late /\ (IsRun(down'[s][i], j) <=> IsRun(down[s][i], j))
    <3>1. down'[s][i] = [down[s][i] EXCEPT !.late = TRUE] /\ down[s][i] \in DownFrame
      BY <1>5, <2>2
    <3>2. /\ down'[s][i].kind = down[s][i].kind /\ down'[s][i].late
          /\ down[s][i].kind = "run" => down'[s][i].job = down[s][i].job
      BY <3>1, LateDown, ZenonT(30)
    <3>3. QED
      BY <3>2, ZenonT(30) DEF IsRun
  <2>3. QED
    BY <2>1, <2>2 DEF Delay
<1>8. \A k \in Nat : AgeAtMost(j, k) => job'[j] = None \/ job'[j].age <= k + 1
  <2>1. ASSUME job[j] # None PROVE job[j].age \in Nat /\ job'[j].age \in Int /\ job'[j].age <= job[j].age + 1
    <3>1. job[j] \in Job
      BY <1>0, <2>1 DEF SchedOK
    <3>2. job'[j] \in Job /\ job'[j].age <= job[j].age + 1
      BY <1>1, <2>1, <3>1, OlderEntry
    <3>3. QED
      BY <3>1, <3>2, JobsAssumption DEF Job
  <2>2. QED
    BY <1>1, <2>1 DEF AgeAtMost
<1>9. SendFresh(j)'
  BY <1>1 DEF Timely, SendFresh
<1>10. RunFresh(j)'
  <2>1. ASSUME NEW s \in Streams, NEW i \in DOMAIN down'[s], IsRun(down'[s][i], j)
        PROVE  job'[j] = None \/ job'[j].age <= Delay(down'[s][i])
    <3>1. i \in DOMAIN down[s] /\ IsRun(down[s][i], j) /\ Delay(down[s][i]) = 0 /\ Delay(down'[s][i]) = 1
      BY <1>5, <1>7, <2>1
    <3>2. AgeAtMost(j, 0)
      BY <3>1 DEF Ages, RunFresh
    <3>3. 0 \in Nat /\ 0 + 1 = 1
      OBVIOUS
    <3>4. QED
      BY <1>8, <3>1, <3>2, <3>3
  <2>2. QED
    BY <2>1 DEF RunFresh, AgeAtMost, Delay
<1>11. BeatFresh(j)'
  <2>1. ASSUME NEW s \in Streams, NEW i \in DOMAIN up'[s], up'[s][i].kind = "beat",
               j \notin up'[s][i].active,
               \/ run'[owner'[s]][j] = "live"
               \/ \E k \in DOMAIN up'[s] : k > i /\ IsUpdate(up'[s][k], j)
               \/ session'[owner'[s]] \notin {None, s} /\ UpdateFrame(j, session[owner[s]])'
        PROVE  job'[j] = None \/ job'[j].age <= 1 + Delay(up'[s][i])
    <3>1. /\ i \in DOMAIN up[s] /\ up[s][i].kind = "beat" /\ j \notin up[s][i].active
          /\ Delay(up[s][i]) = 0 /\ Delay(up'[s][i]) = 1
      BY <1>4, <1>6, <2>1
    <3>2. owner[s] \in Nodes
      BY <3>1, WaitingOwned
    <3>3. UpdateFrame(j, session[owner[s]])' /\ session[owner[s]] # None =>
            UpdateFrame(j, session[owner[s]])
      <4>1. session[owner[s]] \in Streams \cup {None}
        BY <1>0, <3>2 DEF FramesOK, ChanTypeOK
      <4>2. QED
        BY <1>1, <1>4, <1>6, <4>1 DEF UpdateFrame
    <3>4. (\E k \in DOMAIN up'[s] : k > i /\ IsUpdate(up'[s][k], j)) =>
            \E k \in DOMAIN up[s] : k > i /\ IsUpdate(up[s][k], j)
      BY <1>4, <1>6
    <3>5. Since(j, s, i)
      BY <1>1, <2>1, <3>3, <3>4 DEF Since
    <3>6. AgeAtMost(j, 1 + 0)
      BY <3>1, <3>5 DEF Ages, BeatFresh
    <3>7. 1 + 0 \in Nat /\ (1 + 0) + 1 = 1 + 1
      OBVIOUS
    <3>8. QED
      BY <1>8, <3>1, <3>6, <3>7
  <2>2. QED
    BY <2>1 DEF BeatFresh, Since, AgeAtMost, Delay
<1>12. QED
  BY <1>9, <1>10, <1>11 DEF Ages

\* A job without a trace has no heartbeat or frame to compare it with.
LEMMA UntracedBeats ==
  ASSUME RegIInv', StreamsOwned', FramesOK', NEW j \in JobIds, Untraced(j)'
  PROVE  RunFresh(j)' /\ BeatFresh(j)'
<1>1. /\ \A s \in Streams : ~\E i \in DOMAIN down'[s] : IsRun(down'[s][i], j)
      /\ \A s \in Streams : ~\E i \in DOMAIN up'[s] : IsUpdate(up'[s][i], j)
      /\ \A n \in Nodes : run'[n][j] = "none"
  BY DEF Untraced, RunFrame, UpdateFrame
<1>2. RunFresh(j)'
  BY <1>1 DEF RunFresh
<1>3. ASSUME NEW s \in Streams, NEW i \in DOMAIN up'[s] PROVE ~Since(j, s, i)'
  <2>1. owner'[s] \in Nodes
    <3>1. up'[s] # <<>>
      BY <1>3
    <3>2. handler'[s] # "none"
      BY <3>1 DEF StreamsOwned
    <3>3. QED
      BY <3>2 DEF RegIInv, RegTypeOK, RunningRegistered
  <2>2. session'[owner'[s]] \in Streams \cup {None}
    BY <2>1 DEF FramesOK, ChanTypeOK
  <2>3. QED
    BY <1>1, <2>1, <2>2 DEF Since, UpdateFrame
<1>4. BeatFresh(j)'
  BY <1>3 DEF BeatFresh
<1>5. QED
  BY <1>2, <1>4

\* The bounds after RunJob has stored a new job and sent its command: its entry
\* has age 0.
LEMMA DispatchedAges ==
  ASSUME RegIInv, RegIInv', TypesOK, TypesOK', StreamsOwned, StreamsOwned', NEW j \in JobIds,
         Trace(j), Ages(j), Dispatched(j)
  PROVE  Ages(j)'
<1>0. /\ FramesOK /\ FramesOK' /\ SchedOK
      /\ session \in [Nodes -> Streams \cup {None}] /\ down \in [Streams -> Seq(DownFrame)]
  BY DEF TypesOK, FramesOK, ChanTypeOK
<1>1. ASSUME NEW n \in Nodes, RunJob(j, n) PROVE Ages(j)'
  <2>1. Untraced(j)
    BY <1>1 DEF RunJob, Trace, UnmintedNowhere
  <2>2. UNCHANGED <<up, down, run>>
    BY <1>1 DEF RunJob, chanVars, hostVars
  <2>3. Untraced(j)'
    BY <2>1, <2>2 DEF Untraced, RunFrame, UpdateFrame
  <2>4. job'[j].age = 0
    BY <1>0, <1>1 DEF RunJob, SchedOK
  <2>5. SendFresh(j)'
    BY <2>4 DEF SendFresh, AgeAtMost
  <2>6. QED
    BY <1>0, <2>3, <2>5, UntracedBeats DEF Ages
<1>2. ASSUME SendJob(j, TRUE) PROVE Ages(j)'
  <2> DEFINE t == via[j]
             f == [kind |-> "run", job |-> j, late |-> FALSE]
  <2>1. Untraced(j) /\ t \in Streams /\ t # None /\ AgeAtMost(j, 0)
    BY ZenonT(30), <1>0, <1>2 DEF SendJob, Trace, SendsFirst, SchedOK, Ages, SendFresh
  <2>2. /\ via'[j] = None /\ job' = job /\ UNCHANGED <<up, run, owner, session>>
        /\ down' = IF Heard(t) THEN [down EXCEPT ![t] = Append(@, f)] ELSE down
    BY <1>0, <1>2 DEF SendJob, Put, hostVars, regVars, SchedOK
  <2>3. Delay(f) = 0
    BY DEF Delay
  <2> HIDE DEF t, f
  <2>4. SendFresh(j)'
    BY <2>2 DEF SendFresh
  <2>5. RunFresh(j)'
    <3>1. \A s \in Streams : \A i \in DOMAIN down'[s] : IsRun(down'[s][i], j) => Delay(down'[s][i]) = 0
      <4>1. \A s \in Streams : ~\E i \in DOMAIN down[s] : IsRun(down[s][i], j)
        BY <2>1 DEF Untraced, RunFrame
      <4>2. CASE ~Heard(t)
        BY <2>2, <4>1, <4>2
      <4>3. CASE Heard(t)
        <5>1. down'[t] = Append(down[t], f) /\ \A s \in Streams \ {t} : down'[s] = down[s]
          BY <1>0, <2>1, <2>2, <4>3
        <5>2. down[t] \in Seq(DownFrame)
          BY <1>0, <2>1
        <5>3. /\ DOMAIN Append(down[t], f) = DOMAIN down[t] \cup {Len(down[t]) + 1}
              /\ Append(down[t], f)[Len(down[t]) + 1] = f
              /\ \A i \in DOMAIN down[t] : Append(down[t], f)[i] = down[t][i]
          BY SMTT(30), <5>2, AppendAt
        <5>4. QED
          BY <2>1, <2>3, <4>1, <5>1, <5>3
      <4>4. QED
        BY <4>2, <4>3
    <3>2. job'[j] = None \/ job'[j].age <= 0
      BY ZenonT(30), <2>1, <2>2 DEF AgeAtMost
    <3>3. QED
      BY <3>1, <3>2 DEF RunFresh, AgeAtMost, Delay
  <2>6. BeatFresh(j)'
    <3>1. ASSUME NEW s \in Streams, NEW i \in DOMAIN up[s] PROVE ~Since(j, s, i)
      <4>1. owner[s] \in Nodes
        BY SMTT(30), <3>1, WaitingOwned
      <4>2. session[owner[s]] \in Streams \cup {None}
        BY <1>0, <4>1
      <4>3. QED
        BY <2>1, <4>1, <4>2 DEF Since, Untraced, UpdateFrame
    <3>2. QED
      BY ZenonT(30), <2>2, <3>1 DEF BeatFresh, Since, UpdateFrame
  <2>7. QED
    BY <2>4, <2>5, <2>6 DEF Ages
<1>3. QED
  BY ZenonT(30), <1>1, <1>2 DEF Dispatched

\* The bounds after the agent has started the job.
LEMMA TakenAges ==
  ASSUME TypesOK, AckedOnce, NEW j \in JobIds, Trace(j), Ages(j), Taken(j)
  PROVE  Ages(j)'
<1>1. PICK n \in Nodes : StartJob(n) /\ NextFrame(n).job = j
  BY DEF Taken
<1>2. /\ session[n] \in Streams /\ 1 \in DOMAIN down[session[n]]
      /\ IsRun(down[session[n]][1], j) /\ via[j] = None
      /\ \A s \in Streams : ~\E i \in DOMAIN down'[s] : IsRun(down'[s][i], j)
  BY ZenonT(30), <1>1, BeforeTaken
<1>3. via' = via /\ job' = job
  BY <1>1 DEF StartJob, schedVars
<1>4. SendFresh(j)' /\ RunFresh(j)'
  BY ZenonT(30), <1>2, <1>3 DEF SendFresh, RunFresh
<1>5. job[j] = None \/ job[j].age <= Delay(down[session[n]][1])
  BY <1>2 DEF Ages, RunFresh, AgeAtMost
<1>6. job[j] # None => job[j].age \in Nat
  BY JobFields, JobsAssumption DEF TypesOK, SchedOK
<1>7. \A f : job'[j] = None \/ job'[j].age <= 1 + Delay(f)
  <2>1. Delay(down[session[n]][1]) \in {0, 1} /\ \A f : Delay(f) \in {0, 1}
    BY SameDelay
  <2>2. QED
    BY <1>3, <1>5, <1>6, <2>1
<1>8. BeatFresh(j)'
  BY <1>7 DEF BeatFresh, AgeAtMost, Delay
<1>9. QED
  BY <1>4, <1>8 DEF Ages

\* The bounds after the agent has sent an update.
LEMMA ReportedAges ==
  ASSUME RegIInv, TypesOK, TypesOK', StreamsOwned, NEW j \in JobIds, Ages(j), Reported(j)
  PROVE  Ages(j)'
<1>0. FramesOK /\ HostsOK
  BY DEF TypesOK
<1>1. PICK n \in Nodes : \/ \E state \in LiveKinds : Report(n, j, state)
                         \/ \E state \in Outcomes : Finish(n, j, state)
  BY DEF Reported
<1>2. PICK state : Report(n, j, state) \/ Finish(n, j, state)
  BY <1>1
<1> DEFINE t == session[n]
           f == JobUpdate(j, state)
<1>3. /\ run[n][j] = "live" /\ Emit(n, f)
      /\ UNCHANGED <<via, job, owner, session, down>>
      /\ run' = run \/ run' = [run EXCEPT ![n][j] = "over"]
  BY <1>2 DEF Report, Finish, regVars, schedVars, hostVars
<1>4. f.kind = "update"
  BY DEF JobUpdate
<1> HIDE DEF f
<1>5. \A m \in Nodes : run'[m][j] = "live" => run[m][j] = "live"
  BY <1>0, <1>3 DEF HostsOK
<1>6. SendFresh(j)' /\ RunFresh(j)'
  BY <1>3 DEF Ages, SendFresh, RunFresh, AgeAtMost, Delay
<1>7. ASSUME NEW s \in Streams, NEW i \in DOMAIN up'[s], up'[s][i].kind = "beat",
             j \notin up'[s][i].active,
             \/ run'[owner'[s]][j] = "live"
             \/ \E k \in DOMAIN up'[s] : k > i /\ IsUpdate(up'[s][k], j)
             \/ session'[owner'[s]] \notin {None, s} /\ UpdateFrame(j, session[owner[s]])'
      PROVE  job'[j] = None \/ job'[j].age <= 1 + Delay(up'[s][i])
  <2>1. i \in DOMAIN up[s] /\ up'[s][i] = up[s][i]
    <3>1. CASE up' = up
      BY ZenonT(30), <1>7, <3>1
    <3>2. CASE up' # up
      <4>1. /\ DOMAIN up'[t] = DOMAIN up[t] \cup {Len(up[t]) + 1}
            /\ up'[t][Len(up[t]) + 1] = f
            /\ \A k \in DOMAIN up[t] : up'[t][k] = up[t][k]
            /\ \A u \in Streams \ {t} : up'[u] = up[u]
        BY ZenonT(90), <1>0, <1>3, <3>2, EmittedAt
      <4>2. QED
        BY <1>4, <1>7, <4>1
    <3>3. QED
      BY <3>1, <3>2
  <2>2. owner[s] \in Nodes
    BY ZenonT(30), <2>1, PlaceTaken, WaitingOwned
  <2>3. Since(j, s, i)
    <3>1. CASE run'[owner'[s]][j] = "live"
      BY <1>3, <1>5, <2>2, <3>1 DEF Since
    <3>2. CASE up' = up
      BY <1>3, <1>5, <1>7, <2>2, <3>2 DEF Since, UpdateFrame
    <3>3. CASE up' # up
      <4>1. /\ t \in Streams /\ owner[t] = n /\ link[t]
            /\ DOMAIN up'[t] = DOMAIN up[t] \cup {Len(up[t]) + 1}
            /\ \A k \in DOMAIN up[t] : up'[t][k] = up[t][k]
            /\ \A u \in Streams \ {t} : up'[u] = up[u]
        BY ZenonT(30), <1>0, <1>3, <3>3, EmittedAt
      <4>2. CASE s = t
        BY <1>3, <4>1, <4>2 DEF Since
      <4>3. CASE s # t
        <5>1. up'[s] = up[s]
          BY <4>1, <4>3
        <5>2. CASE session[owner[s]] = t
          <6>1. owner[s] = n
            BY <2>2, <4>1, <5>2, ReaderOwns
          <6>2. QED
            BY <1>3, <6>1 DEF Since
        <5>3. CASE session[owner[s]] # t
          <6>1. session[owner[s]] \in Streams \cup {None}
            BY <1>0, <2>2 DEF FramesOK, ChanTypeOK
          <6>2. QED
            BY ZenonT(60), <1>3, <1>5, <1>7, <2>2, <4>1, <5>1, <5>3, <6>1 DEF Since, UpdateFrame
        <5>4. QED
          BY <5>2, <5>3
      <4>4. QED
        BY <4>2, <4>3
    <3>4. QED
      BY <3>2, <3>3
  <2>4. AgeAtMost(j, 1 + Delay(up[s][i]))
    BY ZenonT(30), <1>7, <2>1, <2>3 DEF Ages, BeatFresh
  <2>5. QED
    BY <1>3, <2>1, <2>4 DEF AgeAtMost
<1>8. BeatFresh(j)'
  BY ZenonT(30), <1>7 DEF BeatFresh, Since, AgeAtMost, Delay
<1>9. QED
  BY <1>6, <1>8 DEF Ages

\* Every step keeps the bounds.
LEMMA AgesStep ==
  ASSUME RegIInv, RegIInv', TypesOK, TypesOK', StreamsOwned, StreamsOwned', AckedOnce,
         NEW j \in JobIds, Trace(j), Ages(j), [JobNext]_jobVars
  PROVE  Ages(j)'
<1>1. CASE Undisturbed(j)
  <2>1. Calm(j) /\ UpKept(j, {}) /\ DownKept(j)
    BY <1>1 DEF Undisturbed
  <2>2. CASE UpKept(j, {"beat"}) /\ NoOlder(j)
    BY <2>1, <2>2, SendFreshKept, RunFreshKept, BeatFreshKept DEF Ages
  <2>3. QED
    BY <1>1, <2>1, <2>2, TickAges, BeatAges DEF Undisturbed
<1>2. QED
  BY <1>1, JobStepCalm, DispatchedAges, TakenAges, ReportedAges

-----------------------------------------------------------------------------
(* The invariant. *)

JobsIInv ==
  /\ RegIInv /\ TypesOK /\ OffAlone /\ StreamsOwned /\ AckedOnce
  /\ \A j \in JobIds : Trace(j) /\ Ages(j)
  /\ lost \subseteq minted

\* The initial states satisfy the invariant.
LEMMA JobsInit == JobInit => JobsIInv
<1> SUFFICES ASSUME JobInit PROVE JobsIInv
  OBVIOUS
<1>1. RegIInv
  BY InitIInv DEF JobInit
<1>2. FramesOK
  BY ChanInitOK DEF JobInit, FramesOK
<1>3. SchedOK /\ lost \subseteq minted
  BY DEF JobInit, SchedOK
<1>4. HostsOK
  BY JobsAssumption DEF JobInit, HostsOK
<1>5. /\ \A n \in Nodes : agent[n] = "off" /\ session[n] = None
      /\ \A s \in Streams : up[s] = <<>> /\ down[s] = <<>> /\ ~link[s]
      /\ \A n \in Nodes : \A j \in JobIds : run[n][j] = "none"
      /\ \A j \in JobIds : via[j] = None /\ job[j] = None
  BY DEF JobInit, ChanInit, RegInit
<1>6. OffAlone /\ StreamsOwned /\ AckedOnce
  BY <1>5 DEF OffAlone, StreamsOwned, AckedOnce
<1>7. ASSUME NEW j \in JobIds PROVE Trace(j) /\ Ages(j)
  <2>1. /\ \A s \in Streams : ~\E i \in DOMAIN down[s] : TRUE
        /\ \A s \in Streams : ~\E i \in DOMAIN up[s] : TRUE
    BY <1>5
  <2>2. Untraced(j) /\ \A n \in Nodes : ~At(j, n)
    BY <1>5, <2>1 DEF Untraced, RunFrame, UpdateFrame, At
  <2>3. UnmintedNowhere(j) /\ OneHome(j) /\ SendsFirst(j)
    BY <1>5, <2>2 DEF UnmintedNowhere, OneHome, SendsFirst
  <2>4. SentOnce(j) /\ LastWord(j) /\ Ages(j)
    BY ZenonT(30), <1>5, <2>1 DEF SentOnce, LastWord, Ages, SendFresh, RunFresh, BeatFresh
  <2>5. QED
    BY <2>3, <2>4 DEF Trace
<1>8. QED
  BY <1>1, <1>2, <1>3, <1>4, <1>6, <1>7 DEF JobsIInv, TypesOK

\* How an entry of the job table may change.
LEMMA JobChanges ==
  ASSUME TypesOK, NEW j \in JobIds, [JobNext]_jobVars
  PROVE  \/ job'[j] \in {job[j], None}
         \/ \E n \in Nodes : RunJob(j, n) /\ job'[j].state = "PENDING"
         \/ TimePasses /\ job[j] # None /\ job'[j].state = job[j].state
         \/ \E s \in Streams : /\ RecvBeat(s) /\ j \in GivenUp(owner[s], Incoming(s).active)
                               /\ job'[j].state = "FAILED"
         \/ \E s \in Streams : /\ RecvUpdate(s) /\ Incoming(s).job = j
                               /\ job'[j] = Updated(j, owner[s], Incoming(s).state)
<1>0. SchedOK
  BY DEF TypesOK
<1>1. ASSUME NEW k \in JobIds, NEW n \in Nodes, RunJob(k, n)
      PROVE  job'[j] = job[j] \/ (k = j /\ job'[j].state = "PENDING")
  BY ZenonT(30), <1>0, <1>1 DEF RunJob, SchedOK
<1>2. ASSUME NEW k \in JobIds, NEW ok \in BOOLEAN, SendJob(k, ok)
      PROVE  job'[j] \in {job[j], None}
  BY <1>0, <1>2 DEF SendJob, SchedOK
<1>3. ASSUME NEW s \in Streams, RecvBeat(s)
      PROVE  \/ job'[j] = job[j]
             \/ j \in GivenUp(owner[s], Incoming(s).active) /\ job'[j].state = "FAILED"
  <2> DEFINE gone == GivenUp(owner[s], Incoming(s).active)
  <2>1. job'[j] = IF j \in gone THEN [job[j] EXCEPT !.state = "FAILED", !.age = 0] ELSE job[j]
    BY <1>3, ZenonT(30) DEF RecvBeat
  <2>2. j \in gone => job[j] \in Job
    BY <1>0 DEF GivenUp, SchedOK
  <2> HIDE DEF gone
  <2>3. j \in gone => job'[j].state = "FAILED"
    BY ZenonT(30), <2>1, <2>2, FailedEntry
  <2>4. QED
    BY <2>1, <2>3 DEF gone
<1>4. ASSUME NEW s \in Streams, RecvUpdate(s)
      PROVE  \/ job'[j] = job[j]
             \/ /\ Incoming(s).job = j
                /\ job'[j] = Updated(j, owner[s], Incoming(s).state)
  BY <1>0, <1>4 DEF RecvUpdate, SchedOK
<1>5. CASE TimePasses
  <2>1. job'[j] = IF job[j] = None THEN None ELSE [job[j] EXCEPT !.age = Older(@, Grace - 1)]
    BY <1>5 DEF TimePasses
  <2>2. job[j] # None => job'[j].state = job[j].state
    BY <1>0, <2>1, OlderEntry DEF SchedOK
  <2>3. QED
    BY <1>5, <2>1, <2>2
<1>6. CASE CoordinatorRestart
  BY <1>6 DEF CoordinatorRestart
<1>7. ASSUME UNCHANGED schedVars PROVE job'[j] = job[j]
  BY <1>7 DEF schedVars
<1>8. ASSUME NEW s \in Streams, AckOut(s) \/ HandlerReturns(s) PROVE UNCHANGED schedVars
  BY ZenonT(30), <1>8 DEF AckOut, HandlerReturns
<1>9. CASE Agents
  <2>1. \A n \in Nodes : Connect(n) \/ AwaitAck(n) \/ Reconnect(n) \/ StartJob(n) \/ Beat(n) =>
          UNCHANGED schedVars
    BY DEF Connect, AwaitAck, Reconnect, StartJob, Beat
  <2>2. \A n \in Nodes : \A k \in JobIds : \A state :
          Report(n, k, state) \/ Finish(n, k, state) \/ RemoveJob(n, k) => UNCHANGED schedVars
    BY DEF Report, Finish, RemoveJob
  <2>3. UNCHANGED schedVars
    BY <1>9, <2>1, <2>2, ZenonT(30) DEF Agents, RunOnce
  <2>4. QED
    BY ZenonT(30), <1>7, <2>3
<1>10. CASE ReaperPass \/ (\E s \in Streams : LinkFailure(s)) \/ (\E n \in Nodes : AgentRestart(n))
            \/ UNCHANGED jobVars
  BY <1>7, <1>10 DEF ReaperPass, LinkFailure, AgentRestart, jobVars
<1>11. CASE Scheduling
  BY ZenonT(30), <1>1, <1>2, <1>11 DEF Scheduling
<1>12. CASE Handling
  BY ZenonT(30), <1>3, <1>4, <1>7, <1>8, <1>12 DEF Handling, Handler
<1>13. QED
  BY ZenonT(30), <1>5, <1>6, <1>9, <1>10, <1>11, <1>12 DEF JobNext, Faults

\* Only a heartbeat's reconciliation declares jobs lost: those GivenUp names,
\* on the node the beat is from.
LEMMA LostChanges ==
  ASSUME [JobNext]_jobVars
  PROVE  /\ \/ lost' \subseteq lost
            \/ \E s \in Streams : RecvBeat(s) /\ lost' = lost \cup GivenUp(owner[s], Incoming(s).active)
         /\ minted \subseteq minted'
<1>1. CASE Scheduling
  BY <1>1 DEF Scheduling, RunJob, SendJob
<1>2. ASSUME NEW s \in Streams, RecvBeat(s)
      PROVE  lost' = lost \cup GivenUp(owner[s], Incoming(s).active) /\ minted' = minted
  BY <1>2, ZenonT(30) DEF RecvBeat
<1>3. ASSUME NEW s \in Streams, AckOut(s) \/ RecvUpdate(s) \/ HandlerReturns(s)
      PROVE  lost' = lost /\ minted' = minted
  BY ZenonT(30), <1>3 DEF AckOut, RecvUpdate, HandlerReturns, schedVars
<1>4. CASE Agents
  <2>1. \A n \in Nodes : Connect(n) \/ AwaitAck(n) \/ Reconnect(n) \/ StartJob(n) \/ Beat(n) =>
          UNCHANGED schedVars
    BY DEF Connect, AwaitAck, Reconnect, StartJob, Beat
  <2>2. \A n \in Nodes : \A k \in JobIds : \A state :
          Report(n, k, state) \/ Finish(n, k, state) \/ RemoveJob(n, k) => UNCHANGED schedVars
    BY DEF Report, Finish, RemoveJob
  <2>3. UNCHANGED schedVars
    BY <1>4, <2>1, <2>2, ZenonT(30) DEF Agents, RunOnce
  <2>4. QED
    BY <2>3 DEF schedVars
<1>5. CASE Faults \/ ReaperPass \/ TimePasses \/ UNCHANGED jobVars
  BY <1>5
  DEF Faults, LinkFailure, AgentRestart, CoordinatorRestart, ReaperPass, TimePasses, schedVars, jobVars
<1>6. QED
  BY <1>1, <1>2, <1>3, <1>4, <1>5 DEF JobNext, Handling, Handler

\* Every step keeps the invariant.
LEMMA JobsStep ==
  ASSUME JobsIInv, [JobNext]_jobVars
  PROVE  JobsIInv'
<1>0. /\ RegIInv /\ TypesOK /\ OffAlone /\ StreamsOwned /\ AckedOnce /\ RegTypeOK /\ AgentsOK
      /\ FramesOK /\ SchedOK
  BY FramesSplit DEF JobsIInv, TypesOK, RegIInv
<1>1. RegIInv'
  BY <1>0, JobStepIsRegistryStep, NextIInv
<1>2. AckedOnce' /\ OffAlone' /\ TypesOK'
  BY <1>0, AckedOnceStep, OffAloneStep, TypesStep
<1>3. StreamsOwned'
  BY <1>0, <1>2, StreamsOwnedStep
<1>4. \A j \in JobIds : Trace(j)' /\ Ages(j)'
  BY <1>0, <1>1, <1>2, <1>3, TraceStep, AgesStep DEF JobsIInv
<1>5. lost' \subseteq minted'
  <2>1. \A j \in JobIds : job[j] # None => j \in minted
    BY DEF JobsIInv, Trace, UnmintedNowhere
  <2>2. \A n : \A S : GivenUp(n, S) \subseteq minted
    BY <2>1 DEF GivenUp
  <2>3. QED
    BY <2>2, LostChanges DEF JobsIInv
<1>6. QED
  BY <1>1, <1>2, <1>3, <1>4, <1>5 DEF JobsIInv

-----------------------------------------------------------------------------
(* Losses and outcomes, when a heartbeat and a dispatch fit into Grace. *)

\* The job does not run and will not, and no agent has anything more to say of
\* it on the stream it uses.
Silent(j) ==
  /\ Spent(j)
  /\ \A n \in Nodes : session[n] # None => ~UpdateFrame(j, session[n])

\* Nobody will speak again of a job that is settled in the job table.
SettledSilent(j) == job[j] # None /\ Settled(j) => Silent(j)

\* The head of a queue is at place 1.
LEMMA IncomingFirst ==
  ASSUME FramesOK, NEW s \in Streams, Arrived(s)
  PROVE  1 \in DOMAIN up[s] /\ Incoming(s) = up[s][1] /\ \A k \in DOMAIN up[s] : k = 1 \/ k > 1
<1>1. up[s] \in Seq(UpFrame) /\ up[s] # <<>>
  BY DEF FramesOK, ChanTypeOK, Arrived
<1>2. QED
  BY <1>1, LenProperties, EmptySeq DEF Incoming

LEMMA AgeNat ==
  ASSUME NEW e \in Job \cup {None}, e # None PROVE e.age \in Nat
BY JobFields, JobsAssumption

\* Reconcile gives up only jobs that are silent: the entry of any other is too
\* young.
LEMMA GivenUpSilent ==
  ASSUME Grace >= 3, JobsIInv, NEW s \in Streams, RecvBeat(s), NEW j \in JobIds,
         j \in GivenUp(owner[s], Incoming(s).active)
  PROVE  Silent(j)
<1>0. /\ RegIInv /\ StreamsOwned /\ FramesOK /\ SchedOK /\ Trace(j) /\ Ages(j)
      /\ session \in [Nodes -> Streams \cup {None}]
  BY DEF JobsIInv, TypesOK, FramesOK, ChanTypeOK
<1>1. handler[s] = "serving" /\ Arrived(s) /\ Incoming(s).kind = "beat"
  BY ZenonT(30) DEF RecvBeat, Heartbeat
<1>2. owner[s] \in Nodes
  BY ZenonT(30), <1>0, <1>1, OwnerNode
<1>3. /\ 1 \in DOMAIN up[s] /\ Incoming(s) = up[s][1]
      /\ \A k \in DOMAIN up[s] : k = 1 \/ k > 1
  BY <1>0, <1>1, IncomingFirst
<1>4. /\ job[j] # None /\ job[j].node = owner[s] /\ job[j].age >= Grace
      /\ j \notin up[s][1].active
  BY <1>3 DEF GivenUp, Quiet
<1>5. job[j].age \in Nat
  <2>1. job[j] \in Job \cup {None}
    BY ZenonT(30), <1>0 DEF SchedOK
  <2>2. QED
    BY ZenonT(30), <1>4, <2>1, AgeNat
<1>6. ~AgeAtMost(j, 0) /\ ~AgeAtMost(j, 1) /\ ~AgeAtMost(j, 2)
  BY SMTT(30), <1>4, <1>5, JobsAssumption DEF AgeAtMost
<1>7. \A f : ~AgeAtMost(j, Delay(f)) /\ ~AgeAtMost(j, 1 + Delay(f))
  <2>1. 1 + 0 = 1 /\ 1 + 1 = 2
    OBVIOUS
  <2>2. QED
    BY <1>6, <2>1, SameDelay
<1>8. via[j] = None /\ \A t \in Streams : ~RunFrame(j, t)
  BY ZenonT(30), <1>0, <1>6, <1>7 DEF Ages, SendFresh, RunFresh, RunFrame
<1>9. ~Since(j, s, 1)
  BY ZenonT(30), <1>0, <1>1, <1>3, <1>4, <1>7 DEF Ages, BeatFresh
<1>10. \A n \in Nodes : At(j, n) => n = owner[s]
  BY ZenonT(30), <1>0, <1>2, <1>4 DEF Trace, OneHome, At
<1>11. \A n \in Nodes : run[n][j] # "live"
  BY ZenonT(30), <1>9, <1>10 DEF At, Since
<1>12. ASSUME NEW n \in Nodes, session[n] # None, UpdateFrame(j, session[n]) PROVE FALSE
  <2>1. session[n] \in Streams /\ up[session[n]] # <<>>
    BY ZenonT(30), <1>0, <1>12, PlaceTaken DEF UpdateFrame
  <2>2. owner[session[n]] = n
    BY <1>0, <2>1, ReaderOwns
  <2>3. n = owner[s]
    BY <1>10, <1>12, <2>1, <2>2 DEF At
  <2>4. CASE session[n] = s
    <3>1. PICK k \in DOMAIN up[s] : IsUpdate(up[s][k], j)
      BY <1>12, <2>4 DEF UpdateFrame
    <3>2. k # 1
      BY <1>1, <1>3, <3>1 DEF IsUpdate
    <3>3. QED
      BY ZenonT(30), <1>3, <1>9, <3>1, <3>2 DEF Since
  <2>5. CASE session[n] # s
    BY ZenonT(30), <1>9, <1>12, <2>3, <2>5 DEF Since
  <2>6. QED
    BY <2>4, <2>5
<1>13. QED
  BY <1>8, <1>11, <1>12 DEF Silent, Spent

\* A silent job stays silent in a step that brings nothing new about it.
LEMMA CalmSilent ==
  ASSUME TypesOK, TypesOK', NEW j \in JobIds, Undisturbed(j), Silent(j)
  PROVE  Silent(j)'
<1>1. Spent(j)'
  BY ZenonT(30), CalmLeaves DEF Undisturbed, Silent
<1>2. \A n \in Nodes : session'[n] # None => ~UpdateFrame(j, session[n])'
  BY ZenonT(30), CalmLeaves DEF Undisturbed, Silent
<1>3. QED
  BY <1>1, <1>2 DEF Silent

\* An outcome is recorded when it is the last that waits.
LEMMA OutcomeSilent ==
  ASSUME JobsIInv, TypesOK', NEW s \in Streams, RecvUpdate(s), NEW j \in JobIds,
         Incoming(s).job = j, Terminal(Incoming(s).state)
  PROVE  Silent(j)'
<1>0. RegIInv /\ TypesOK /\ FramesOK /\ Trace(j)
  BY DEF JobsIInv, TypesOK
<1>1. Arrived(s) /\ Incoming(s).kind = "update" /\ Take(s) /\ UNCHANGED session
  BY ZenonT(30) DEF RecvUpdate
<1>2. /\ 1 \in DOMAIN up[s] /\ IsUpdate(up[s][1], j) /\ Terminal(up[s][1].state)
      /\ \A k \in DOMAIN up[s] : k = 1 \/ k > 1
  BY ZenonT(30), <1>0, <1>1, IncomingFirst DEF IsUpdate
<1>3. /\ Spent(j)
      /\ \A k \in DOMAIN up[s] : k > 1 => ~IsUpdate(up[s][k], j)
      /\ \A n \in Nodes : session[n] \notin {None, s} => ~UpdateFrame(j, session[n])
  BY ZenonT(30), <1>0, <1>2 DEF Trace, LastWord
<1>4. Undisturbed(j)
  BY <1>0, HandlerCalm DEF Handler
<1>5. Spent(j)'
  BY ZenonT(30), <1>0, <1>3, <1>4, CalmLeaves DEF Undisturbed
<1>6. ASSUME NEW n \in Nodes, session'[n] # None, UpdateFrame(j, session[n])' PROVE FALSE
  <2>1. session'[n] = session[n] /\ UpdateFrame(j, session[n])
    BY ZenonT(30), <1>0, <1>4, <1>6, CalmLeaves DEF Undisturbed
  <2>2. session[n] = s
    BY ZenonT(30), <1>3, <1>6, <2>1
  <2>3. PICK k \in DOMAIN up'[s] : IsUpdate(up'[s][k], j)
    BY ZenonT(30), <1>6, <2>1, <2>2 DEF UpdateFrame
  <2>4. up'[s] = Tail(up[s]) /\ up[s] \in Seq(UpFrame) /\ up[s] # <<>>
    BY <1>0, <1>1 DEF Take, Arrived, FramesOK, ChanTypeOK
  <2>5. k + 1 \in DOMAIN up[s] /\ up'[s][k] = up[s][k + 1] /\ k + 1 # 1
    BY ZenonT(30), <2>4, TailAt
  <2>6. QED
    BY ZenonT(30), <1>2, <1>3, <2>3, <2>5
<1>7. QED
  BY <1>5, <1>6 DEF Silent

\* Every step keeps settled jobs silent.
LEMMA SettledStep ==
  ASSUME Grace >= 3, JobsIInv, JobsIInv', NEW j \in JobIds, SettledSilent(j), [JobNext]_jobVars
  PROVE  SettledSilent(j)'
<1> SUFFICES ASSUME job'[j] # None, Settled(j)' PROVE Silent(j)'
  BY ZenonT(30) DEF SettledSilent
<1>0. RegIInv /\ TypesOK /\ TypesOK' /\ AckedOnce /\ SchedOK /\ Trace(j)
  BY DEF JobsIInv, TypesOK
<1>a. Terminal(job'[j].state)
  BY ZenonT(30) DEF Settled, Terminal
<1>b. (job[j] # None /\ Terminal(job[j].state)) => Silent(j)
  BY DEF Settled, Terminal, SettledSilent
<1>1. ASSUME Silent(j) PROVE Silent(j)'
  <2>1. CASE Undisturbed(j)
    BY <1>0, <1>1, <2>1, CalmSilent
  <2>2. CASE Dispatched(j)
    <3>1. ASSUME NEW n \in Nodes, RunJob(j, n) PROVE FALSE
      <4>1. job'[j].state = "PENDING"
        BY ZenonT(30), <1>0, <3>1 DEF RunJob, SchedOK
      <4>2. QED
        BY <1>a, <4>1, JobsAssumption DEF Terminal
    <3>2. ~SendJob(j, TRUE)
      BY ZenonT(30), <1>1 DEF SendJob, Silent, Spent
    <3>3. QED
      BY ZenonT(30), <2>2, <3>1, <3>2 DEF Dispatched
  <2>3. CASE Taken(j)
    <3>1. PICK n \in Nodes : StartJob(n) /\ NextFrame(n).job = j
      BY ZenonT(30), <2>3 DEF Taken
    <3>2. session[n] \in Streams /\ RunFrame(j, session[n])
      BY ZenonT(30), <1>0, <3>1, BeforeTaken DEF RunFrame
    <3>3. QED
      BY ZenonT(30), <1>1, <3>2 DEF Silent, Spent
  <2>4. CASE Reported(j)
    BY <1>1, <2>4 DEF Reported, Report, Finish, Silent, Spent
  <2>5. QED
    BY <1>0, <2>1, <2>2, <2>3, <2>4, JobStepCalm
<1>2. CASE job'[j] = job[j] \/ (TimePasses /\ job[j] # None /\ job'[j].state = job[j].state)
  BY ZenonT(30), <1>1, <1>2, <1>a, <1>b
<1>3. CASE \E n \in Nodes : RunJob(j, n) /\ job'[j].state = "PENDING"
  BY <1>3, <1>a, JobsAssumption DEF Terminal
<1>4. ASSUME NEW s \in Streams, RecvBeat(s), j \in GivenUp(owner[s], Incoming(s).active)
      PROVE  Silent(j)'
  BY <1>1, <1>4, GivenUpSilent
<1>5. ASSUME NEW s \in Streams, RecvUpdate(s), Incoming(s).job = j,
             job'[j] = Updated(j, owner[s], Incoming(s).state)
      PROVE  Silent(j)'
  <2>1. owner[s] \in Nodes /\ Incoming(s).state \in LiveKinds \cup Outcomes \cup {"FAILED"}
    BY ZenonT(30), <1>0, <1>5, OwnerNode, HeadFrame DEF RecvUpdate, TypesOK
  <2>2. job'[j].state = IF Incoming(s).state # "LOG" THEN Incoming(s).state
                        ELSE IF job[j] = None THEN "UNSPECIFIED" ELSE job[j].state
    <3>1. Updated(j, owner[s], Incoming(s).state).state =
            IF Incoming(s).state # "LOG" THEN Incoming(s).state
            ELSE IF job[j] = None THEN "UNSPECIFIED" ELSE job[j].state
      BY <1>0, <2>1, UpdatedEntry
    <3>2. QED
      BY ZenonT(30), <1>5, <3>1
  <2>3. ~Terminal("UNSPECIFIED")
    BY JobsAssumption DEF Terminal
  <2>4. CASE Terminal(Incoming(s).state)
    BY ZenonT(30), <1>0, <1>5, <2>4, OutcomeSilent
  <2>5. CASE ~Terminal(Incoming(s).state)
    BY ZenonT(30), <1>1, <1>a, <1>b, <2>2, <2>3, <2>5
  <2>6. QED
    BY <2>4, <2>5
<1>6. QED
  BY ZenonT(30), <1>0, <1>2, <1>3, <1>4, <1>5, JobChanges

-----------------------------------------------------------------------------
(* The theorems. *)

\* The inductive invariant of the job scheduler, its streams and its agents.
THEOREM JobsInvariant == JobSpec => []JobsIInv
<1>1. JobsIInv /\ [JobNext]_jobVars => JobsIInv'
  BY JobsStep
<1>2. QED
  BY <1>1, JobsInit, PTL DEF JobSpec

\* Type correctness of Jobs, and with it that Reconcile fails only jobs that
\* RunJob has minted.
THEOREM JobsTypes == JobSpec => []JobTypeOK
<1>1. JobsIInv => JobTypeOK
  BY DEF JobsIInv, RegIInv, TypesOK, FramesOK, SchedOK, HostsOK, JobTypeOK
<1>2. QED
  BY <1>1, JobsInvariant, PTL

\* The scheduler, its streams and its agents drive the registry only the way
\* its own specification allows: whatever is proved of the registry holds here.
THEOREM JobsImplementRegistry == JobSpec => RegSpec
<1>1. JobInit => RegInit
  BY DEF JobInit
<1>2. JobsIInv /\ [JobNext]_jobVars => [RegNext]_regVars
  <2> SUFFICES ASSUME JobsIInv, [JobNext]_jobVars PROVE [RegNext]_regVars
    OBVIOUS
  <2>1. RegTypeOK /\ AgentsOK
    BY FramesSplit DEF JobsIInv, RegIInv, TypesOK
  <2>2. QED
    BY <2>1, JobStepIsRegistryStep
<1>3. QED
  BY <1>1, <1>2, JobsInvariant, PTL DEF JobSpec, RegSpec

\* The handle RunJob takes from the registry is a running stream of the very
\* node it places the job on (Registry.Get, Node.Send).
THEOREM JobsHandleSound == JobSpec => []HandleSound
BY JobsImplementRegistry, RegistryHandleSound, PTL

\* A running stream that is not its node's handle has lost it in one of the
\* two known ways, with the scheduler and the agents at work.
THEOREM JobsHandleLossExplained == JobSpec => []HandleLossExplained
BY JobsImplementRegistry, RegistryHandleLossExplained, PTL

\* With reconcileGrace at three heartbeat intervals or more (30 s and 10 s in
\* the code), Reconcile never fails a job that its agent runs or is about to
\* start, or whose outcome is under way on the stream the agent uses.
THEOREM JobsNoFalseLoss ==
  ASSUME Grace >= 3
  PROVE  JobSpec => NoFalseLoss
<1>1. JobsIInv /\ [JobNext]_jobVars =>
        [\A j \in JobIds : j \in lost' \ lost => ~Alive(j, job[j].node)]_jobVars
  <2> SUFFICES ASSUME JobsIInv, [JobNext]_jobVars, NEW j \in JobIds, j \in lost' \ lost
               PROVE  ~Alive(j, job[j].node)
    OBVIOUS
  <2>1. PICK s \in Streams : RecvBeat(s) /\ j \in GivenUp(owner[s], Incoming(s).active)
    BY LostChanges
  <2>2. Silent(j)
    BY <2>1, GivenUpSilent
  <2>3. FramesOK /\ OffAlone /\ job[j].node \in Nodes
    BY ZenonT(30), <2>1, JobFields DEF JobsIInv, TypesOK, SchedOK, GivenUp
  <2> DEFINE n == job[j].node
  <2>4. ASSUME Serving(n) PROVE session[n] # None /\ session[n] \in Streams
    BY <2>3, <2>4 DEF Serving, OffAlone, FramesOK, ChanTypeOK
  <2>5. /\ run[n][j] # "live"
        /\ Serving(n) => ~RunFrame(j, session[n]) /\ ~UpdateFrame(j, session[n])
    BY ZenonT(30), <2>2, <2>3, <2>4 DEF Silent, Spent
  <2>6. \A q : (\E f \in Frames(q) : IsRun(f, j)) => \E i \in DOMAIN q : IsRun(q[i], j)
    BY ZenonT(30) DEF Frames
  <2>7. \A q : (\E f \in Frames(q) : IsUpdate(f, j)) => \E i \in DOMAIN q : IsUpdate(q[i], j)
    BY ZenonT(30) DEF Frames
  <2>8. Serving(n) => /\ ~\E f \in Frames(down[session[n]]) : IsRun(f, j)
                      /\ ~\E f \in Frames(up[session[n]]) : IsUpdate(f, j)
    BY ZenonT(30), <2>5, <2>6, <2>7 DEF RunFrame, UpdateFrame
  <2>9. QED
    BY ZenonT(30), <2>5, <2>8 DEF Alive, IsRun, IsUpdate
<1>2. QED
  BY <1>1, JobsInvariant, PTL DEF JobSpec, NoFalseLoss

\* With the same bound, a job on record in a terminal state does not run, will
\* not, and has nothing under way on a stream that an agent uses.
THEOREM JobsSettledSilent ==
  ASSUME Grace >= 3
  PROVE  JobSpec => [](\A j \in JobIds : SettledSilent(j))
<1>1. JobInit => \A j \in JobIds : SettledSilent(j)
  BY DEF JobInit, SettledSilent
<1>2. JobsIInv /\ JobsIInv' /\ (\A j \in JobIds : SettledSilent(j)) /\ [JobNext]_jobVars =>
        (\A j \in JobIds : SettledSilent(j))'
  <2> SUFFICES ASSUME JobsIInv, JobsIInv', \A j \in JobIds : SettledSilent(j), [JobNext]_jobVars
               PROVE  \A j \in JobIds : SettledSilent(j)'
    OBVIOUS
  <2>1. QED
    BY SettledStep
<1>3. QED
  BY <1>1, <1>2, JobsInvariant, PTL DEF JobSpec

\* With the same bound, the only thing that changes a terminal state in the
\* job table is an update read from a stream that its agent has left.
THEOREM JobsTerminalKept ==
  ASSUME Grace >= 3
  PROVE  JobSpec => TerminalKept
<1> DEFINE Kept ==
      \A j \in JobIds :
        (job[j] # None /\ Settled(j) /\ job'[j] # None /\ job'[j].state # job[j].state)
        => \E s \in Streams :
             /\ up[s] # <<>> /\ up'[s] = Tail(up[s])
             /\ Incoming(s).kind = "update" /\ Incoming(s).job = j
             /\ session[owner[s]] # s
<1>1. JobsIInv /\ (\A j \in JobIds : SettledSilent(j)) /\ [JobNext]_jobVars => [Kept]_jobVars
  <2> SUFFICES ASSUME JobsIInv, \A j \in JobIds : SettledSilent(j), [JobNext]_jobVars, NEW j \in JobIds,
                      job[j] # None, Settled(j), job'[j] # None, job'[j].state # job[j].state
               PROVE  \E s \in Streams :
                        /\ up[s] # <<>> /\ up'[s] = Tail(up[s])
                        /\ Incoming(s).kind = "update" /\ Incoming(s).job = j
                        /\ session[owner[s]] # s
    OBVIOUS
  <2>0. RegIInv /\ TypesOK /\ FramesOK /\ Trace(j)
    BY DEF JobsIInv, TypesOK
  <2>1. \A n \in Nodes : ~RunJob(j, n)
    BY ZenonT(30), <2>0 DEF RunJob, Trace, UnmintedNowhere
  <2>2. \A n : \A S : j \notin GivenUp(n, S)
    BY ZenonT(30), JobsAssumption DEF GivenUp, Settled, IsTerminal
  <2>3. PICK s \in Streams : RecvUpdate(s) /\ Incoming(s).job = j
    BY ZenonT(30), <2>0, <2>1, <2>2, JobChanges
  <2>4. /\ up[s] # <<>> /\ up'[s] = Tail(up[s]) /\ Incoming(s).kind = "update"
        /\ owner[s] \in Nodes
    BY ZenonT(30), <2>0, <2>3, OwnerNode DEF RecvUpdate, Arrived, Take, FramesOK, ChanTypeOK
  <2>5. UpdateFrame(j, s)
    BY ZenonT(30), <2>0, <2>3, <2>4, IncomingFirst DEF UpdateFrame, IsUpdate, Arrived
  <2>6. session[owner[s]] # s
    BY <2>4, <2>5, RegistryAssumption DEF SettledSilent, Silent
  <2>7. QED
    BY <2>3, <2>4, <2>6
<1>2. [][Kept]_jobVars => TerminalKept
  BY PTL DEF TerminalKept
<1> HIDE DEF Kept
<1>3. QED
  BY <1>1, <1>2, JobsInvariant, JobsSettledSilent, PTL DEF JobSpec
=============================================================================
