-------------------------- MODULE JobsTraceProofs ---------------------------
(***************************************************************************)
(* Where a job is, in every state the scheduler and its agents reach: it   *)
(* has one home, is sent once, starts once and says nothing after its      *)
(* outcome.                                                                *)
(***************************************************************************)
EXTENDS JobsStreamsProofs

(* What a step leaves of the frames about one job. *)

IsRun(f, j) == f.kind = "run" /\ f.job = j
\* The update of job j, among the frames from an agent.
IsUpdate(f, j) == f.kind = "update" /\ f.job = j

\* One frame, whether or not it has been marked late.
Same(f, g) == f = g \/ f = [g EXCEPT !.late = TRUE]

\* No update on job j, and no frame of a kind in K, is new.
UpKept(j, K) ==
  \A s \in Streams :
    /\ DOMAIN up'[s] \subseteq Nat
    /\ \E d \in Nat : \A i \in DOMAIN up'[s] :
         IsUpdate(up'[s][i], j) \/ up'[s][i].kind \in K =>
           i + d \in DOMAIN up[s] /\ Same(up'[s][i], up[s][i + d])

\* No command for job j is new, and none has moved back.
DownKept(j) ==
  \A s \in Streams :
    /\ DOMAIN down'[s] \subseteq Nat
    /\ \E d \in Nat : \A i \in DOMAIN down'[s] :
         IsRun(down'[s][i], j) => i + d \in DOMAIN down[s] /\ Same(down'[s][i], down[s][i + d])

\* A rest of the streams brings nothing new about a job.
LEMMA RestKept ==
  ASSUME NEW j
  PROVE  /\ UpRest({}) => UpKept(j, {}) /\ UpKept(j, {"beat"})
         /\ UpRest({"beat"}) => UpKept(j, {})
         /\ DownRest({}) \/ DownRest({"ack"}) => DownKept(j)
<1>1. ASSUME NEW N, "update" \notin N, UpRest(N), NEW K, K \cap N = {} PROVE UpKept(j, K)
  <2> SUFFICES ASSUME NEW s \in Streams
               PROVE  /\ DOMAIN up'[s] \subseteq Nat
                      /\ \E d \in Nat : \A i \in DOMAIN up'[s] :
                           IsUpdate(up'[s][i], j) \/ up'[s][i].kind \in K =>
                             i + d \in DOMAIN up[s] /\ Same(up'[s][i], up[s][i + d])
    BY DEF UpKept
  <2>1. DOMAIN up'[s] \subseteq Nat
    BY <1>1 DEF UpRest, Rest
  <2>2. PICK d \in Nat : \A i \in DOMAIN up'[s] :
          \/ up'[s][i].kind \in N
          \/ i + d \in DOMAIN up[s]
             /\ (up'[s][i] = up[s][i + d] \/ up'[s][i] = [up[s][i + d] EXCEPT !.late = TRUE])
    BY <1>1, ZenonT(30) DEF UpRest, Rest
  <2>3. QED
    BY <1>1, <2>1, <2>2, ZenonT(30) DEF IsUpdate, Same
<1>2. ASSUME NEW N, "run" \notin N, DownRest(N) PROVE DownKept(j)
  <2> SUFFICES ASSUME NEW s \in Streams
               PROVE  /\ DOMAIN down'[s] \subseteq Nat
                      /\ \E d \in Nat : \A i \in DOMAIN down'[s] :
                           IsRun(down'[s][i], j) =>
                             i + d \in DOMAIN down[s] /\ Same(down'[s][i], down[s][i + d])
    BY DEF DownKept
  <2>1. DOMAIN down'[s] \subseteq Nat
    BY <1>2 DEF DownRest, Rest
  <2>2. PICK d \in Nat : \A i \in DOMAIN down'[s] :
          \/ down'[s][i].kind \in N
          \/ i + d \in DOMAIN down[s]
             /\ (down'[s][i] = down[s][i + d] \/ down'[s][i] = [down[s][i + d] EXCEPT !.late = TRUE])
    BY <1>2, ZenonT(30) DEF DownRest, Rest
  <2>3. QED
    BY <1>2, <2>1, <2>2, ZenonT(30) DEF IsRun, Same
<1>3. "run" # "ack" /\ "update" # "beat"
  OBVIOUS
<1>4. QED
  BY <1>1, <1>2, <1>3

\* Frames about another job.
LEMMA OthersKept ==
  ASSUME FramesOK, NEW j, NEW k, j # k
  PROVE  /\ \A n \in Nodes : \A state : Emit(n, JobUpdate(k, state)) => UpKept(j, {"beat"})
         /\ \A s \in Streams :
              Put(s, [kind |-> "run", job |-> k, late |-> FALSE]) => DownKept(j)
<1>0. UpOK(UpFrame) /\ DownOK(DownFrame)
  BY FramesSplit
<1>1. ASSUME NEW n \in Nodes, NEW state, Emit(n, JobUpdate(k, state)), NEW s \in Streams
      PROVE  /\ DOMAIN up'[s] \subseteq Nat
             /\ \A i \in DOMAIN up'[s] :
                  IsUpdate(up'[s][i], j) \/ up'[s][i].kind \in {"beat"} =>
                    i + 0 \in DOMAIN up[s] /\ Same(up'[s][i], up[s][i + 0])
  <2> DEFINE f == JobUpdate(k, state)
  <2>1. f.kind = "update" /\ f.job = k
    BY DEF JobUpdate
  <2>2. Emit(n, f)
    BY <1>1
  <2> HIDE DEF f
  <2>3. up[s] \in Seq(UpFrame) /\ (up'[s] = up[s] \/ up'[s] = Append(up[s], f))
    BY <1>0, <2>2 DEF UpOK, Emit
  <2>4. DOMAIN up[s] \subseteq Nat /\ \A i \in DOMAIN up[s] : i + 0 = i
    BY <2>3, LenProperties
  <2>5. CASE up'[s] = up[s]
    BY <2>4, <2>5 DEF Same
  <2>6. CASE up'[s] = Append(up[s], f)
    <3>1. /\ DOMAIN up'[s] = DOMAIN up[s] \cup {Len(up[s]) + 1} /\ Len(up[s]) \in Nat
          /\ up'[s][Len(up[s]) + 1] = f
          /\ \A i \in DOMAIN up[s] : up'[s][i] = up[s][i]
      BY <2>3, <2>6, AppendAt
    <3>2. ~IsUpdate(f, j) /\ f.kind \notin {"beat"}
      BY <2>1 DEF IsUpdate
    <3>3. QED
      BY <2>4, <3>1, <3>2 DEF Same
  <2>7. QED
    BY <2>3, <2>5, <2>6
<1>2. ASSUME NEW t \in Streams, Put(t, [kind |-> "run", job |-> k, late |-> FALSE]), NEW s \in Streams
      PROVE  /\ DOMAIN down'[s] \subseteq Nat
             /\ \A i \in DOMAIN down'[s] :
                  IsRun(down'[s][i], j) => i + 0 \in DOMAIN down[s] /\ Same(down'[s][i], down[s][i + 0])
  <2> DEFINE f == [kind |-> "run", job |-> k, late |-> FALSE]
  <2>1. f.kind = "run" /\ f.job = k /\ Put(t, f)
    BY <1>2
  <2> HIDE DEF f
  <2>2. down[s] \in Seq(DownFrame) /\ (down'[s] = down[s] \/ down'[s] = Append(down[s], f))
    BY <1>0, <2>1 DEF DownOK, Put
  <2>3. DOMAIN down[s] \subseteq Nat /\ \A i \in DOMAIN down[s] : i + 0 = i
    BY <2>2, LenProperties
  <2>4. CASE down'[s] = down[s]
    BY <2>3, <2>4 DEF Same
  <2>5. CASE down'[s] = Append(down[s], f)
    <3>1. /\ DOMAIN down'[s] = DOMAIN down[s] \cup {Len(down[s]) + 1} /\ Len(down[s]) \in Nat
          /\ down'[s][Len(down[s]) + 1] = f
          /\ \A i \in DOMAIN down[s] : down'[s][i] = down[s][i]
      BY <2>2, <2>5, AppendAt
    <3>2. ~IsRun(f, j)
      BY <2>1 DEF IsRun
    <3>3. QED
      BY <2>3, <3>1, <3>2 DEF Same
  <2>6. QED
    BY <2>2, <2>4, <2>5
<1>3. 0 \in Nat
  OBVIOUS
<1>4. QED
  BY ZenonT(30), <1>1, <1>2, <1>3 DEF UpKept, DownKept

\* A frame that is the same but later says the same.
LEMMA SaidAgain ==
  ASSUME FramesOK, NEW j, NEW s \in Streams
  PROVE  /\ \A i \in DOMAIN up[s] : up[s][i] \in UpFrame
         /\ \A i \in DOMAIN down[s] : down[s][i] \in DownFrame
         /\ \A f : \A g \in UpFrame : Same(f, g) /\ IsUpdate(f, j) =>
              IsUpdate(g, j) /\ f.state = g.state
         /\ \A f : \A g \in DownFrame : Same(f, g) /\ IsRun(f, j) => IsRun(g, j)
<1>1. /\ \A i \in DOMAIN up[s] : up[s][i] \in UpFrame
      /\ \A i \in DOMAIN down[s] : down[s][i] \in DownFrame
  BY ElementOfSeq, LenProperties DEF FramesOK, ChanTypeOK
<1>2. /\ \A f : \A g \in UpFrame : Same(f, g) /\ IsUpdate(f, j) =>
           IsUpdate(g, j) /\ f.state = g.state
      /\ \A f : \A g \in DownFrame : Same(f, g) /\ IsRun(f, j) => IsRun(g, j)
  <2>1. ASSUME NEW f, NEW g \in UpFrame, Same(f, g), IsUpdate(f, j)
        PROVE  IsUpdate(g, j) /\ f.state = g.state
    <3>1. CASE f = g
      BY <2>1, <3>1
    <3>2. CASE f = [g EXCEPT !.late = TRUE]
      BY <2>1, <3>2, LateUp, ZenonT(30) DEF IsUpdate
    <3>3. QED
      BY <2>1, <3>1, <3>2 DEF Same
  <2>2. ASSUME NEW f, NEW g \in DownFrame, Same(f, g), IsRun(f, j) PROVE IsRun(g, j)
    <3>1. CASE f = g
      BY <2>2, <3>1
    <3>2. CASE f = [g EXCEPT !.late = TRUE]
      BY <2>2, <3>2, LateDown, ZenonT(30) DEF IsRun
    <3>3. QED
      BY <2>2, <3>1, <3>2 DEF Same
  <2>3. QED
    BY <2>1, <2>2
<1>3. QED
  BY ZenonT(30), <1>1, <1>2

\* What the frames that are left say.
LEMMA KeptSays ==
  ASSUME FramesOK, NEW j, NEW s \in Streams
  PROVE  /\ \A K : UpKept(j, K) =>
              \E d \in Nat :
                /\ \A i \in DOMAIN up'[s] : i \in Nat
                /\ \A i \in DOMAIN up'[s] : IsUpdate(up'[s][i], j) =>
                     /\ i + d \in DOMAIN up[s] /\ IsUpdate(up[s][i + d], j)
                     /\ up'[s][i].state = up[s][i + d].state
                /\ \A i \in DOMAIN up'[s] : up'[s][i].kind \in K =>
                     i + d \in DOMAIN up[s] /\ Same(up'[s][i], up[s][i + d])
         /\ DownKept(j) =>
              \E d \in Nat :
                /\ \A i \in DOMAIN down'[s] : i \in Nat
                /\ \A i \in DOMAIN down'[s] : IsRun(down'[s][i], j) =>
                     /\ i + d \in DOMAIN down[s] /\ IsRun(down[s][i + d], j)
                     /\ Same(down'[s][i], down[s][i + d])
<1>1. /\ \A i \in DOMAIN up[s] : up[s][i] \in UpFrame
      /\ \A i \in DOMAIN down[s] : down[s][i] \in DownFrame
      /\ \A f : \A g \in UpFrame : Same(f, g) /\ IsUpdate(f, j) =>
           IsUpdate(g, j) /\ f.state = g.state
      /\ \A f : \A g \in DownFrame : Same(f, g) /\ IsRun(f, j) => IsRun(g, j)
  BY SaidAgain
<1>2. ASSUME NEW K, UpKept(j, K)
      PROVE  \E d \in Nat :
                /\ \A i \in DOMAIN up'[s] : i \in Nat
                /\ \A i \in DOMAIN up'[s] : IsUpdate(up'[s][i], j) =>
                     /\ i + d \in DOMAIN up[s] /\ IsUpdate(up[s][i + d], j)
                     /\ up'[s][i].state = up[s][i + d].state
                /\ \A i \in DOMAIN up'[s] : up'[s][i].kind \in K =>
                     i + d \in DOMAIN up[s] /\ Same(up'[s][i], up[s][i + d])
  <2>1. PICK d \in Nat : \A i \in DOMAIN up'[s] :
          IsUpdate(up'[s][i], j) \/ up'[s][i].kind \in K =>
            i + d \in DOMAIN up[s] /\ Same(up'[s][i], up[s][i + d])
    BY <1>2, ZenonT(30) DEF UpKept
  <2>2. \A i \in DOMAIN up'[s] : i \in Nat
    BY <1>2 DEF UpKept
  <2>3. QED
    BY <1>1, <2>1, <2>2, ZenonT(30)
<1>3. ASSUME DownKept(j)
      PROVE  \E d \in Nat :
                /\ \A i \in DOMAIN down'[s] : i \in Nat
                /\ \A i \in DOMAIN down'[s] : IsRun(down'[s][i], j) =>
                     /\ i + d \in DOMAIN down[s] /\ IsRun(down[s][i + d], j)
                     /\ Same(down'[s][i], down[s][i + d])
  <2>1. PICK d \in Nat : \A i \in DOMAIN down'[s] :
          IsRun(down'[s][i], j) => i + d \in DOMAIN down[s] /\ Same(down'[s][i], down[s][i + d])
    BY <1>3, ZenonT(30) DEF DownKept
  <2>2. \A i \in DOMAIN down'[s] : i \in Nat
    BY <1>3 DEF DownKept
  <2>3. QED
    BY <1>1, <2>1, <2>2, ZenonT(30)
<1>4. QED
  BY <1>2, <1>3

LEMMA UpdatesKept ==
  ASSUME FramesOK, NEW j, NEW s \in Streams, UpKept(j, {})
  PROVE  \E d \in Nat :
           /\ \A k \in DOMAIN up'[s] : k \in Nat
           /\ \A k \in DOMAIN up'[s] : IsUpdate(up'[s][k], j) =>
                /\ k + d \in DOMAIN up[s] /\ IsUpdate(up[s][k + d], j)
                /\ up'[s][k].state = up[s][k + d].state
<1>1. PICK d \in Nat : \A i \in DOMAIN up'[s] :
        IsUpdate(up'[s][i], j) => i + d \in DOMAIN up[s] /\ Same(up'[s][i], up[s][i + d])
  BY ZenonT(30) DEF UpKept
<1>2. \A i \in DOMAIN up'[s] : i \in Nat
  BY DEF UpKept
<1>3. /\ \A i \in DOMAIN up[s] : up[s][i] \in UpFrame
      /\ \A f : \A g \in UpFrame : Same(f, g) /\ IsUpdate(f, j) =>
           IsUpdate(g, j) /\ f.state = g.state
  BY SaidAgain
<1>4. ASSUME NEW k \in DOMAIN up'[s], IsUpdate(up'[s][k], j)
      PROVE  /\ k + d \in DOMAIN up[s] /\ IsUpdate(up[s][k + d], j)
             /\ up'[s][k].state = up[s][k + d].state
  BY ZenonT(30), <1>1, <1>3, <1>4
<1> WITNESS d \in Nat
<1>5. QED
  BY ZenonT(30), <1>2, <1>4

-----------------------------------------------------------------------------
(* Where a job is. *)

RunFrame(j, s) == \E i \in DOMAIN down[s] : IsRun(down[s][i], j)
\* An update of job j is on its way on stream s.
UpdateFrame(j, s) == \E i \in DOMAIN up[s] : IsUpdate(up[s][i], j)

\* Node n has to do with job j: by the job table, by its agent's own, or by a
\* frame to or from it.
At(j, n) ==
  \/ job[j] # None /\ job[j].node = n
  \/ run[n][j] # "none"
  \/ \E s \in Streams : owner[s] = n /\ UpdateFrame(j, s)
  \/ session[n] # None /\ RunFrame(j, session[n])

\* No agent has job j and nothing about it is on its way.
Untraced(j) ==
  /\ \A s \in Streams : ~RunFrame(j, s) /\ ~UpdateFrame(j, s)
  /\ \A n \in Nodes : run[n][j] = "none"

\* A job whose id has not been given out is nowhere.
UnmintedNowhere(j) == j \notin minted => via[j] = None /\ job[j] = None /\ Untraced(j)

\* A job has to do with one node.
OneHome(j) == \A n \in Nodes : \A m \in Nodes : At(j, n) /\ At(j, m) => n = m

\* Until RunJob has sent it, a job is in the job table only, for the node whose
\* stream it will be sent on.
SendsFirst(j) ==
  via[j] # None =>
    job[j] # None /\ owner[via[j]] \in {job[j].node, None} /\ Untraced(j)

\* A job is sent once, and its agent says nothing of it before it is there.
SentOnce(j) ==
  \A s \in Streams : \A i \in DOMAIN down[s] : IsRun(down[s][i], j) =>
    /\ \A t \in Streams : \A k \in DOMAIN down[t] : IsRun(down[t][k], j) => t = s /\ k = i
    /\ \A n \in Nodes : run[n][j] = "none"
    /\ \A t \in Streams : ~UpdateFrame(j, t)

\* The job does not run and will not.
Spent(j) ==
  /\ via[j] = None
  /\ \A s \in Streams : ~RunFrame(j, s)
  /\ \A n \in Nodes : run[n][j] # "live"

\* The states that end a job, as an agent reports them.
Terminal(state) == state \in Outcomes \cup {"FAILED"}

\* Nothing is said of a job after its outcome, but on a stream its agent has
\* left.
LastWord(j) ==
  \A s \in Streams : \A i \in DOMAIN up[s] :
    IsUpdate(up[s][i], j) /\ Terminal(up[s][i].state) =>
      /\ Spent(j)
      /\ \A k \in DOMAIN up[s] : k > i => ~IsUpdate(up[s][k], j)
      /\ \A n \in Nodes : session[n] \notin {None, s} => ~UpdateFrame(j, session[n])

\* Where job j is: at one node, sent there once, and reported on until its
\* outcome.
Trace(j) == UnmintedNowhere(j) /\ OneHome(j) /\ SendsFirst(j) /\ SentOnce(j) /\ LastWord(j)

\* Steps that bring nothing new about job j, except that an update may bring it
\* back to the job table.
Calm(j) ==
  /\ j \in minted => j \in minted'
  /\ via'[j] # None => /\ via'[j] = via[j] /\ (job[j] # None => job'[j] # None)
                       /\ owner'[via[j]] \in {owner[via[j]], None}
  /\ job'[j] # None => IF job[j] # None THEN job'[j].node = job[j].node
                       ELSE At(j, job'[j].node)
  /\ \A n \in Nodes : /\ run'[n][j] # "none" => run[n][j] # "none"
                      /\ run'[n][j] = "live" => run[n][j] = "live"
  /\ \A s \in Streams : up'[s] = <<>> \/ owner'[s] = owner[s]
  /\ \A n \in Nodes : \/ session'[n] \in {session[n], None}
                      \/ up'[session'[n]] = <<>> /\ down'[session'[n]] = <<>>

\* What they leave was there before.
LEMMA CalmLeaves ==
  ASSUME TypesOK, TypesOK', NEW j \in JobIds, Calm(j), UpKept(j, {}), DownKept(j)
  PROVE  /\ \A s \in Streams : UpdateFrame(j, s)' => UpdateFrame(j, s)
         /\ \A s \in Streams : RunFrame(j, s)' => RunFrame(j, s)
         /\ \A n \in Nodes : session'[n] # None /\ UpdateFrame(j, session[n])' =>
              session'[n] = session[n] /\ UpdateFrame(j, session[n])
         /\ \A n \in Nodes : session'[n] # None /\ RunFrame(j, session[n])' =>
              session'[n] = session[n] /\ RunFrame(j, session[n])
         /\ \A n \in Nodes : At(j, n)' => At(j, n)
         /\ Untraced(j) => Untraced(j)'
         /\ Spent(j) => Spent(j)'
<1>0. FramesOK /\ FramesOK'
  BY DEF TypesOK
<1>1. ASSUME NEW s \in Streams, \E i \in DOMAIN up'[s] : IsUpdate(up'[s][i], j)
      PROVE  \E i \in DOMAIN up[s] : IsUpdate(up[s][i], j)
  BY <1>0, <1>1, KeptSays
<1>2. ASSUME NEW s \in Streams, \E i \in DOMAIN down'[s] : IsRun(down'[s][i], j)
      PROVE  \E i \in DOMAIN down[s] : IsRun(down[s][i], j)
  BY <1>0, <1>2, KeptSays
<1>3. \A n \in Nodes : session'[n] \in Streams \cup {None}
  BY <1>0 DEF FramesOK, ChanTypeOK
<1>4. DOMAIN <<>> = {}
  OBVIOUS
<1>5. ASSUME NEW n \in Nodes, session'[n] # None,
             \E i \in DOMAIN up'[session'[n]] : IsUpdate(up'[session'[n]][i], j)
      PROVE  session'[n] = session[n] /\ \E i \in DOMAIN up[session[n]] : IsUpdate(up[session[n]][i], j)
  <2>1. session'[n] = session[n]
    BY <1>4, <1>5 DEF Calm
  <2>2. QED
    BY <1>1, <1>3, <1>5, <2>1
<1>6. ASSUME NEW n \in Nodes, session'[n] # None,
             \E i \in DOMAIN down'[session'[n]] : IsRun(down'[session'[n]][i], j)
      PROVE  session'[n] = session[n] /\ \E i \in DOMAIN down[session[n]] : IsRun(down[session[n]][i], j)
  <2>1. session'[n] = session[n]
    BY <1>4, <1>6 DEF Calm
  <2>2. QED
    BY <1>2, <1>3, <1>6, <2>1
<1>7. ASSUME NEW n \in Nodes,
             \/ job'[j] # None /\ job'[j].node = n
             \/ run'[n][j] # "none"
             \/ \E s \in Streams : owner'[s] = n /\ \E i \in DOMAIN up'[s] : IsUpdate(up'[s][i], j)
             \/ session'[n] # None /\ \E i \in DOMAIN down'[session'[n]] :
                                        IsRun(down'[session'[n]][i], j)
      PROVE  At(j, n)
  <2>1. CASE job'[j] # None /\ job'[j].node = n
    BY <2>1 DEF Calm, At
  <2>2. CASE run'[n][j] # "none"
    BY <2>2 DEF Calm, At
  <2>3. ASSUME NEW s \in Streams, owner'[s] = n, \E i \in DOMAIN up'[s] : IsUpdate(up'[s][i], j)
        PROVE  At(j, n)
    <3>1. owner[s] = n
      BY <1>4, <2>3 DEF Calm
    <3>2. QED
      BY <1>1, <2>3, <3>1 DEF At, UpdateFrame
  <2>4. CASE session'[n] # None /\ \E i \in DOMAIN down'[session'[n]] :
                                        IsRun(down'[session'[n]][i], j)
    BY <1>6, <2>4 DEF At, RunFrame
  <2>5. QED
    BY <1>7, <2>1, <2>2, <2>3, <2>4
<1>8. Untraced(j) => Untraced(j)'
  BY <1>1, <1>2 DEF Untraced, UpdateFrame, RunFrame, Calm
<1>9. Spent(j) => Spent(j)'
  BY <1>2 DEF Spent, RunFrame, Calm
<1>10. QED
  BY <1>1, <1>2, <1>5, <1>6, <1>7, <1>8, <1>9 DEF UpdateFrame, RunFrame, At

\* A step that brings nothing new about job j keeps its trace.
LEMMA CalmTrace ==
  ASSUME TypesOK, TypesOK', NEW j \in JobIds, Calm(j), UpKept(j, {}), DownKept(j), Trace(j)
  PROVE  Trace(j)'
<1>0. FramesOK /\ FramesOK' /\ SchedOK'
  BY DEF TypesOK
<1>1. UnmintedNowhere(j)'
  <2>1. ASSUME j \notin minted' PROVE via'[j] = None /\ job'[j] = None /\ Untraced(j)'
    <3>1. j \notin minted /\ via[j] = None /\ job[j] = None /\ Untraced(j)
      BY <2>1 DEF Trace, UnmintedNowhere, Calm
    <3>2. \A n \in Nodes : ~At(j, n)
      <4>1. \A n \in Nodes : session[n] # None => session[n] \in Streams
        BY <1>0 DEF FramesOK, ChanTypeOK
      <4>2. QED
        BY <3>1, <4>1 DEF At, Untraced
    <3>3. job'[j] # None => job'[j].node \in Nodes
      BY <1>0, JobFields DEF SchedOK
    <3>4. QED
      BY ZenonT(30), <3>1, <3>2, <3>3, CalmLeaves DEF Calm
  <2>2. QED
    BY <2>1 DEF UnmintedNowhere
<1>2. OneHome(j)'
  <2>1. \A n \in Nodes : \A m \in Nodes : At(j, n)' /\ At(j, m)' => n = m
    BY CalmLeaves DEF Trace, OneHome
  <2>2. QED
    BY <2>1 DEF OneHome
<1>3. SendsFirst(j)'
  <2>1. ASSUME via'[j] # None
        PROVE  job'[j] # None /\ owner'[via'[j]] \in {job'[j].node, None} /\ Untraced(j)'
    <3>1. via'[j] = via[j] /\ owner'[via[j]] \in {owner[via[j]], None}
      BY <2>1 DEF Calm
    <3>2. job[j] # None /\ owner[via[j]] \in {job[j].node, None} /\ Untraced(j)
      BY <2>1, <3>1 DEF Trace, SendsFirst
    <3>3. job'[j] # None /\ job'[j].node = job[j].node
      BY <2>1, <3>1, <3>2 DEF Calm
    <3>4. QED
      BY <3>1, <3>2, <3>3, CalmLeaves
  <2>2. QED
    BY <2>1 DEF SendsFirst
<1>4. SentOnce(j)'
  <2>1. ASSUME NEW s \in Streams, NEW i \in DOMAIN down'[s], IsRun(down'[s][i], j)
        PROVE  /\ \A t \in Streams : \A k \in DOMAIN down'[t] : IsRun(down'[t][k], j) => t = s /\ k = i
               /\ \A n \in Nodes : run'[n][j] = "none"
               /\ \A t \in Streams : ~UpdateFrame(j, t)'
    <3>1. PICK d \in Nat :
            /\ \A k \in DOMAIN down'[s] : k \in Nat
            /\ \A k \in DOMAIN down'[s] : IsRun(down'[s][k], j) =>
                 k + d \in DOMAIN down[s] /\ IsRun(down[s][k + d], j)
      BY ZenonT(30), <1>0, KeptSays
    <3>2. /\ \A t \in Streams : \A k \in DOMAIN down[t] : IsRun(down[t][k], j) => t = s /\ k = i + d
          /\ \A n \in Nodes : run[n][j] = "none"
          /\ \A t \in Streams : ~UpdateFrame(j, t)
      BY ZenonT(30), <2>1, <3>1 DEF Trace, SentOnce
    <3>3. ASSUME NEW t \in Streams, NEW k \in DOMAIN down'[t], IsRun(down'[t][k], j)
          PROVE  t = s /\ k = i
      <4>1. t = s
        BY <1>0, <3>2, <3>3, KeptSays
      <4>2. k + d = i + d /\ k \in Nat /\ i \in Nat
        BY <2>1, <3>1, <3>2, <3>3, <4>1
      <4>3. QED
        BY <4>1, <4>2
    <3>4. QED
      BY ZenonT(30), <3>2, <3>3, CalmLeaves DEF Calm
  <2>2. QED
    BY <2>1 DEF SentOnce
<1>5. LastWord(j)'
  <2>1. ASSUME NEW s \in Streams, NEW i \in DOMAIN up'[s], IsUpdate(up'[s][i], j),
               Terminal(up'[s][i].state)
        PROVE  /\ Spent(j)'
               /\ \A k \in DOMAIN up'[s] : k > i => ~IsUpdate(up'[s][k], j)
               /\ \A n \in Nodes : session'[n] \notin {None, s} => ~UpdateFrame(j, session[n])'
    <3>1. PICK d \in Nat :
            /\ \A k \in DOMAIN up'[s] : k \in Nat
            /\ \A k \in DOMAIN up'[s] : IsUpdate(up'[s][k], j) =>
                 /\ k + d \in DOMAIN up[s] /\ IsUpdate(up[s][k + d], j)
                 /\ up'[s][k].state = up[s][k + d].state
      BY ZenonT(30), <1>0, UpdatesKept
    <3>2. /\ Spent(j)
          /\ \A k \in DOMAIN up[s] : k > i + d => ~IsUpdate(up[s][k], j)
          /\ \A n \in Nodes : session[n] \notin {None, s} => ~UpdateFrame(j, session[n])
      BY <2>1, <3>1 DEF Trace, LastWord
    <3>3. \A k \in DOMAIN up'[s] : k > i => k + d > i + d
      <4>1. \A a, b, c \in Nat : a > b => a + c > b + c
        OBVIOUS
      <4>2. i \in Nat /\ d \in Nat
        BY ZenonT(30), <2>1, <3>1
      <4>3. QED
        BY ZenonT(30), <3>1, <4>1, <4>2
    <3>4. QED
      BY ZenonT(30), <3>1, <3>2, <3>3, CalmLeaves
  <2>2. QED
    BY <2>1 DEF LastWord
<1>6. QED
  BY <1>1, <1>2, <1>3, <1>4, <1>5 DEF Trace

\* The entry of job j is not older than before.
NoOlder(j) == job'[j] # None => job'[j].age = 0 \/ (job[j] # None /\ job'[j].age = job[j].age)

\* The steps that are not about job j; only those of time and of the heartbeat
\* make its entry older or send a beat.
Undisturbed(j) ==
  /\ Calm(j) /\ UpKept(j, {}) /\ DownKept(j)
  /\ (UpKept(j, {"beat"}) /\ NoOlder(j)) \/ TimePasses \/ \E n \in Nodes : Beat(n)

\* The steps that are about job j.
Dispatched(j) == (\E n \in Nodes : RunJob(j, n)) \/ SendJob(j, TRUE)
Taken(j) == \E n \in Nodes : StartJob(n) /\ NextFrame(n).job = j
Reported(j) ==
  \E n \in Nodes : \/ \E state \in LiveKinds : Report(n, j, state)
                   \/ \E state \in Outcomes : Finish(n, j, state)

\* Which steps are about job j, one lemma for each group of steps.
LEMMA StillCalm ==
  ASSUME NEW j, UNCHANGED <<minted, via, job, run, owner, session>>
  PROVE  Calm(j) /\ NoOlder(j)
BY DEF Calm, NoOlder

LEMMA SchedulingCalm ==
  ASSUME TypesOK, NEW j \in JobIds, Scheduling
  PROVE  Undisturbed(j) \/ Dispatched(j)
<1>0. FramesOK /\ SchedOK
  BY DEF TypesOK
<1>1. ASSUME NEW k \in JobIds, NEW n \in Nodes, RunJob(k, n), k # j PROVE Undisturbed(j)
  <2>1. UpKept(j, {}) /\ UpKept(j, {"beat"}) /\ DownKept(j)
    BY ZenonT(30), <1>0, <1>1, RestSteps, RestKept DEF RunJob
  <2>2. via'[j] = via[j] /\ job'[j] = job[j] /\ (j \in minted => j \in minted')
    BY <1>0, <1>1 DEF RunJob, SchedOK
  <2>3. UNCHANGED <<run, owner, session>>
    BY ZenonT(30), <1>1 DEF RunJob, hostVars, regVars, chanVars
  <2>4. QED
    BY <2>1, <2>2, <2>3 DEF Undisturbed, Calm, NoOlder
<1>2. ASSUME NEW k \in JobIds, NEW ok \in BOOLEAN, SendJob(k, ok), k # j \/ ~ok
      PROVE  Undisturbed(j)
  <2>1. UpKept(j, {}) /\ UpKept(j, {"beat"})
    BY <1>0, <1>2, RestSteps, RestKept
  <2>2. DownKept(j)
    <3>1. CASE ok
      <4>1. Put(via[k], [kind |-> "run", job |-> k, late |-> FALSE]) /\ via[k] \in Streams
        BY <1>0, <1>2, <3>1 DEF SendJob, SchedOK
      <4>2. QED
        BY <1>0, <1>2, <3>1, <4>1, OthersKept
    <3>2. CASE ~ok
      BY <1>0, <1>2, <3>2, FramesSplit, DownSame, RestKept DEF SendJob
    <3>3. QED
      BY <3>1, <3>2
  <2>3. /\ minted' = minted
        /\ (via'[j] = via[j] /\ job'[j] = job[j]) \/ (via'[j] = None /\ job'[j] = None)
    BY <1>0, <1>2 DEF SendJob, SchedOK
  <2>4. UNCHANGED <<run, owner, session>>
    BY <1>2 DEF SendJob, hostVars, regVars
  <2>5. QED
    BY <2>1, <2>2, <2>3, <2>4 DEF Undisturbed, Calm, NoOlder
<1>3. QED
  BY ZenonT(30), <1>1, <1>2 DEF Scheduling, Dispatched

LEMMA HandlerCalm ==
  ASSUME RegIInv, TypesOK, NEW j \in JobIds, NEW s \in Streams, Handler(s)
  PROVE  Undisturbed(j)
<1>0. FramesOK /\ SchedOK /\ RegTypeOK
  BY DEF TypesOK, RegIInv
<1>1. CASE AckOut(s)
  <2>1. UpKept(j, {}) /\ UpKept(j, {"beat"}) /\ DownKept(j)
    BY <1>0, <1>1, RestSteps, RestKept
  <2>2. UNCHANGED <<minted, via, job, run, owner, session>>
    BY <1>1 DEF AckOut, SendAck, schedVars, hostVars
  <2>3. QED
    BY <2>1, <2>2, StillCalm DEF Undisturbed
<1>2. CASE RecvBeat(s)
  <2>1. UpKept(j, {}) /\ UpKept(j, {"beat"}) /\ DownKept(j)
    BY <1>0, <1>2, RestSteps, RestKept
  <2>2. UNCHANGED <<minted, via, run, owner, session>>
    BY ZenonT(30), <1>2 DEF RecvBeat, Heartbeat, streamVars, hostVars
  <2>3. job'[j] = job[j] \/ (job[j] # None /\ job'[j] = [job[j] EXCEPT !.state = "FAILED", !.age = 0])
    BY ZenonT(30), <1>2 DEF RecvBeat, GivenUp
  <2>4. \/ job'[j] = job[j]
        \/ job[j] # None /\ job'[j] # None /\ job'[j].node = job[j].node /\ job'[j].age = 0
    <3>1. CASE job[j] # None /\ job'[j] = [job[j] EXCEPT !.state = "FAILED", !.age = 0]
      <4>1. job[j] \in Job
        BY <1>0, <3>1 DEF SchedOK
      <4>2. job'[j] \in Job /\ job'[j].node = job[j].node /\ job'[j].age = 0
        BY <3>1, <4>1, FailedEntry, ZenonT(30)
      <4>3. QED
        BY <3>1, <4>2, NoneIsNoJob
    <3>2. QED
      BY <2>3, <3>1
  <2>5. QED
    BY <2>1, <2>2, <2>4 DEF Undisturbed, Calm, NoOlder
<1>3. CASE RecvUpdate(s)
  <2>1. UpKept(j, {}) /\ UpKept(j, {"beat"}) /\ DownKept(j)
    BY <1>0, <1>3, RestSteps, RestKept
  <2>2. UNCHANGED <<minted, via, run, owner, session>>
    BY <1>3 DEF RecvUpdate, regVars, hostVars
  <2>3. CASE Incoming(s).job # j
    <3>1. job'[j] = job[j]
      BY <1>0, <1>3, <2>3 DEF RecvUpdate, SchedOK
    <3>2. QED
      BY <2>1, <2>2, <3>1 DEF Undisturbed, Calm, NoOlder
  <2>4. CASE Incoming(s).job = j
    <3>1. job'[j] = Updated(j, owner[s], Incoming(s).state)
      BY <1>0, <1>3, <2>4 DEF RecvUpdate, SchedOK
    <3>2. owner[s] \in Nodes /\ Incoming(s).state \in LiveKinds \cup Outcomes \cup {"FAILED"}
      BY <1>0, <1>3, OwnerNode, HeadFrame DEF RecvUpdate
    <3>3. /\ job'[j] \in Job /\ job'[j].age = 0
          /\ job'[j].node = IF job[j] = None THEN owner[s] ELSE job[j].node
      BY SMTT(60), <1>0, <3>1, <3>2, UpdatedEntry
    <3>4. At(j, owner[s])
      <4>1. up[s] \in Seq(UpFrame) /\ up[s] # <<>>
        BY ZenonT(30), <1>0, <1>3 DEF RecvUpdate, Arrived, FramesOK, ChanTypeOK
      <4>2. 1 \in DOMAIN up[s] /\ Incoming(s) = up[s][1]
        <5>1. DOMAIN up[s] = 1..Len(up[s]) /\ Len(up[s]) \in Nat \ {0}
          BY <4>1, LenProperties, EmptySeq, ZenonT(30)
        <5>2. QED
          BY <5>1 DEF Incoming
      <4>3. IsUpdate(up[s][1], j)
        BY <1>3, <2>4, <4>2 DEF RecvUpdate, IsUpdate
      <4>4. QED
        BY <4>2, <4>3 DEF At, UpdateFrame
    <3>5. Calm(j)
      BY <2>2, <3>3, <3>4, NoneIsNoJob DEF Calm
    <3>6. QED
      BY <2>1, <3>3, <3>5 DEF Undisturbed, NoOlder
  <2>5. QED
    BY <2>3, <2>4
<1>4. CASE HandlerReturns(s)
  <2>1. UpKept(j, {}) /\ UpKept(j, {"beat"}) /\ DownKept(j)
    BY <1>0, <1>4, RestSteps, RestKept
  <2>2. /\ UNCHANGED <<minted, via, job, run, session>>
        /\ owner' = [owner EXCEPT ![s] = None] /\ up' = [up EXCEPT ![s] = <<>>]
    BY <1>4 DEF HandlerReturns, AckFails, StreamEnds, Return, Unread, schedVars, hostVars
  <2>3. \A t \in Streams : IF t = s THEN owner'[t] = None /\ up'[t] = <<>> ELSE owner'[t] = owner[t]
    BY <1>0, <2>2 DEF RegTypeOK, FramesOK, ChanTypeOK
  <2>4. via[j] # None => via[j] \in Streams
    BY <1>0 DEF SchedOK
  <2>5. QED
    BY <2>1, <2>2, <2>3, <2>4 DEF Undisturbed, Calm, NoOlder
<1>5. QED
  BY <1>1, <1>2, <1>3, <1>4 DEF Handler

LEMMA AgentsCalm ==
  ASSUME RegTypeOK, TypesOK, TypesOK', AckedOnce, NEW j \in JobIds, Agents
  PROVE  Undisturbed(j) \/ Taken(j) \/ Reported(j)
<1>0. FramesOK /\ SchedOK /\ HostsOK
  BY DEF TypesOK
<1>1. ASSUME NEW n \in Nodes, Connect(n) PROVE Undisturbed(j)
  <2>1. UpKept(j, {}) /\ UpKept(j, {"beat"}) /\ DownKept(j)
    BY <1>0, <1>1, RestSteps, RestKept
  <2>2. PICK s \in Streams :
          /\ Free(s) /\ (\A k \in JobIds : via[k] # s) /\ Dial(s, n)
          /\ UNCHANGED <<schedVars, hostVars, faults>>
    BY <1>1, ConnectSlot, ZenonT(30)
  <2>3. /\ UNCHANGED <<minted, via, job, run>> /\ via[j] # s
        /\ owner' = [owner EXCEPT ![s] = n] /\ session' = [session EXCEPT ![n] = s]
        /\ up' = [up EXCEPT ![s] = <<>>] /\ down' = [down EXCEPT ![s] = <<>>]
    BY ZenonT(30), <2>2 DEF Dial, Register, schedVars, hostVars
  <2>4. /\ \A t \in Streams : IF t = s THEN up'[t] = <<>> /\ down'[t] = <<>> ELSE owner'[t] = owner[t]
        /\ \A m \in Nodes : IF m = n THEN session'[m] = s ELSE session'[m] = session[m]
    BY <1>0, <2>3 DEF RegTypeOK, FramesOK, ChanTypeOK
  <2>5. via[j] # None => via[j] \in Streams
    BY <1>0 DEF SchedOK
  <2>6. QED
    BY ZenonT(30), <2>1, <2>3, <2>4, <2>5 DEF Undisturbed, Calm, NoOlder
<1>2. ASSUME NEW n \in Nodes, AwaitAck(n) PROVE Undisturbed(j)
  <2>1. UpKept(j, {}) /\ UpKept(j, {"beat"}) /\ DownKept(j)
    BY <1>0, <1>2, RestSteps, RestKept
  <2>2. UNCHANGED <<minted, via, job, run, owner, session>>
    BY ZenonT(30), <1>2 DEF AwaitAck, FirstFrame, AwaitBroken, schedVars, hostVars, regVars
  <2>3. QED
    BY <2>1, <2>2, StillCalm DEF Undisturbed
<1>3. ASSUME NEW n \in Nodes, Reconnect(n) PROVE Undisturbed(j)
  <2>1. UpKept(j, {}) /\ UpKept(j, {"beat"}) /\ DownKept(j)
    BY <1>0, <1>3, RestSteps, RestKept
  <2>2. UNCHANGED <<minted, via, job, run, owner>> /\ session' = [session EXCEPT ![n] = None]
    BY <1>3 DEF Reconnect, SessionEnds, schedVars, hostVars, regVars
  <2>3. \A m \in Nodes : session'[m] \in {session[m], None}
    BY <1>0, <2>2 DEF FramesOK, ChanTypeOK
  <2>4. QED
    BY ZenonT(30), <2>1, <2>2, <2>3 DEF Undisturbed, Calm, NoOlder
<1>4. ASSUME NEW n \in Nodes, StartJob(n), NextFrame(n).job # j PROVE Undisturbed(j)
  <2> DEFINE k == NextFrame(n).job
  <2>1. DownKept(j)
    BY <1>0, <1>4, RestSteps, RestKept
  <2>2. up' = up \/ \E state : Emit(n, JobUpdate(k, state))
    BY <1>4 DEF StartJob
  <2>3. k # j /\ k \in JobIds
    BY <1>0, <1>4, NextIsRun DEF StartJob
  <2>4. run' = run \/ run' = [run EXCEPT ![n][k] = IF @ = "none" THEN "live" ELSE @]
    BY <1>4 DEF StartJob
  <2> HIDE DEF k
  <2>5. UpKept(j, {"beat"})
    BY ZenonT(30), <1>0, <2>2, <2>3, OthersKept, FramesSplit, UpSame, RestKept
  <2>6. \A m \in Nodes : run'[m][j] = run[m][j]
    BY <1>0, <2>3, <2>4 DEF HostsOK
  <2>7. UNCHANGED <<minted, via, job, owner, session>>
    BY <1>4 DEF StartJob, schedVars, regVars
  <2>8. QED
    BY ZenonT(30), <2>1, <2>5, <2>6, <2>7 DEF Undisturbed, Calm, NoOlder, UpKept
<1>5. ASSUME NEW n \in Nodes, NEW k \in JobIds, NEW state, Report(n, k, state) \/ Finish(n, k, state), k # j
      PROVE  Undisturbed(j)
  <2>1. DownKept(j)
    BY <1>0, <1>5, RestSteps, RestKept
  <2>2. Emit(n, JobUpdate(k, state))
    BY <1>5 DEF Report, Finish
  <2>3. UpKept(j, {"beat"})
    BY ZenonT(30), <1>0, <1>5, <2>2, OthersKept
  <2>4. run' = run \/ run' = [run EXCEPT ![n][k] = "over"]
    BY <1>5 DEF Report, Finish, hostVars
  <2>5. \A m \in Nodes : run'[m][j] = run[m][j]
    BY <1>0, <1>5, <2>4 DEF HostsOK
  <2>6. UNCHANGED <<minted, via, job, owner, session>>
    BY <1>5 DEF Report, Finish, schedVars, regVars
  <2>7. QED
    BY ZenonT(30), <2>1, <2>3, <2>5, <2>6 DEF Undisturbed, Calm, NoOlder, UpKept
<1>6. ASSUME NEW n \in Nodes, NEW k \in JobIds, RemoveJob(n, k) PROVE Undisturbed(j)
  <2>1. UpKept(j, {}) /\ UpKept(j, {"beat"}) /\ DownKept(j)
    BY <1>0, <1>6, RestSteps, RestKept DEF RemoveJob
  <2>2. UNCHANGED <<minted, via, job, owner, session>> /\ run' = [run EXCEPT ![n][k] = "none"]
    BY <1>6 DEF RemoveJob, schedVars, regVars, chanVars
  <2>3. \A m \in Nodes : run'[m][j] \in {run[m][j], "none"}
    BY <1>0, <2>2 DEF HostsOK
  <2>4. QED
    BY <2>1, <2>2, <2>3 DEF Undisturbed, Calm, NoOlder
<1>7. ASSUME NEW n \in Nodes, Beat(n) PROVE Undisturbed(j)
  <2>1. UpKept(j, {}) /\ DownKept(j)
    BY <1>0, <1>7, RestSteps, RestKept
  <2>2. UNCHANGED <<minted, via, job, run, owner, session>>
    BY ZenonT(30), <1>7 DEF Beat, schedVars, hostVars, regVars
  <2>3. QED
    BY <1>7, <2>1, <2>2, StillCalm DEF Undisturbed
<1>8. QED
  BY <1>1, <1>2, <1>3, <1>4, <1>5, <1>6, <1>7 DEF Agents, RunOnce, Taken, Reported

LEMMA OthersCalm ==
  ASSUME RegTypeOK, TypesOK, NEW j \in JobIds,
         Faults \/ ReaperPass \/ TimePasses \/ UNCHANGED jobVars
  PROVE  Undisturbed(j)
<1>0. FramesOK /\ SchedOK /\ HostsOK
  BY DEF TypesOK
<1>1. ASSUME UNCHANGED <<chanVars, schedVars, hostVars, owner>> PROVE Undisturbed(j)
  <2>1. UpKept(j, {}) /\ UpKept(j, {"beat"}) /\ DownKept(j)
    BY <1>0, <1>1, RestSteps, RestKept
  <2>2. UNCHANGED <<minted, via, job, run, owner, session>>
    BY <1>1 DEF schedVars, hostVars, chanVars
  <2>3. QED
    BY <2>1, <2>2, StillCalm DEF Undisturbed
<1>2. CASE ReaperPass \/ UNCHANGED jobVars \/ \E s \in Streams : LinkFailure(s)
  BY <1>1, <1>2 DEF ReaperPass, Reap, streamVars, jobVars, regVars, LinkFailure, LinkBreaks
<1>3. ASSUME NEW n \in Nodes, AgentRestart(n) PROVE Undisturbed(j)
  <2>1. UpKept(j, {}) /\ UpKept(j, {"beat"}) /\ DownKept(j)
    BY <1>0, <1>3, RestSteps, RestKept
  <2>2. /\ UNCHANGED <<minted, via, job, owner>> /\ session' = [session EXCEPT ![n] = None]
        /\ run' = [run EXCEPT ![n] = [k \in JobIds |-> "none"]]
    BY <1>3 DEF AgentRestart, AgentDies, schedVars
  <2>3. /\ \A m \in Nodes : session'[m] \in {session[m], None}
        /\ \A m \in Nodes : run'[m][j] \in {run[m][j], "none"}
    BY <1>0, <2>2 DEF FramesOK, ChanTypeOK, HostsOK
  <2>4. QED
    BY ZenonT(30), <2>1, <2>2, <2>3 DEF Undisturbed, Calm, NoOlder
<1>4. CASE CoordinatorRestart
  <2>1. UpKept(j, {}) /\ UpKept(j, {"beat"}) /\ DownKept(j)
    BY <1>0, <1>4, RestSteps, RestKept
  <2>2. /\ UNCHANGED <<minted, run, session>> /\ via'[j] = None /\ job'[j] = None
        /\ \A s \in Streams : up'[s] = <<>>
    BY <1>4 DEF CoordinatorRestart, hostVars
  <2>3. QED
    BY <2>1, <2>2 DEF Undisturbed, Calm, NoOlder
<1>5. CASE TimePasses
  <2>1. UpKept(j, {}) /\ DownKept(j)
    BY <1>0, <1>5, RestSteps, RestKept
  <2>2. UNCHANGED <<minted, via, run, owner, session>>
    BY <1>5 DEF TimePasses, Tick, streamVars, hostVars
  <2>3. job'[j] = IF job[j] = None THEN None ELSE [job[j] EXCEPT !.age = Older(@, Grace - 1)]
    BY <1>5 DEF TimePasses
  <2>4. (job'[j] # None <=> job[j] # None) /\ (job[j] # None => job'[j].node = job[j].node)
    BY <1>0, <2>3, OlderEntry, NoneIsNoJob DEF SchedOK
  <2>5. QED
    BY ZenonT(30), <1>5, <2>1, <2>2, <2>4 DEF Undisturbed, Calm
<1>6. QED
  BY <1>2, <1>3, <1>4, <1>5 DEF Faults

\* Every step is about job j in one of three ways, or leaves it alone.
LEMMA JobStepCalm ==
  ASSUME RegIInv, TypesOK, TypesOK', AckedOnce, NEW j \in JobIds, [JobNext]_jobVars
  PROVE  Undisturbed(j) \/ Dispatched(j) \/ Taken(j) \/ Reported(j)
<1>1. RegTypeOK
  BY DEF RegIInv
<1>2. QED
  BY <1>1, SchedulingCalm, HandlerCalm, AgentsCalm, OthersCalm DEF JobNext, Handling

\* A job that has no trace, but for an entry and a send under way.
LEMMA UntracedTrace ==
  ASSUME NEW j \in JobIds, FramesOK', Untraced(j)', j \in minted',
         via'[j] # None => job'[j] # None /\ owner'[via'[j]] \in {job'[j].node, None}
  PROVE  Trace(j)'
<1>1. /\ \A s \in Streams : ~\E i \in DOMAIN down'[s] : IsRun(down'[s][i], j)
      /\ \A s \in Streams : ~\E i \in DOMAIN up'[s] : IsUpdate(up'[s][i], j)
      /\ \A n \in Nodes : run'[n][j] = "none"
  BY DEF Untraced, RunFrame, UpdateFrame
<1>2. \A n \in Nodes : session'[n] # None => session'[n] \in Streams
  BY DEF FramesOK, ChanTypeOK
<1>3. \A n \in Nodes : At(j, n)' => job'[j].node = n
  BY ZenonT(30), <1>1, <1>2 DEF At, RunFrame, UpdateFrame
<1>4. OneHome(j)'
  BY <1>3 DEF OneHome
<1>5. SentOnce(j)' /\ LastWord(j)'
  BY ZenonT(30), <1>1 DEF SentOnce, LastWord
<1>6. UnmintedNowhere(j)' /\ SendsFirst(j)'
  BY DEF UnmintedNowhere, SendsFirst
<1>7. QED
  BY <1>4, <1>5, <1>6 DEF Trace

\* Who reads a stream whose transport works is its owner.
LEMMA ReaderOwns ==
  ASSUME StreamsOwned, NEW n \in Nodes, NEW s \in Streams, session[n] = s, link[s] \/ up[s] # <<>>
  PROVE  owner[s] = n
BY RegistryAssumption DEF StreamsOwned

LEMMA PendingEntry ==
  ASSUME NEW n \in Nodes, NEW e, e = [node |-> n, state |-> "PENDING", age |-> 0]
  PROVE  e # None /\ e.node = n
<1>1. 0 \in 0..Grace /\ "PENDING" \in JobStates
  BY JobsAssumption DEF JobStates
<1>2. QED
  BY <1>1, JobMade, NoneIsNoJob

\* RunJob's new job is sent to one node, once.
LEMMA DispatchedTrace ==
  ASSUME RegIInv, TypesOK, TypesOK', StreamsOwned, NEW j \in JobIds, Trace(j), Dispatched(j)
  PROVE  Trace(j)'
<1>0. /\ FramesOK /\ FramesOK' /\ SchedOK /\ HandleSound
      /\ session \in [Nodes -> Streams \cup {None}] /\ down \in [Streams -> Seq(DownFrame)]
  BY DEF TypesOK, FramesOK, ChanTypeOK, RegIInv
<1>1. ASSUME NEW n \in Nodes, RunJob(j, n) PROVE Trace(j)'
  <2>1. Untraced(j)
    BY <1>1 DEF RunJob, Trace, UnmintedNowhere
  <2>2. UNCHANGED <<up, down, run, owner>>
    BY <1>1 DEF RunJob, regVars, chanVars, hostVars
  <2>3. Untraced(j)'
    BY <2>1, <2>2 DEF Untraced, RunFrame, UpdateFrame
  <2>4. /\ j \in minted' /\ via'[j] = send[n] /\ send[n] # None
        /\ job'[j] = [node |-> n, state |-> "PENDING", age |-> 0]
    BY ZenonT(30), <1>0, <1>1 DEF RunJob, SchedOK
  <2>5. job'[j] # None /\ job'[j].node = n
    BY ZenonT(30), <2>4, PendingEntry
  <2>6. owner'[via'[j]] = n
    BY <1>0, <2>2, <2>4 DEF HandleSound
  <2>7. QED
    BY ZenonT(30), <1>0, <2>3, <2>4, <2>5, <2>6, UntracedTrace
<1>2. ASSUME SendJob(j, TRUE) PROVE Trace(j)'
  <2> DEFINE t == via[j]
             f == [kind |-> "run", job |-> j, late |-> FALSE]
  <2>1. /\ job[j] # None /\ owner[t] \in {job[j].node, None} /\ Untraced(j)
        /\ t \in Streams
    BY ZenonT(30), <1>0, <1>2 DEF SendJob, Trace, SendsFirst, SchedOK
  <2>2. j \in minted
    BY <1>2 DEF SendJob, Trace, UnmintedNowhere
  <2>3. /\ via'[j] = None /\ job' = job /\ minted' = minted
        /\ UNCHANGED <<up, run, owner, session>>
        /\ down' = IF Heard(t) THEN [down EXCEPT ![t] = Append(@, f)] ELSE down
    BY <1>0, <1>2 DEF SendJob, Put, hostVars, regVars, SchedOK
  <2>4. IsRun(f, j)
    BY DEF IsRun
  <2> HIDE DEF t, f
  <2>5. CASE ~Heard(t)
    <3>1. Untraced(j)'
      BY ZenonT(30), <2>1, <2>3, <2>5 DEF Untraced, RunFrame, UpdateFrame
    <3>2. QED
      BY <1>0, <2>2, <2>3, <3>1, UntracedTrace
  <2>6. CASE Heard(t)
    <3>1. link[t] /\ \E n \in Nodes : session[n] = t
      BY <2>6 DEF Heard
    <3>2. \A n \in Nodes : session[n] = t => job[j].node = n
      BY <2>1, <3>1, ReaderOwns, RegistryAssumption
    <3>3. /\ \A s \in Streams : ~\E i \in DOMAIN down[s] : IsRun(down[s][i], j)
          /\ \A s \in Streams : ~\E i \in DOMAIN up[s] : IsUpdate(up[s][i], j)
          /\ \A n \in Nodes : run[n][j] = "none"
      BY ZenonT(30), <2>1 DEF Untraced, RunFrame, UpdateFrame
    <3>4. down'[t] = Append(down[t], f) /\ \A s \in Streams \ {t} : down'[s] = down[s]
      BY <1>0, <2>1, <2>3, <2>6
    <3>5. \A s \in Streams : \A i \in DOMAIN down'[s] :
            IsRun(down'[s][i], j) => s = t /\ i = Len(down[t]) + 1
      <4>1. down[t] \in Seq(DownFrame)
        BY <1>0, <2>1
      <4>2. /\ Len(down[t]) \in Nat /\ DOMAIN down[t] = 1..Len(down[t])
            /\ DOMAIN Append(down[t], f) = DOMAIN down[t] \cup {Len(down[t]) + 1}
            /\ \A i \in DOMAIN down[t] :
                 i \in Nat /\ i < Len(down[t]) + 1 /\ Append(down[t], f)[i] = down[t][i]
            /\ Append(down[t], f)[Len(down[t]) + 1] = f
        BY <4>1, AppendAt, ZenonT(30)
      <4>3. QED
        BY ZenonT(30), <2>1, <3>3, <3>4, <4>2
    <3>6. \A n \in Nodes : At(j, n)' => job'[j].node = n
      <4>1. \A n \in Nodes : session[n] # None => session[n] \in Streams
        BY <1>0
      <4>2. QED
        BY ZenonT(30), <2>3, <3>2, <3>3, <3>5, <4>1 DEF At, RunFrame, UpdateFrame
    <3>7. OneHome(j)'
      BY <3>6 DEF OneHome
    <3>8. SentOnce(j)'
      <4>1. \A s \in Streams : ~UpdateFrame(j, s)'
        BY ZenonT(30), <2>3, <3>3 DEF UpdateFrame
      <4>2. \A n \in Nodes : run'[n][j] = "none"
        BY <2>3, <3>3
      <4>3. QED
        BY ZenonT(30), <3>5, <4>1, <4>2 DEF SentOnce
    <3>9. LastWord(j)'
      BY ZenonT(30), <2>3, <3>3 DEF LastWord
    <3>10. UnmintedNowhere(j)' /\ SendsFirst(j)'
      BY ZenonT(30), <2>2, <2>3 DEF UnmintedNowhere, SendsFirst
    <3>11. QED
      BY <3>7, <3>8, <3>9, <3>10 DEF Trace
  <2>7. QED
    BY <2>5, <2>6
<1>3. QED
  BY ZenonT(30), <1>1, <1>2 DEF Dispatched

\* What is known of a job that its agent is about to read.
LEMMA BeforeTaken ==
  ASSUME TypesOK, AckedOnce, NEW j \in JobIds, Trace(j), NEW n \in Nodes,
         StartJob(n), NextFrame(n).job = j
  PROVE  /\ session[n] \in Streams /\ 1 \in DOMAIN down[session[n]]
         /\ IsRun(down[session[n]][1], j) /\ At(j, n)
         /\ j \in minted /\ via[j] = None
         /\ \A m \in Nodes : run[m][j] = "none"
         /\ \A s \in Streams : ~\E i \in DOMAIN up[s] : IsUpdate(up[s][i], j)
         /\ \A s \in Streams : ~\E i \in DOMAIN down'[s] : IsRun(down'[s][i], j)
<1>0. FramesOK /\ Serving(n) /\ Received(n) /\ Consume(n)
  BY DEF TypesOK, StartJob
<1> DEFINE t == session[n]
<1>1. /\ t \in Streams /\ t # None /\ down[t] \in Seq(DownFrame) /\ down[t] # <<>>
      /\ 1 \in DOMAIN down[t] /\ IsRun(down[t][1], j)
  BY <1>0, NextIsRun DEF Received, IsRun
<1>2. RunFrame(j, t)
  BY <1>1 DEF RunFrame
<1>3. At(j, n)
  BY <1>1, <1>2 DEF At
<1>4. j \in minted /\ via[j] = None
  BY ZenonT(30), <1>1, <1>2 DEF Trace, UnmintedNowhere, SendsFirst, Untraced
<1>5. /\ \A s \in Streams : \A k \in DOMAIN down[s] : IsRun(down[s][k], j) => s = t /\ k = 1
      /\ \A m \in Nodes : run[m][j] = "none"
      /\ \A s \in Streams : ~UpdateFrame(j, s)
  BY ZenonT(30), <1>1 DEF Trace, SentOnce
<1>6. \A s \in Streams : down'[s] = IF s = t THEN Tail(down[t]) ELSE down[s]
  BY <1>0, <1>1 DEF Consume, FramesOK, ChanTypeOK
<1>7. \A i \in DOMAIN Tail(down[t]) :
        i + 1 \in DOMAIN down[t] /\ i + 1 # 1 /\ Tail(down[t])[i] = down[t][i + 1]
  BY ZenonT(30), <1>1, TailAt
<1> HIDE DEF t
<1>8. ASSUME NEW s \in Streams, NEW i \in DOMAIN down'[s], IsRun(down'[s][i], j) PROVE FALSE
  <2>1. CASE s = t
    <3>1. i \in DOMAIN Tail(down[t]) /\ IsRun(Tail(down[t])[i], j)
      BY ZenonT(30), <1>6, <1>8, <2>1
    <3>2. i + 1 \in DOMAIN down[t] /\ i + 1 # 1 /\ IsRun(down[t][i + 1], j)
      BY <1>7, <3>1
    <3>3. QED
      BY ZenonT(30), <1>1, <1>5, <3>2
  <2>2. CASE s # t
    BY ZenonT(30), <1>5, <1>6, <1>8, <2>2
  <2>3. QED
    BY <2>1, <2>2
<1>9. QED
  BY ZenonT(30), <1>1, <1>3, <1>4, <1>5, <1>8 DEF t, UpdateFrame

LEMMA NotAfter ==
  \A k \in Nat : ~(k + 1 > k + 1) /\ \A i \in Nat : i < k + 1 => ~(i > k + 1)
OBVIOUS

\* What a frame that an agent emits adds.
LEMMA EmittedAt ==
  ASSUME FramesOK, StreamsOwned, NEW n \in Nodes, NEW f, Emit(n, f) \/ EmitBeat(n, f), up' # up
  PROVE  /\ session[n] \in Streams /\ owner[session[n]] = n /\ link[session[n]]
         /\ Len(up[session[n]]) \in Nat
         /\ DOMAIN up'[session[n]] = DOMAIN up[session[n]] \cup {Len(up[session[n]]) + 1}
         /\ up'[session[n]][Len(up[session[n]]) + 1] = f
         /\ \A i \in DOMAIN up[session[n]] :
              /\ i \in Nat /\ i < Len(up[session[n]]) + 1
              /\ up'[session[n]][i] = up[session[n]][i]
         /\ \A s \in Streams \ {session[n]} : up'[s] = up[s]
<1> DEFINE t == session[n]
<1>1. /\ t \in Streams \cup {None} /\ up \in [Streams -> Seq(UpFrame)]
      /\ link[t] /\ up' = [up EXCEPT ![t] = Append(@, f)]
  BY DEF FramesOK, ChanTypeOK, Emit, EmitBeat
<1>2. t \in Streams
  BY <1>1
<1>3. owner[t] = n
  BY <1>1, <1>2, ReaderOwns
<1>4. up'[t] = Append(up[t], f) /\ up[t] \in Seq(UpFrame) /\ \A s \in Streams \ {t} : up'[s] = up[s]
  BY <1>1, <1>2
<1>5. /\ Len(up[t]) \in Nat /\ DOMAIN up[t] = 1..Len(up[t])
      /\ DOMAIN Append(up[t], f) = DOMAIN up[t] \cup {Len(up[t]) + 1}
      /\ \A i \in DOMAIN up[t] : i \in Nat /\ i < Len(up[t]) + 1 /\ Append(up[t], f)[i] = up[t][i]
      /\ Append(up[t], f)[Len(up[t]) + 1] = f
  BY ZenonT(30), <1>4, AppendAt
<1>6. QED
  BY ZenonT(30), <1>1, <1>2, <1>3, <1>4, <1>5

\* The agent that takes the command for job j is the node it was sent to.
LEMMA TakenTrace ==
  ASSUME TypesOK, TypesOK', StreamsOwned, AckedOnce, NEW j \in JobIds, Trace(j), Taken(j)
  PROVE  Trace(j)'
<1>0. FramesOK /\ FramesOK' /\ HostsOK
  BY DEF TypesOK
<1>1. PICK n \in Nodes : StartJob(n) /\ NextFrame(n).job = j
  BY DEF Taken
<1>2. /\ session[n] \in Streams /\ At(j, n) /\ j \in minted /\ via[j] = None
      /\ \A m \in Nodes : run[m][j] = "none"
      /\ \A s \in Streams : ~\E i \in DOMAIN up[s] : IsUpdate(up[s][i], j)
      /\ \A s \in Streams : ~\E i \in DOMAIN down'[s] : IsRun(down'[s][i], j)
  BY ZenonT(30), <1>1, BeforeTaken
<1>3. UNCHANGED <<minted, via, job, owner, session>>
  BY <1>1 DEF StartJob, regVars, schedVars
<1>4. \A m \in Nodes : session'[m] # None => session'[m] \in Streams
  BY <1>0 DEF FramesOK, ChanTypeOK
<1>5. UnmintedNowhere(j)' /\ SendsFirst(j)' /\ SentOnce(j)'
  BY ZenonT(30), <1>2, <1>3 DEF UnmintedNowhere, SendsFirst, SentOnce
<1>6. CASE runtime[n]
  <2>1. up' = up /\ run' = [run EXCEPT ![n][j] = IF @ = "none" THEN "live" ELSE @]
    BY <1>1, <1>6 DEF StartJob
  <2>2. \A m \in Nodes : m # n => run'[m][j] = "none"
    BY ZenonT(30), <1>0, <1>2, <2>1 DEF HostsOK
  <2>3. \A m \in Nodes : At(j, m)' => At(j, m)
    BY ZenonT(30), <1>2, <1>3, <1>4, <2>1, <2>2 DEF At, UpdateFrame, RunFrame
  <2>4. OneHome(j)'
    BY <2>3 DEF OneHome, Trace
  <2>5. LastWord(j)'
    BY <1>2, <2>1 DEF LastWord
  <2>6. QED
    BY <1>5, <2>4, <2>5 DEF Trace
<1>7. CASE ~runtime[n]
  <2> DEFINE t == session[n]
             f == JobUpdate(j, "FAILED")
  <2>1. Emit(n, f) /\ run' = run
    BY <1>1, <1>7 DEF StartJob
  <2> HIDE DEF f
  <2>2. CASE up' = up
    <3>1. Untraced(j)'
      BY ZenonT(30), <1>2, <2>1, <2>2 DEF Untraced, RunFrame, UpdateFrame
    <3>2. QED
      BY ZenonT(30), <1>0, <1>2, <1>3, <3>1, UntracedTrace
  <2>3. CASE up' # up
    <3>1. /\ owner[t] = n /\ Len(up[t]) \in Nat
          /\ DOMAIN up'[t] = DOMAIN up[t] \cup {Len(up[t]) + 1}
          /\ \A i \in DOMAIN up[t] : i \in Nat /\ i < Len(up[t]) + 1 /\ up'[t][i] = up[t][i]
          /\ \A s \in Streams \ {t} : up'[s] = up[s]
      BY ZenonT(30), <1>0, <2>1, <2>3, EmittedAt
    <3> HIDE DEF t
    <3>2. \A s \in Streams : \A i \in DOMAIN up'[s] :
            IsUpdate(up'[s][i], j) => s = t /\ i = Len(up[t]) + 1
      BY <1>2, <3>1
    <3>3. \A m \in Nodes : At(j, m)' => At(j, m)
      BY ZenonT(30), <1>2, <1>3, <1>4, <2>1, <3>1, <3>2 DEF At, UpdateFrame, RunFrame
    <3>4. OneHome(j)'
      BY <3>3 DEF OneHome, Trace
    <3>5. Spent(j)'
      BY ZenonT(30), <1>2, <1>3, <2>1 DEF Spent, RunFrame
    <3>6. LastWord(j)'
      <4>1. ASSUME NEW s \in Streams, NEW i \in DOMAIN up'[s], IsUpdate(up'[s][i], j)
            PROVE  /\ \A k \in DOMAIN up'[s] : k > i => ~IsUpdate(up'[s][k], j)
                   /\ \A m \in Nodes : session'[m] \notin {None, s} =>
                        ~\E k \in DOMAIN up'[session'[m]] : IsUpdate(up'[session'[m]][k], j)
        <5>0. i = Len(up[t]) + 1
          BY ZenonT(30), <3>2, <4>1
        <5>1. ~(i > i)
          BY ZenonT(30), <3>1, <5>0, NotAfter
        <5>2. \A m \in Nodes : session'[m] # None => session'[m] \in Streams
          BY <1>4
        <5>3. QED
          BY ZenonT(30), <3>2, <4>1, <5>0, <5>1, <5>2
      <4>2. QED
        BY ZenonT(30), <3>5, <4>1 DEF LastWord, UpdateFrame
    <3>7. QED
      BY <1>5, <3>4, <3>6 DEF Trace
  <2>4. QED
    BY <2>2, <2>3
<1>8. QED
  BY <1>6, <1>7

\* What is known of a job that runs.
LEMMA WhileLive ==
  ASSUME FramesOK, NEW j \in JobIds, Trace(j), NEW n \in Nodes, run[n][j] = "live"
  PROVE  /\ At(j, n) /\ j \in minted /\ via[j] = None /\ ~Spent(j)
         /\ \A m \in Nodes : run[m][j] # "none" => m = n
         /\ \A s \in Streams : ~\E i \in DOMAIN down[s] : IsRun(down[s][i], j)
         /\ \A s \in Streams : \A i \in DOMAIN up[s] :
              ~(IsUpdate(up[s][i], j) /\ Terminal(up[s][i].state))
<1>1. At(j, n) /\ ~Spent(j) /\ ~Untraced(j)
  BY ZenonT(30) DEF At, Spent, Untraced
<1>2. j \in minted /\ via[j] = None
  BY <1>1 DEF Trace, UnmintedNowhere, SendsFirst
<1>3. \A m \in Nodes : run[m][j] # "none" => m = n
  BY ZenonT(30), <1>1 DEF Trace, OneHome, At
<1>4. \A s \in Streams : ~\E i \in DOMAIN down[s] : IsRun(down[s][i], j)
  BY ZenonT(30) DEF Trace, SentOnce
<1>5. \A s \in Streams : \A i \in DOMAIN up[s] :
        ~(IsUpdate(up[s][i], j) /\ Terminal(up[s][i].state))
  BY ZenonT(30), <1>1 DEF Trace, LastWord
<1>6. QED
  BY ZenonT(30), <1>1, <1>2, <1>3, <1>4, <1>5

\* The agent that reports an outcome says nothing after it.
LEMMA ReportedTrace ==
  ASSUME TypesOK, TypesOK', StreamsOwned, NEW j \in JobIds, Trace(j), Reported(j)
  PROVE  Trace(j)'
<1>0. FramesOK /\ FramesOK' /\ HostsOK
  BY DEF TypesOK
<1>1. PICK n \in Nodes : \/ \E state \in LiveKinds : Report(n, j, state)
                         \/ \E state \in Outcomes : Finish(n, j, state)
  BY DEF Reported
<1>2. PICK state : \/ Report(n, j, state) /\ state \in LiveKinds
                   \/ Finish(n, j, state) /\ state \in Outcomes
  BY <1>1
<1> DEFINE t == session[n]
           f == JobUpdate(j, state)
<1>3. /\ run[n][j] = "live" /\ Emit(n, f)
      /\ UNCHANGED <<minted, via, job, owner, session, down>>
      /\ run' = run \/ run' = [run EXCEPT ![n][j] = "over"]
  BY <1>2 DEF Report, Finish, regVars, schedVars, hostVars
<1>4. IsUpdate(f, j) /\ f.state = state
  BY DEF IsUpdate, JobUpdate
<1> HIDE DEF f
<1>5. /\ At(j, n) /\ j \in minted /\ via[j] = None
      /\ \A m \in Nodes : run[m][j] # "none" => m = n
      /\ \A s \in Streams : ~\E i \in DOMAIN down[s] : IsRun(down[s][i], j)
      /\ \A s \in Streams : \A i \in DOMAIN up[s] :
           ~(IsUpdate(up[s][i], j) /\ Terminal(up[s][i].state))
  BY <1>0, <1>3, WhileLive
<1>6. \A m \in Nodes : session[m] # None => session[m] \in Streams
  BY <1>0 DEF FramesOK, ChanTypeOK
<1>7. \A m \in Nodes : m # n => run'[m][j] = run[m][j]
  BY <1>0, <1>3 DEF HostsOK
<1>8. UnmintedNowhere(j)' /\ SendsFirst(j)' /\ SentOnce(j)'
  BY <1>3, <1>5 DEF UnmintedNowhere, SendsFirst, SentOnce
<1>9. CASE up' = up
  <2>1. \A m \in Nodes : At(j, m)' => At(j, m)
    BY ZenonT(30), <1>3, <1>5, <1>7, <1>9 DEF At, UpdateFrame, RunFrame
  <2>2. OneHome(j)'
    BY <2>1 DEF OneHome, Trace
  <2>3. LastWord(j)'
    BY ZenonT(30), <1>5, <1>9 DEF LastWord
  <2>4. QED
    BY <1>8, <2>2, <2>3 DEF Trace
<1>10. CASE up' # up
  <2>1. /\ t \in Streams /\ owner[t] = n /\ link[t] /\ Len(up[t]) \in Nat
        /\ DOMAIN up'[t] = DOMAIN up[t] \cup {Len(up[t]) + 1}
        /\ up'[t][Len(up[t]) + 1] = f
        /\ \A i \in DOMAIN up[t] : i \in Nat /\ i < Len(up[t]) + 1 /\ up'[t][i] = up[t][i]
        /\ \A s \in Streams \ {t} : up'[s] = up[s]
    BY ZenonT(90), <1>0, <1>3, <1>10, EmittedAt
  <2>2. \A s \in Streams : UpdateFrame(j, s)' => UpdateFrame(j, s) \/ s = t
    BY ZenonT(30), <2>1 DEF UpdateFrame
  <2>3. \A m \in Nodes : At(j, m)' => At(j, m)
    <3>1. \A m \in Nodes : \A s \in Streams : owner[s] = m /\ UpdateFrame(j, s)' => At(j, m)
      BY ZenonT(30), <1>5, <2>1, <2>2 DEF At
    <3>2. QED
      BY ZenonT(30), <1>3, <1>5, <1>7, <3>1 DEF At, UpdateFrame, RunFrame
  <2>4. OneHome(j)'
    BY <2>3 DEF OneHome, Trace
  <2>5. LastWord(j)'
    <3>1. ASSUME NEW s \in Streams, NEW i \in DOMAIN up'[s], IsUpdate(up'[s][i], j),
                 Terminal(up'[s][i].state)
          PROVE  /\ Spent(j)'
                 /\ \A k \in DOMAIN up'[s] : k > i => ~IsUpdate(up'[s][k], j)
                 /\ \A m \in Nodes : session'[m] \notin {None, s} => ~UpdateFrame(j, session[m])'
      <4>1. s = t /\ i = Len(up[t]) + 1 /\ Terminal(state)
        <5>1. s = t
          <6>1. s # t => up'[s] = up[s]
            BY ZenonT(30), <2>1
          <6>2. ~(i \in DOMAIN up[s] /\ IsUpdate(up[s][i], j) /\ Terminal(up[s][i].state))
            BY ZenonT(30), <1>5
          <6>3. QED
            BY ZenonT(30), <3>1, <6>1, <6>2
        <5>2. i \notin DOMAIN up[t]
          <6>1. i \in DOMAIN up[t] => up'[t][i] = up[t][i]
            BY ZenonT(30), <2>1
          <6>2. ~(i \in DOMAIN up[t] /\ IsUpdate(up[t][i], j) /\ Terminal(up[t][i].state))
            BY ZenonT(30), <1>5, <2>1
          <6>3. QED
            BY ZenonT(30), <3>1, <5>1, <6>1, <6>2
        <5>3. i \in DOMAIN up[t] \cup {Len(up[t]) + 1}
          BY ZenonT(30), <2>1, <3>1, <5>1
        <5>4. i = Len(up[t]) + 1
          BY ZenonT(30), <5>2, <5>3
        <5>5. up'[t][i] = f
          BY ZenonT(30), <2>1, <5>4
        <5>6. Terminal(state)
          BY ZenonT(30), <1>4, <3>1, <5>1, <5>5
        <5>7. QED
          BY ZenonT(30), <5>1, <5>4, <5>6
      <4>2. Finish(n, j, state)
        BY ZenonT(30), <1>2, <4>1, JobsAssumption DEF Terminal
      <4>3. run'[n][j] = "over"
        BY <1>0, <4>2 DEF Finish, HostsOK
      <4>4. Spent(j)'
        BY <1>3, <1>5, <1>7, <4>3 DEF Spent, RunFrame
      <4>5. \A k \in DOMAIN up'[s] : k > i => ~IsUpdate(up'[s][k], j)
        <5>0. DOMAIN up'[s] = DOMAIN up[t] \cup {i}
          BY ZenonT(30), <2>1, <4>1
        <5>1. i \in Nat
          <6>1. \A a \in Nat : a + 1 \in Nat
            OBVIOUS
          <6>2. QED
            BY ZenonT(30), <2>1, <4>1, <6>1
        <5>2. \A k \in DOMAIN up[t] : k \in Nat /\ k < i
          BY ZenonT(30), <2>1, <4>1
        <5>3. \A a, b \in Nat : a < b => ~(a > b)
          OBVIOUS
        <5>4. \A a \in Nat : ~(a > a)
          OBVIOUS
        <5>5. ASSUME NEW k \in DOMAIN up'[s] PROVE ~(k > i)
          <6>1. k \in DOMAIN up[t] \/ k = i
            BY ZenonT(30), <5>0
          <6>2. QED
            BY ZenonT(30), <5>1, <5>2, <5>3, <5>4, <6>1
        <5>6. QED
          BY ZenonT(30), <5>5
      <4>6. ASSUME NEW m \in Nodes, session'[m] \notin {None, s}, UpdateFrame(j, session[m])'
            PROVE  FALSE
        <5>1. session[m] \in Streams /\ session[m] # t /\ session[m] = session'[m]
          BY <1>3, <1>6, <4>1, <4>6
        <5>2. UpdateFrame(j, session[m])
          BY ZenonT(30), <1>3, <2>1, <4>6, <5>1 DEF UpdateFrame
        <5>3. up[session[m]] # <<>>
          BY ZenonT(30), <5>2, PlaceTaken DEF UpdateFrame
        <5>4. owner[session[m]] = m
          BY <5>1, <5>3, ReaderOwns
        <5>5. At(j, m)
          BY <5>1, <5>2, <5>4 DEF At
        <5>6. m = n
          BY ZenonT(30), <1>5, <5>5 DEF Trace, OneHome
        <5>7. QED
          BY <5>1, <5>6
      <4>7. QED
        BY ZenonT(30), <4>4, <4>5, <4>6
    <3>2. QED
      BY ZenonT(30), <3>1 DEF LastWord
  <2>6. QED
    BY <1>8, <2>4, <2>5 DEF Trace
<1>11. QED
  BY <1>9, <1>10

\* Every step keeps the trace of every job.
LEMMA TraceStep ==
  ASSUME RegIInv, TypesOK, TypesOK', StreamsOwned, AckedOnce, NEW j \in JobIds, Trace(j),
         [JobNext]_jobVars
  PROVE  Trace(j)'
BY JobStepCalm, CalmTrace, DispatchedTrace, TakenTrace, ReportedTrace DEF Undisturbed
=============================================================================
