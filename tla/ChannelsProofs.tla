--------------------------- MODULE ChannelsProofs ---------------------------
(***************************************************************************)
(* Proofs about the registry, for any number of nodes and streams and any  *)
(* reaping threshold, and lemmas about the streams to the agents, for any  *)
(* kind of frame.                                                          *)
(***************************************************************************)
EXTENDS Channels, TLAPS

(* Sequences. *)

LEMMA ElementOfSeq ==
  ASSUME NEW S, NEW seq \in Seq(S), NEW n \in 1..Len(seq)
  PROVE  seq[n] \in S
OBVIOUS

LEMMA EmptySeq ==
  ASSUME NEW S
  PROVE  /\ << >> \in Seq(S)
         /\ Len(<< >>) = 0
         /\ \A seq \in Seq(S) : (seq # << >>) => (Len(seq) \in Nat \ {0})
OBVIOUS

LEMMA LenProperties ==
  ASSUME NEW S, NEW seq \in Seq(S)
  PROVE  /\ Len(seq) \in Nat
         /\ seq \in [1..Len(seq) -> S]
         /\ DOMAIN seq = 1..Len(seq)
OBVIOUS

LEMMA HeadTailProperties ==
  ASSUME NEW S, NEW s \in Seq(S), s # << >>
  PROVE  /\ Head(s) \in S
         /\ Tail(s) \in Seq(S)
         /\ Len(Tail(s)) = Len(s) - 1
         /\ \A i \in 1..Len(Tail(s)) : Tail(s)[i] = s[i + 1]
OBVIOUS

(* The registry. *)

USE RegistryAssumption

LEMMA InitIInv == RegInit => RegIInv
BY DEF RegInit, RegIInv, RegTypeOK, Statuses, HandleSound,
       HandleLossExplained, RunningRegistered, RivalsExcused

-----------------------------------------------------------------------------
(* What each registry method does to the node table. *)

LEMMA UpsertType ==
  ASSUME RegTypeOK, NEW n \in Nodes, NEW s \in Streams, Upsert(n, s)
  PROVE  /\ known' \subseteq Nodes
         /\ status' \in [Nodes -> Statuses]
         /\ silence' \in [Nodes -> 0..(ReapAfter + 1)]
         /\ send' \in [Nodes -> Streams \cup {None}]
         /\ addr' \in [Nodes -> BOOLEAN]
BY DEF RegTypeOK, Statuses, Upsert

LEMMA TouchType ==
  ASSUME RegTypeOK, NEW n \in Nodes, NEW a \in BOOLEAN, Touch(n, a)
  PROVE  /\ known' = known
         /\ send' = send
         /\ status' \in [Nodes -> Statuses]
         /\ \A m \in Nodes : status[m] = "ONLINE" => status'[m] = "ONLINE"
         /\ silence' \in [Nodes -> 0..(ReapAfter + 1)]
         /\ addr' \in [Nodes -> BOOLEAN]
<1>1. addr' \in [Nodes -> BOOLEAN]
  BY Zenon DEF RegTypeOK, Touch, nodeVars
<1>2. silence' \in [Nodes -> 0..(ReapAfter + 1)]
  BY DEF RegTypeOK, Touch, nodeVars
<1>3. QED
  BY <1>1, <1>2 DEF RegTypeOK, Statuses, Touch, nodeVars

\* A count of ticks stays below its cap.
LEMMA OlderType ==
  ASSUME NEW cap \in Nat, NEW age \in 0..(cap + 1)
  PROVE  Older(age, cap) \in 0..(cap + 1)
BY DEF Older

-----------------------------------------------------------------------------
(* One step per action. *)

LEMMA RegisterIInv ==
  ASSUME RegIInv, NEW s \in Streams, NEW n \in Nodes, Register(s, n)
  PROVE  RegIInv'
<1> USE DEF RegIInv
<1>1. RegTypeOK'
  BY UpsertType DEF RegTypeOK, Register, Rivals
<1>2. /\ known' = known \cup {n}
      /\ status'[n] = "ONLINE" /\ send'[n] = s
      /\ \A m \in Nodes \ {n} : status'[m] = status[m] /\ send'[m] = send[m]
  BY DEF RegTypeOK, Register, Upsert
<1>3. /\ handler[s] = "none"
      /\ handler'[s] # "none" /\ owner'[s] = n
      /\ \A t \in Streams \ {s} : handler'[t] = handler[t] /\ owner'[t] = owner[t]
  BY DEF RegTypeOK, Register
<1>4. /\ \A t \in Rivals(s, n) : t \in excused' /\ s \in excused'
      /\ \A t \in Streams \ {s} : t \in excused => t \in excused'
  BY DEF Register
<1>5. HandleSound'
  BY <1>1, <1>2, <1>3 DEF HandleSound, RegTypeOK
<1>6. HandleLossExplained'
  <2> SUFFICES ASSUME NEW t \in Streams, handler'[t] # "none",
                      send'[owner'[t]] # t
               PROVE  t \in excused'
    BY DEF HandleLossExplained
  <2>1. t # s /\ handler[t] # "none" /\ owner'[t] = owner[t]
    BY <1>2, <1>3
  <2>2. CASE owner[t] = n
    BY <2>1, <2>2, <1>4 DEF Rivals
  <2>3. CASE owner[t] # n
    <3>1. owner[t] \in Nodes
      BY <2>1 DEF RunningRegistered, RegTypeOK
    <3>2. send[owner[t]] # t
      BY <1>2, <2>1, <2>3, <3>1
    <3>3. QED
      BY <2>1, <3>2, <1>4 DEF HandleLossExplained
  <2>4. QED
    BY <2>2, <2>3
<1>7. RunningRegistered'
  BY <1>2, <1>3 DEF RunningRegistered
<1>8. RivalsExcused'
  <2> SUFFICES ASSUME NEW t \in Streams, NEW u \in Streams, t # u,
                      handler'[t] # "none", handler'[u] # "none",
                      owner'[t] = owner'[u]
               PROVE  t \in excused'
    BY DEF RivalsExcused
  <2>1. CASE t # s /\ u # s
    BY <2>1, <1>3, <1>4 DEF RivalsExcused
  <2>2. CASE t = s
    BY <2>2, <1>3, <1>4 DEF Rivals
  <2>3. CASE u = s
    BY <2>3, <1>3, <1>4 DEF Rivals
  <2>4. QED
    BY <2>1, <2>2, <2>3
<1>9. QED
  BY <1>1, <1>5, <1>6, <1>7, <1>8

\* A returning handler may take the handle of a newer one with it; that one is
\* in the history by RivalsExcused.
LEMMA ReturnIInv ==
  ASSUME RegIInv, NEW s \in Streams, handler[s] # "none", Return(s)
  PROVE  RegIInv'
<1> USE DEF RegIInv
<1> DEFINE n == owner[s]
<1>1. n \in known /\ n \in Nodes
  BY DEF RunningRegistered, RegTypeOK
<1>2. /\ known' = known
      /\ status' = [status EXCEPT ![n] = "OFFLINE"]
      /\ send' = [send EXCEPT ![n] = None]
      /\ silence' = silence /\ addr' = addr
  BY <1>1 DEF Return, MarkDisconnected
<1>3. /\ handler' = [handler EXCEPT ![s] = "none"]
      /\ owner' = [owner EXCEPT ![s] = None]
      /\ link' = [link EXCEPT ![s] = FALSE]
      /\ excused' = excused
  BY DEF Return
<1> HIDE DEF n
<1>4. RegTypeOK'
  BY <1>1, <1>2, <1>3 DEF RegTypeOK, Statuses
<1>5. HandleSound'
  <2> SUFFICES ASSUME NEW m \in Nodes, send'[m] # None
               PROVE  /\ status'[m] = "ONLINE"
                      /\ handler'[send'[m]] # "none"
                      /\ owner'[send'[m]] = m
    BY DEF HandleSound
  <2>1. m # n /\ send'[m] = send[m] /\ status'[m] = status[m]
    BY <1>1, <1>2 DEF RegTypeOK
  <2>2. send[m] \in Streams /\ send[m] # s
    BY <2>1 DEF HandleSound, RegTypeOK, n
  <2>3. QED
    BY <2>1, <2>2, <1>3 DEF HandleSound, RegTypeOK
<1>6. HandleLossExplained'
  <2> SUFFICES ASSUME NEW t \in Streams, handler'[t] # "none",
                      send'[owner'[t]] # t
               PROVE  t \in excused
    BY <1>3 DEF HandleLossExplained
  <2>1. t # s /\ handler[t] # "none" /\ owner'[t] = owner[t]
    BY <1>3 DEF RegTypeOK
  <2>2. CASE owner[t] = n
    BY <2>1, <2>2 DEF RivalsExcused, n
  <2>3. CASE owner[t] # n
    BY <2>1, <2>3, <1>2 DEF HandleLossExplained, RunningRegistered, RegTypeOK
  <2>4. QED
    BY <2>2, <2>3
<1>7. RunningRegistered'
  BY <1>2, <1>3 DEF RunningRegistered, RegTypeOK
<1>8. RivalsExcused'
  BY <1>3 DEF RivalsExcused, RegTypeOK
<1>9. QED
  BY <1>4, <1>5, <1>6, <1>7, <1>8

LEMMA HeartbeatIInv ==
  ASSUME RegIInv, NEW s \in Streams, NEW a \in BOOLEAN, Heartbeat(s, a)
  PROVE  RegIInv'
<1> USE DEF RegIInv
<1>1. owner[s] \in Nodes
  BY DEF Heartbeat, RunningRegistered, RegTypeOK
<1>2. /\ known' = known /\ send' = send
      /\ status' \in [Nodes -> Statuses]
      /\ \A m \in Nodes : status[m] = "ONLINE" => status'[m] = "ONLINE"
      /\ silence' \in [Nodes -> 0..(ReapAfter + 1)]
      /\ addr' \in [Nodes -> BOOLEAN]
  BY <1>1, TouchType DEF Heartbeat
<1>3. /\ handler' = handler /\ owner' = owner /\ link' = link
      /\ excused' = excused
  BY DEF Heartbeat, streamVars
<1>4. RegTypeOK' /\ HandleSound'
  BY <1>2, <1>3 DEF RegTypeOK, HandleSound
<1>5. HandleLossExplained' /\ RunningRegistered' /\ RivalsExcused'
  BY <1>2, <1>3 DEF HandleLossExplained, RunningRegistered, RivalsExcused
<1>6. QED
  BY <1>4, <1>5

LEMMA ReRegisterIInv ==
  ASSUME RegIInv, NEW s \in Streams, ReRegister(s)
  PROVE  RegIInv'
<1> USE DEF RegIInv
<1> DEFINE n == owner[s]
<1>1. handler[s] # "none" /\ n \in Nodes
  BY DEF ReRegister, RunningRegistered, RegTypeOK
<1>2. Upsert(n, s)
  BY DEF ReRegister
<1>3. /\ handler' = handler /\ owner' = owner /\ link' = link
      /\ excused' = excused
  BY DEF ReRegister, streamVars
<1>4. RegTypeOK'
  BY <1>1, <1>2, <1>3, UpsertType DEF RegTypeOK
<1>5. /\ known' = known \cup {n}
      /\ status'[n] = "ONLINE" /\ send'[n] = s
      /\ \A m \in Nodes \ {n} : status'[m] = status[m] /\ send'[m] = send[m]
  BY <1>1, <1>2 DEF RegTypeOK, Upsert
<1>6. HandleSound'
  BY <1>1, <1>3, <1>5 DEF HandleSound
<1>7. HandleLossExplained'
  <2> SUFFICES ASSUME NEW t \in Streams, handler[t] # "none",
                      send'[owner[t]] # t
               PROVE  t \in excused
    BY <1>3 DEF HandleLossExplained
  <2>1. CASE owner[t] = n
    BY <2>1, <1>1, <1>5 DEF RivalsExcused
  <2>2. CASE owner[t] # n
    BY <2>2, <1>5 DEF HandleLossExplained, RunningRegistered, RegTypeOK
  <2>3. QED
    BY <2>1, <2>2
<1>8. RunningRegistered' /\ RivalsExcused'
  BY <1>3, <1>5 DEF RunningRegistered, RivalsExcused
<1>9. QED
  BY <1>4, <1>6, <1>7, <1>8

LEMMA ReapIInv ==
  ASSUME RegIInv, Reap
  PROVE  RegIInv'
<1> USE DEF RegIInv
<1>1. /\ known' = known /\ silence' = silence /\ addr' = addr
      /\ handler' = handler /\ owner' = owner /\ link' = link
  BY DEF Reap, streamVars
<1>2. RegTypeOK'
  BY <1>1 DEF Reap, RegTypeOK, Statuses
<1>3. HandleSound'
  BY <1>1 DEF Reap, HandleSound, RegTypeOK
<1>4. HandleLossExplained'
  BY <1>1 DEF Reap, HandleLossExplained, RunningRegistered, RegTypeOK
<1>5. RunningRegistered' /\ RivalsExcused'
  BY <1>1 DEF Reap, RunningRegistered, RivalsExcused
<1>6. QED
  BY <1>2, <1>3, <1>4, <1>5

LEMMA TickIInv ==
  ASSUME RegIInv, Tick
  PROVE  RegIInv'
<1> USE DEF RegIInv
<1>1. \A n \in Nodes : silence'[n] \in 0..(ReapAfter + 1)
  BY OlderType DEF Tick, RegTypeOK
<1>2. RegTypeOK'
  BY <1>1 DEF Tick, RegTypeOK, streamVars
<1>3. QED
  BY <1>2 DEF Tick, streamVars, HandleSound, HandleLossExplained,
              RunningRegistered, RivalsExcused

LEMMA StreamStepIInv ==
  ASSUME RegIInv, NEW s \in Streams, SendAck(s) \/ LinkBreaks(s)
  PROVE  RegIInv'
<1> USE DEF RegIInv
<1>1. /\ known' = known /\ status' = status /\ silence' = silence
      /\ send' = send /\ addr' = addr /\ owner' = owner /\ excused' = excused
  BY DEF SendAck, LinkBreaks, nodeVars
<1>2. /\ handler' \in [Streams -> {"none", "acking", "serving"}]
      /\ \A t \in Streams : handler'[t] = "none" <=> handler[t] = "none"
  BY DEF SendAck, LinkBreaks, RegTypeOK
<1>3. link' \in [Streams -> BOOLEAN]
  BY ZenonT(30) DEF SendAck, LinkBreaks, RegTypeOK
<1>4. RegTypeOK'
  BY <1>1, <1>2, <1>3 DEF RegTypeOK
<1>5. HandleSound'
  BY <1>1, <1>2 DEF HandleSound, RegTypeOK
<1>6. HandleLossExplained' /\ RunningRegistered' /\ RivalsExcused'
  BY <1>1, <1>2 DEF HandleLossExplained, RunningRegistered, RivalsExcused
<1>7. QED
  BY <1>4, <1>5, <1>6

LEMMA RestartIInv == Restart => RegIInv'
BY DEF Restart, RegIInv, RegTypeOK, Statuses, HandleSound,
       HandleLossExplained, RunningRegistered, RivalsExcused

LEMMA NextIInv == RegIInv /\ [RegNext]_regVars => RegIInv'
<1> SUFFICES ASSUME RegIInv, [RegNext]_regVars
             PROVE  RegIInv'
  OBVIOUS
<1>1. CASE \E s \in Streams, n \in Nodes : Register(s, n)
  BY <1>1, RegisterIInv
<1>2. CASE \E s \in Streams : AckFails(s) \/ StreamEnds(s)
  <2>1. PICK s \in Streams : handler[s] # "none" /\ Return(s)
    BY <1>2 DEF AckFails, StreamEnds
  <2>2. QED
    BY <2>1, ReturnIInv
<1>3. CASE \E s \in Streams, a \in Addrs : Heartbeat(s, a)
  BY <1>3, HeartbeatIInv
<1>4. CASE \E s \in Streams : ReRegister(s)
  BY <1>4, ReRegisterIInv
<1>5. CASE \E s \in Streams : SendAck(s) \/ LinkBreaks(s)
  BY <1>5, StreamStepIInv
<1>6. CASE Reap
  BY <1>6, ReapIInv
<1>7. CASE Tick
  BY <1>7, TickIInv
<1>8. CASE Restart
  BY <1>8, RestartIInv
<1>9. CASE UNCHANGED regVars
  BY <1>9 DEF regVars, RegIInv, RegTypeOK, HandleSound,
              HandleLossExplained, RunningRegistered, RivalsExcused
<1>10. QED
  BY <1>1, <1>2, <1>3, <1>4, <1>5, <1>6, <1>7, <1>8, <1>9 DEF RegNext

\* The registry's inductive invariant holds in every reachable state.
THEOREM RegistryInvariant == RegSpec => []RegIInv
BY InitIInv, NextIInv, PTL DEF RegSpec

\* A non-nil Node.Send is always a running stream of that very node, which is
\* ONLINE (Upsert, MarkDisconnected, reap).
THEOREM RegistryHandleSound == RegSpec => []HandleSound
<1>1. RegIInv => HandleSound
  BY DEF RegIInv
<1>2. QED
  BY <1>1, RegistryInvariant, PTL

\* A running handler lost its node's handle only to a rival or to the reaper.
THEOREM RegistryHandleLossExplained == RegSpec => []HandleLossExplained
<1>1. RegIInv => HandleLossExplained
  BY DEF RegIInv
<1>2. QED
  BY <1>1, RegistryInvariant, PTL

HIDE RegistryAssumption

-----------------------------------------------------------------------------
(* The streams: frames stay frames, and queues within their capacity. *)

\* The parts of ChanTypeOK.
AgentsOK ==
  /\ agent \in [Nodes -> {"off", "await", "serve", "stuck"}]
  /\ session \in [Nodes -> Streams \cup {None}]

\* The queues from the agents, and those to them.
UpOK(F) == up \in [Streams -> Seq(F)] /\ \A t \in Streams : Len(up[t]) <= QueueSize + 1

DownOK(F) == down \in [Streams -> Seq(F)] /\ \A t \in Streams : Len(down[t]) <= Window

\* ChanTypeOK is its three parts.
LEMMA ChanSplit ==
  ASSUME NEW U, NEW D
  PROVE  /\ ChanTypeOK(U, D) <=> AgentsOK /\ UpOK(U) /\ DownOK(D)
         /\ ChanTypeOK(U, D)' <=> AgentsOK' /\ UpOK(U)' /\ DownOK(D)'
BY DEF ChanTypeOK, AgentsOK, UpOK, DownOK

LEMMA ChanInitOK ==
  ASSUME NEW U, NEW D, ChanInit
  PROVE  ChanTypeOK(U, D)
<1>1. <<>> \in Seq(U) /\ <<>> \in Seq(D) /\ Len(<<>>) = 0
  OBVIOUS
<1>2. QED
  BY <1>1, ChannelsAssumption DEF ChanInit, ChanTypeOK

\* A queue shortened by a frame, or emptied.
LEMMA ShorterType ==
  ASSUME NEW S, NEW k \in Nat, NEW q \in [Streams -> Seq(S)],
         \A t \in Streams : Len(q[t]) <= k,
         NEW s, NEW r, r = <<>> \/ (s \in Streams => q[s] # <<>> /\ r = Tail(q[s]))
  PROVE  /\ [q EXCEPT ![s] = r] \in [Streams -> Seq(S)]
         /\ \A t \in Streams : Len([q EXCEPT ![s] = r][t]) <= k
<1>1. CASE s \notin Streams
  BY <1>1, ZenonT(30)
<1>2. CASE s \in Streams
  <2>1. r \in Seq(S) /\ Len(r) <= k
    <3>1. CASE r = <<>>
      BY <3>1
    <3>2. CASE q[s] # <<>> /\ r = Tail(q[s])
      <4>1. q[s] \in Seq(S) /\ Len(q[s]) <= k
        BY <1>2
      <4>2. r \in Seq(S) /\ Len(r) = Len(q[s]) - 1 /\ Len(q[s]) \in Nat
        BY <3>2, <4>1
      <4>3. QED
        BY <4>1, <4>2
    <3>3. QED
      BY <1>2, <3>1, <3>2
  <2>2. QED
    BY <1>2, <2>1
<1>3. QED
  BY <1>1, <1>2

\* A frame joins a queue that has room.
LEMMA LongerQueue ==
  ASSUME NEW S, NEW k \in Nat, NEW q \in [Streams -> Seq(S)],
         \A t \in Streams : Len(q[t]) <= k,
         NEW s, NEW f \in S, s \in Streams => Len(q[s]) < k
  PROVE  /\ [q EXCEPT ![s] = Append(@, f)] \in [Streams -> Seq(S)]
         /\ \A t \in Streams : Len([q EXCEPT ![s] = Append(@, f)][t]) <= k
<1>1. CASE s \notin Streams
  BY <1>1, ZenonT(30)
<1>2. CASE s \in Streams
  <2>1. Append(q[s], f) \in Seq(S) /\ Len(Append(q[s], f)) = Len(q[s]) + 1
    BY <1>2
  <2>2. Len(q[s]) + 1 <= k
    BY <1>2, LenProperties
  <2>3. QED
    BY <1>2, <2>1, <2>2
<1>3. QED
  BY <1>1, <1>2

\* What each operation on the streams does to the types of the queues.
LEMMA PutOK ==
  ASSUME NEW D, DownOK(D), NEW s \in Streams, CanSend(s, TRUE), NEW f \in D, Put(s, f)
  PROVE  DownOK(D)'
<1>1. Window \in Nat
  BY ChannelsAssumption
<1>2. CASE ~Heard(s)
  BY <1>2 DEF Put, DownOK
<1>3. CASE Heard(s)
  <2>1. Len(down[s]) < Window
    BY <1>3 DEF CanSend
  <2>2. down' = [down EXCEPT ![s] = Append(@, f)]
    BY <1>3 DEF Put
  <2>3. QED
    BY <1>1, <2>1, <2>2, LongerQueue DEF DownOK
<1>4. QED
  BY <1>2, <1>3

LEMMA TakeOK ==
  ASSUME NEW U, UpOK(U), NEW s \in Streams, Arrived(s), Take(s)
  PROVE  UpOK(U)'
<1>1. QueueSize + 1 \in Nat
  BY ChannelsAssumption
<1>2. up[s] # <<>> /\ up' = [up EXCEPT ![s] = Tail(up[s])]
  BY DEF Arrived, Take
<1>3. QED
  BY <1>1, <1>2, ShorterType DEF UpOK

LEMMA UnreadOK ==
  ASSUME NEW U, UpOK(U), NEW s \in Streams, up' = [up EXCEPT ![s] = <<>>]
  PROVE  UpOK(U)'
<1>1. QueueSize + 1 \in Nat
  BY ChannelsAssumption
<1>2. QED
  BY <1>1, ShorterType DEF UpOK

LEMMA IgnoreOK ==
  ASSUME NEW D, DownOK(D), NEW s, down' = [down EXCEPT ![s] = <<>>]
  PROVE  DownOK(D)'
<1>1. Window \in Nat
  BY ChannelsAssumption
<1>2. QED
  BY <1>1, ShorterType, ZenonT(30) DEF DownOK

LEMMA ConsumeOK ==
  ASSUME NEW D, DownOK(D), NEW n \in Nodes, Received(n), Consume(n)
  PROVE  DownOK(D)'
<1> DEFINE s == session[n]
           r == Tail(down[s])
<1>1. Window \in Nat
  BY ChannelsAssumption
<1>2. down[s] # <<>> /\ down' = [down EXCEPT ![s] = r]
  BY DEF Received, Consume
<1>3. r = <<>> \/ (s \in Streams => down[s] # <<>> /\ r = Tail(down[s]))
  BY <1>2
<1> HIDE DEF s, r
<1>4. QED
  BY <1>1, <1>2, <1>3, ShorterType, ZenonT(30) DEF DownOK

LEMMA EmitOK ==
  ASSUME NEW U, UpOK(U), NEW n \in Nodes, NEW f \in U, Emit(n, f) \/ EmitBeat(n, f)
  PROVE  UpOK(U)'
<1>1. CASE up' = up
  BY <1>1 DEF UpOK
<1>2. CASE /\ Len(up[session[n]]) < QueueSize \/ Len(up[session[n]]) <= QueueSize
           /\ up' = [up EXCEPT ![session[n]] = Append(@, f)]
  <2>1. session[n] \in Streams => Len(up[session[n]]) < QueueSize + 1
    <3>1. ASSUME session[n] \in Streams PROVE Len(up[session[n]]) \in Nat
      BY <3>1, LenProperties DEF UpOK
    <3>2. QED
      BY <1>2, <3>1, ChannelsAssumption
  <2>2. QueueSize + 1 \in Nat
    BY ChannelsAssumption
  <2>3. QED
    BY <1>2, <2>1, <2>2, LongerQueue, ZenonT(30) DEF UpOK
<1>3. QED
  BY <1>1, <1>2 DEF Emit, EmitBeat

\* A step that leaves streams and agents alone.
LEMMA QuietChannels ==
  ASSUME NEW U, NEW D, ChanTypeOK(U, D), UNCHANGED chanVars
  PROVE  ChanTypeOK(U, D)'
BY ZenonT(30) DEF ChanTypeOK, chanVars

\* The agent's own steps: it dials, reads its first frame, gives up.
LEMMA AgentStepsOK ==
  ASSUME NEW U, NEW D, ChanTypeOK(U, D), NEW n \in Nodes,
         \/ \E s \in Streams : Dial(s, n)
         \/ FirstFrame(n) \/ AwaitBroken(n) \/ SessionEnds(n) \/ AgentDies(n)
  PROVE  ChanTypeOK(U, D)'
<1>0. AgentsOK /\ UpOK(U) /\ DownOK(D)
  BY ChanSplit
<1>1. ASSUME NEW s \in Streams, Dial(s, n) PROVE ChanTypeOK(U, D)'
  <2>1. AgentsOK'
    BY <1>0, <1>1 DEF Dial, AgentsOK
  <2>2. UpOK(U)' /\ DownOK(D)'
    BY <1>0, <1>1, UnreadOK, IgnoreOK, ZenonT(30) DEF Dial
  <2>3. QED
    BY <2>1, <2>2, ChanSplit
<1>2. CASE FirstFrame(n) \/ AwaitBroken(n) \/ SessionEnds(n) \/ AgentDies(n)
  <2>1. AgentsOK' /\ up' = up
    BY <1>0, <1>2 DEF FirstFrame, AwaitBroken, SessionEnds, AgentDies, AgentsOK
  <2>2. UpOK(U)'
    BY <1>0, <2>1 DEF UpOK
  <2>3. (Received(n) /\ Consume(n)) \/ Ignore(n) \/ down' = down
    BY <1>2 DEF FirstFrame, AwaitBroken, SessionEnds, AgentDies
  <2>4. DownOK(D)'
    <3>1. CASE Received(n) /\ Consume(n)
      BY <1>0, <3>1, ConsumeOK
    <3>2. CASE Ignore(n)
      BY <1>0, <3>2, IgnoreOK DEF Ignore
    <3>3. CASE down' = down
      BY <1>0, <3>3 DEF DownOK
    <3>4. QED
      BY <2>3, <3>1, <3>2, <3>3
  <2>5. QED
    BY <2>1, <2>2, <2>4, ChanSplit
<1>3. QED
  BY <1>1, <1>2
=============================================================================
