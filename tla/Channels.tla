------------------------------ MODULE Channels ------------------------------
(***************************************************************************)
(* Agents at the other end of the registry's streams.  A stream carries    *)
(* frames in order, both ways; when its transport breaks, what is under    *)
(* way may still be read or may be lost, for either end may see the        *)
(* failure at any time.  An agent's outbound queue and the transport after *)
(* it are one queue here.                                                  *)
(*                                                                         *)
(* The agent is runOnce and Run of agent/internal/client without their     *)
(* goroutines, which AgentSession.tla has: an agent is off (no session),   *)
(* awaits its RegisterAck, serves, or is stuck for good, as a session that *)
(* fails before the RegisterAck is.                                        *)
(***************************************************************************)
EXTENDS Registry, Sequences

CONSTANTS
  QueueSize,  \* frames an agent's queue takes
  Window      \* frames a coordinator's stream takes before Send waits

ASSUME ChannelsAssumption == QueueSize \in Nat \ {0} /\ Window \in Nat \ {0}

VARIABLES
  agent,      \* where an agent's runOnce is
  session,    \* the stream it runs on, None when it has none
  up,         \* frames on their way to the coordinator
  down        \* frames on their way to the agent

chanVars == <<agent, session, up, down>>

ChanTypeOK(UpFrame, DownFrame) ==
  /\ agent \in [Nodes -> {"off", "await", "serve", "stuck"}]
  /\ session \in [Nodes -> Streams \cup {None}]
  /\ up \in [Streams -> Seq(UpFrame)]
  /\ down \in [Streams -> Seq(DownFrame)]
  /\ \A s \in Streams : Len(up[s]) <= QueueSize + 1 /\ Len(down[s]) <= Window

ChanInit ==
  /\ agent = [n \in Nodes |-> "off"]
  /\ session = [n \in Nodes |-> None]
  /\ up = [s \in Streams |-> <<>>]
  /\ down = [s \in Streams |-> <<>>]

\* Client.out is not nil.
Serving(n) == agent[n] = "serve"

-----------------------------------------------------------------------------
(* The coordinator's end. *)

\* Somebody will read what is sent on stream s.  Of a frame sent on a broken
\* stream, or to an agent that is stuck, nothing is heard again.
Heard(s) == link[s] /\ \E n \in Nodes : session[n] = s /\ agent[n] # "stuck"

\* Send waits for room and succeeds, or fails on a broken stream.
CanSend(s, ok) ==
  IF ok THEN handler[s] # "none" /\ (Heard(s) => Len(down[s]) < Window)
        ELSE ~link[s]

Put(s, f) ==
  down' = IF Heard(s) THEN [down EXCEPT ![s] = Append(@, f)] ELSE down

Arrived(s) == up[s] # <<>>

Take(s) == up' = [up EXCEPT ![s] = Tail(@)]

\* The handler of s has returned: what it has not read is lost.
Unread(s) == up' = [up EXCEPT ![s] = <<>>]

-----------------------------------------------------------------------------
(* The agent's end. *)

Free(s) == handler[s] = "none" /\ \A n \in Nodes : session[n] # s

\* The stream opens and its Register reaches the coordinator.
Dial(s, n) ==
  /\ agent[n] = "off" /\ Free(s)
  /\ Register(s, n)
  /\ agent' = [agent EXCEPT ![n] = "await"]
  /\ session' = [session EXCEPT ![n] = s]
  /\ up' = [up EXCEPT ![s] = <<>>]
  /\ down' = [down EXCEPT ![s] = <<>>]

Received(n) == session[n] # None /\ down[session[n]] # <<>>

NextFrame(n) == Head(down[session[n]])

Consume(n) == down' = [down EXCEPT ![session[n]] = Tail(@)]

Ignore(n) == down' = [down EXCEPT ![session[n]] = <<>>]

\* "First reply must be RegisterAck."  A session that ends before it is never
\* torn down: runOnce waits for a writer that nothing wakes.
FirstFrame(n) ==
  /\ agent[n] = "await" /\ Received(n)
  /\ IF NextFrame(n).kind = "ack"
     THEN agent' = [agent EXCEPT ![n] = "serve"] /\ Consume(n)
     ELSE agent' = [agent EXCEPT ![n] = "stuck"] /\ Ignore(n)
  /\ UNCHANGED <<regVars, session, up>>

AwaitBroken(n) ==
  /\ agent[n] = "await" /\ ~link[session[n]]
  /\ agent' = [agent EXCEPT ![n] = "stuck"]
  /\ Ignore(n)
  /\ UNCHANGED <<regVars, session, up>>

\* Recv fails; Run dials again after its backoff.
SessionEnds(n) ==
  /\ agent[n] = "serve" /\ ~link[session[n]]
  /\ agent' = [agent EXCEPT ![n] = "off"]
  /\ session' = [session EXCEPT ![n] = None]
  /\ Ignore(n)
  /\ UNCHANGED <<regVars, up>>

\* The agent's process ends, and its transport with it.
AgentDies(n) ==
  /\ agent' = [agent EXCEPT ![n] = "off"]
  /\ session' = [session EXCEPT ![n] = None]
  /\ IF session[n] = None
     THEN UNCHANGED <<link, down>>
     ELSE /\ link' = [link EXCEPT ![session[n]] = FALSE]
          /\ Ignore(n)
  /\ UNCHANGED <<nodeVars, handler, owner, excused, up>>

\* Faulty variant: the queue takes any number of updates.
EmitUnbounded(n, f) ==
  up' = IF Serving(n) /\ link[session[n]]
        THEN [up EXCEPT ![session[n]] = Append(@, f)] ELSE up

\* emit, emitDeployment: dropped when there is no session or no room, and lost
\* with a broken stream.
Emit(n, f) ==
  up' = IF Serving(n) /\ link[session[n]] /\ Len(up[session[n]]) < QueueSize
        THEN [up EXCEPT ![session[n]] = Append(@, f)] ELSE up

\* A heartbeat waits for room, ahead of whatever comes after it.
EmitBeat(n, f) ==
  /\ Serving(n) /\ link[session[n]] /\ Len(up[session[n]]) <= QueueSize
  /\ up' = [up EXCEPT ![session[n]] = Append(@, f)]
=============================================================================
