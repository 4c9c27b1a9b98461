------------------------------ MODULE Registry ------------------------------
(***************************************************************************)
(* The coordinator's node registry (coordinator/internal/registry) and the *)
(* part of the agent stream handler that drives it (Connect in             *)
(* coordinator/internal/server).  Every registry method holds the registry *)
(* mutex for its whole body, so each is one step; the handlers of the      *)
(* streams, the reaper and the environment interleave freely.              *)
(*                                                                         *)
(* Time is kept as ages: silence[n] is now - LastSeen counted in heartbeat *)
(* intervals.  Only "more than ReapAfter intervals" is ever asked of it,   *)
(* so it saturates one above ReapAfter.                                    *)
(*                                                                         *)
(* A member of Streams is a slot for one stream; a slot whose handler has  *)
(* returned is used again by a later stream.                               *)
(***************************************************************************)
EXTENDS Integers

CONSTANTS
  Nodes,      \* node ids
  Streams,    \* stream slots
  None,       \* the nil of Node.Send
  Addrs,      \* what heartbeats say of the data-plane address: whether the
              \* agent knows it (TRUE) or sends it empty (FALSE)
  ReapAfter   \* heartbeat intervals a node may miss (3 in reap)

ASSUME RegistryAssumption ==
  /\ None \notin Nodes \cup Streams
  /\ Addrs \subseteq BOOLEAN
  /\ ReapAfter \in Nat

VARIABLES
  known,      \* the keys of Registry.nodes
  status,     \* Node.Status
  silence,    \* now - Node.LastSeen
  send,       \* Node.Send: the stream it writes to, None when nil
  addr,       \* whether Node.DataPlaneAddr is non-empty
  handler,    \* where the Connect handler of a stream is
  owner,      \* the handler's nodeID
  link,       \* whether the stream's transport still works
  excused     \* history: streams that shared their node with another
              \* handler, or were registered when the reaper struck

nodeVars   == <<known, status, silence, send, addr>>
streamVars == <<handler, owner, link>>
regVars    == <<known, status, silence, send, addr, handler, owner, link, excused>>

Statuses == {"ONLINE", "OFFLINE"}

RegTypeOK ==
  /\ known \subseteq Nodes
  /\ status \in [Nodes -> Statuses]
  /\ silence \in [Nodes -> 0..(ReapAfter + 1)]
  /\ send \in [Nodes -> Streams \cup {None}]
  /\ addr \in [Nodes -> BOOLEAN]
  /\ handler \in [Streams -> {"none", "acking", "serving"}]
  /\ owner \in [Streams -> Nodes \cup {None}]
  /\ link \in [Streams -> BOOLEAN]
  /\ excused \subseteq Streams

RegInit ==
  /\ known = {}
  /\ status = [n \in Nodes |-> "OFFLINE"]
  /\ silence = [n \in Nodes |-> 0]
  /\ send = [n \in Nodes |-> None]
  /\ addr = [n \in Nodes |-> FALSE]
  /\ handler = [s \in Streams |-> "none"]
  /\ owner = [s \in Streams |-> None]
  /\ link = [s \in Streams |-> FALSE]
  /\ excused = {}

-----------------------------------------------------------------------------
(* The registry's methods. *)

\* Faulty variant: the handle is set only when the node is new.
UpsertNewOnly(n, s) ==
  /\ known' = known \cup {n}
  /\ status' = [status EXCEPT ![n] = "ONLINE"]
  /\ silence' = [silence EXCEPT ![n] = 0]
  /\ send' = [send EXCEPT ![n] = IF n \in known THEN @ ELSE s]
  /\ UNCHANGED addr

Upsert(n, s) ==
  /\ known' = known \cup {n}
  /\ status' = [status EXCEPT ![n] = "ONLINE"]
  /\ silence' = [silence EXCEPT ![n] = 0]
  /\ send' = [send EXCEPT ![n] = s]
  /\ UNCHANGED addr

\* A heartbeat with an empty address (a = FALSE) keeps the address on record.
\* The handle is not restored.
Touch(n, a) ==
  IF n \in known
  THEN /\ status' = [status EXCEPT ![n] = "ONLINE"]
       /\ silence' = [silence EXCEPT ![n] = 0]
       /\ addr' = [addr EXCEPT ![n] = @ \/ a]
       /\ UNCHANGED <<known, send>>
  ELSE UNCHANGED nodeVars

\* Faulty variant: the node goes OFFLINE but the handle stays on record.
MarkDisconnectedKeepsHandle(n) ==
  IF n \in known
  THEN /\ status' = [status EXCEPT ![n] = "OFFLINE"]
       /\ UNCHANGED <<known, silence, send, addr>>
  ELSE UNCHANGED nodeVars

\* Whichever stream of the node is ending, the handle on record is dropped.
MarkDisconnected(n) ==
  IF n \in known
  THEN /\ status' = [status EXCEPT ![n] = "OFFLINE"]
       /\ send' = [send EXCEPT ![n] = None]
       /\ UNCHANGED <<known, silence, addr>>
  ELSE UNCHANGED nodeVars

\* Faulty variant: a node whose stream is still open is taken for alive.
OverdueWithoutStream(n) ==
  /\ status[n] = "ONLINE"
  /\ silence[n] > ReapAfter
  /\ send[n] = None

Overdue(n) ==
  /\ status[n] = "ONLINE"
  /\ silence[n] > ReapAfter

\* The streams themselves stay open.
Reap ==
  /\ \E n \in known : Overdue(n)
  /\ status' = [n \in Nodes |->
                  IF n \in known /\ Overdue(n) THEN "OFFLINE" ELSE status[n]]
  /\ send' = [n \in Nodes |->
                IF n \in known /\ Overdue(n) THEN None ELSE send[n]]
  /\ excused' = excused \cup
       {s \in Streams : /\ handler[s] # "none"
                        /\ owner[s] \in known /\ Overdue(owner[s])}
  /\ UNCHANGED <<known, silence, addr, streamVars>>

-----------------------------------------------------------------------------
(* The Connect handler of a stream. *)

Rivals(s, n) == {t \in Streams \ {s} : handler[t] # "none" /\ owner[t] = n}

\* The first message is a Register for node n: the id the agent was given
\* before, or the one minted for an agent that has none yet.  The agent closed
\* any earlier stream before it dialled again (runOnce), but the handler of
\* that one may not have noticed.  From here on others can send on the new
\* stream, the RegisterAck not yet being out.
Register(s, n) ==
  /\ handler[s] = "none"
  /\ Upsert(n, s)
  /\ handler' = [handler EXCEPT ![s] = "acking"]
  /\ owner' = [owner EXCEPT ![s] = n]
  /\ link' = [t \in Streams |-> t = s \/ (link[t] /\ t \notin Rivals(s, n))]
  /\ excused' = IF Rivals(s, n) = {} THEN excused \ {s}
                ELSE excused \cup Rivals(s, n) \cup {s}

SendAck(s) ==
  /\ handler[s] = "acking"
  /\ handler' = [handler EXCEPT ![s] = "serving"]
  /\ UNCHANGED <<nodeVars, owner, link, excused>>

\* The deferred MarkDisconnected, with every other local of the handler gone.
Return(s) ==
  /\ MarkDisconnected(owner[s])
  /\ handler' = [handler EXCEPT ![s] = "none"]
  /\ owner' = [owner EXCEPT ![s] = None]
  /\ link' = [link EXCEPT ![s] = FALSE]
  /\ UNCHANGED excused

AckFails(s) ==
  /\ handler[s] = "acking"
  /\ ~link[s]
  /\ Return(s)

\* stream.Recv fails.
StreamEnds(s) ==
  /\ handler[s] = "serving"
  /\ ~link[s]
  /\ Return(s)

\* A heartbeat sent before the transport broke may still be delivered after.
Heartbeat(s, a) ==
  /\ handler[s] = "serving"
  /\ Touch(owner[s], a)
  /\ UNCHANGED <<streamVars, excused>>

\* A redundant Register on a live stream carries the id of the RegisterAck.
ReRegister(s) ==
  /\ handler[s] = "serving"
  /\ Upsert(owner[s], s)
  /\ UNCHANGED <<streamVars, excused>>

-----------------------------------------------------------------------------
(* The environment. *)

LinkBreaks(s) ==
  /\ link[s]
  /\ link' = [link EXCEPT ![s] = FALSE]
  /\ UNCHANGED <<nodeVars, handler, owner, excused>>

Older(age, cap) == IF age > cap THEN age ELSE age + 1

\* One heartbeat interval passes.
Tick ==
  /\ silence' = [n \in Nodes |-> Older(silence[n], ReapAfter)]
  /\ UNCHANGED <<known, status, send, addr, streamVars, excused>>

\* The coordinator dies and comes back: the registry is in memory only.
Restart ==
  /\ known' = {}
  /\ status' = [n \in Nodes |-> "OFFLINE"]
  /\ silence' = [n \in Nodes |-> 0]
  /\ send' = [n \in Nodes |-> None]
  /\ addr' = [n \in Nodes |-> FALSE]
  /\ handler' = [s \in Streams |-> "none"]
  /\ owner' = [s \in Streams |-> None]
  /\ link' = [s \in Streams |-> FALSE]
  /\ excused' = {}

RegNext ==
  \/ \E s \in Streams, n \in Nodes : Register(s, n)
  \/ \E s \in Streams : SendAck(s)
  \/ \E s \in Streams : AckFails(s)
  \/ \E s \in Streams, a \in Addrs : Heartbeat(s, a)
  \/ \E s \in Streams : ReRegister(s)
  \/ \E s \in Streams : StreamEnds(s)
  \/ \E s \in Streams : LinkBreaks(s)
  \/ Reap
  \/ Tick
  \/ Restart

RegSpec == RegInit /\ [][RegNext]_regVars

\* The clock runs and so does the reaper's ticker (StartReaper), whatever the
\* agents and their transports do.
ReaperFairness == WF_regVars(Tick) /\ WF_regVars(Reap)

ReaperSpec == RegSpec /\ ReaperFairness

\* Besides, a handler gets through its sends and notices a broken transport,
\* and a connected agent keeps heartbeating.
RegFairness ==
  /\ ReaperFairness
  /\ \A s \in Streams :
       /\ WF_regVars(SendAck(s) \/ AckFails(s))
       /\ WF_regVars(StreamEnds(s))
       /\ WF_regVars(link[s] /\ \E a \in Addrs : Heartbeat(s, a))

RegFairSpec == RegSpec /\ RegFairness

-----------------------------------------------------------------------------
(* Properties. *)

\* Node.Send, when it is not nil, writes to a stream whose handler is still
\* running and belongs to that very node, and the node is ONLINE: no order of
\* registrations, returning handlers, reaper passes and late heartbeats leaves
\* the scheduler or the placement code a handle to a finished stream or to
\* another node's, nor an OFFLINE node with a handle.
HandleSound ==
  \A n \in Nodes :
    send[n] # None =>
      /\ status[n] = "ONLINE"
      /\ handler[send[n]] # "none"
      /\ owner[send[n]] = n

\* A running handler whose stream is not its node's handle has lost it in one
\* of two ways: another handler of the same node ran at the same time (the
\* agent reconnected before its old stream was noticed dead, and the old
\* handler's deferred MarkDisconnected or the new Upsert took the handle), or
\* the reaper struck while the stream was open.
HandleLossExplained ==
  \A s \in Streams :
    handler[s] # "none" /\ send[owner[s]] # s => s \in excused

\* A running handler has registered its node, and two running handlers of one
\* node are both in the history.  With these the two invariants above are
\* inductive.
RunningRegistered ==
  \A s \in Streams : handler[s] # "none" => owner[s] \in known

RivalsExcused ==
  \A s, t \in Streams :
    /\ s # t
    /\ handler[s] # "none" /\ handler[t] # "none"
    /\ owner[s] = owner[t]
    => s \in excused

RegIInv ==
  /\ RegTypeOK
  /\ HandleSound
  /\ HandleLossExplained
  /\ RunningRegistered
  /\ RivalsExcused

\* A node that falls silent while ONLINE is heard from again or goes OFFLINE,
\* even if its transport never reports an error (reap).
SilenceNoticed ==
  \A n \in Nodes :
    (status[n] = "ONLINE" /\ silence[n] > 0)
      ~> (status[n] = "OFFLINE" \/ silence[n] = 0)

\* What the comment on Node.Send says of a node with a live stream: it has a
\* handle, or gets it back.
LiveStreamHasHandle ==
  \A s \in Streams :
    []<>~(handler[s] = "serving" /\ link[s] /\ send[owner[s]] = None)
=============================================================================
