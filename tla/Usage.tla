------------------------------- MODULE Usage --------------------------------
(***************************************************************************)
(* From an answered request to its usage record: forward and the usage     *)
(* capture of the gateway (gateway/internal/proxy), the reporter's queue   *)
(* and its drain goroutine (gateway/internal/usage), ReportUsage of the    *)
(* coordinator and the two stores (coordinator/internal/store), and the    *)
(* shutdown of the gateway.                                                *)
(*                                                                         *)
(* A request id is minted once and never used again, so a request is its   *)
(* id.  The content of a record is the node to be credited: token counts,  *)
(* key and model travel with it unchanged.                                 *)
(***************************************************************************)
EXTENDS Integers, Sequences

CONSTANTS
  Requests,   \* request ids (newRequestID)
  Nodes,      \* nodes that may answer
  None,       \* no node, no request
  QueueSize,  \* capacity of Reporter.ch (queueSize)
  Durable     \* the store is Postgres (TRUE) or a JSONL file (FALSE)

ASSUME UsageAssumption ==
  /\ None \notin Requests \cup Nodes
  /\ QueueSize \in Nat \ {0}
  /\ Durable \in BOOLEAN

VARIABLES
  gateway,    \* "up"; "closing" from the signal on; "exited"
  phase,      \* where each request is
  first,      \* the node of the first attempt
  served,     \* the node that answered
  parser,     \* the goroutine of capture.wrap
  got,        \* capture.got
  ch,         \* Reporter.ch
  drain,      \* the drain goroutine: its loop, the flush of Close, or gone
  sending,    \* the record in Reporter.send, None when there is none
  bill,       \* the node named by the record of each reported request
  net,        \* ReportUsage calls the coordinator has yet to deal with
  rows,       \* how many rows or lines each request has in the store
  credit,     \* the node named by the first of them
  seen,       \* JSONL.seen
  flushed     \* history: the queue when Close began

reqVars   == <<phase, first, served, parser, got>>
repVars   == <<ch, drain, sending, bill>>
storeVars == <<net, rows, credit, seen>>
useVars   == <<gateway, phase, first, served, parser, got, ch, drain, sending,
               bill, net, rows, credit, seen, flushed>>

Phases == {"new", "dialling", "redialling", "copying", "waiting", "finished"}

\* "scanning" until a chunk with usage comes by, "holding" it until it is
\* parsed, then "discarding" the rest.
ParserStates == {"off", "scanning", "holding", "discarding", "done"}

UseTypeOK ==
  /\ gateway \in {"up", "closing", "exited"}
  /\ phase \in [Requests -> Phases]
  /\ first \in [Requests -> Nodes \cup {None}]
  /\ served \in [Requests -> Nodes \cup {None}]
  /\ parser \in [Requests -> ParserStates]
  /\ got \in [Requests -> BOOLEAN]
  /\ ch \in Seq(Requests) /\ Len(ch) <= QueueSize
  /\ drain \in {"loop", "flush", "returned"}
  /\ sending \in Requests \cup {None}
  /\ bill \in [Requests -> Nodes \cup {None}]
  /\ net \subseteq Requests
  /\ rows \in [Requests -> Nat]
  /\ credit \in [Requests -> Nodes \cup {None}]
  /\ seen \subseteq Requests
  /\ flushed \subseteq Requests

UseInit ==
  /\ gateway = "up"
  /\ phase = [r \in Requests |-> "new"]
  /\ first = [r \in Requests |-> None]
  /\ served = [r \in Requests |-> None]
  /\ parser = [r \in Requests |-> "off"]
  /\ got = [r \in Requests |-> FALSE]
  /\ ch = <<>>
  /\ drain = "loop"
  /\ sending = None
  /\ bill = [r \in Requests |-> None]
  /\ net = {}
  /\ rows = [r \in Requests |-> 0]
  /\ credit = [r \in Requests |-> None]
  /\ seen = {}
  /\ flushed = {}

Queued == {ch[i] : i \in DOMAIN ch}

-----------------------------------------------------------------------------
(* handleInference and forward, after the replica has been picked. *)

\* The listener is closed first thing in a shutdown.
Begin(r, n) ==
  /\ gateway = "up" /\ phase[r] = "new"
  /\ phase' = [phase EXCEPT ![r] = "dialling"]
  /\ first' = [first EXCEPT ![r] = n]
  /\ UNCHANGED <<gateway, served, parser, got, repVars, storeVars, flushed>>

\* Faulty variant: an attempt is also given up once the answer has begun.
GivingUpLate(r) == phase[r] \in {"dialling", "copying"}

\* Only an attempt of which nothing was written is given up.
GivingUp(r) == phase[r] = "dialling"

\* The first attempt fails, and a second replica is found.
Retry(r) ==
  /\ gateway # "exited" /\ GivingUp(r)
  /\ phase' = [phase EXCEPT ![r] = "redialling"]
  /\ UNCHANGED <<gateway, first, served, parser, got, repVars, storeVars, flushed>>

\* No second replica is found, or it fails too: 502.
Refuse(r) ==
  /\ gateway # "exited" /\ phase[r] \in {"dialling", "redialling"}
  /\ phase' = [phase EXCEPT ![r] = "finished"]
  /\ UNCHANGED <<gateway, first, served, parser, got, repVars, storeVars, flushed>>

\* The response headers are in: ModifyResponse wraps the body.
Answer(r, n) ==
  /\ gateway # "exited"
  /\ \/ phase[r] = "dialling" /\ n = first[r]
     \/ phase[r] = "redialling"
  /\ phase' = [phase EXCEPT ![r] = "copying"]
  /\ served' = [served EXCEPT ![r] = n]
  /\ parser' = [parser EXCEPT ![r] = "scanning"]
  /\ UNCHANGED <<gateway, first, got, repVars, storeVars, flushed>>

\* The chunk with the usage block passes: the pipe hands it to the parser
\* before it goes on to the client.
UsagePasses(r) ==
  /\ gateway # "exited" /\ phase[r] = "copying" /\ parser[r] = "scanning"
  /\ parser' = [parser EXCEPT ![r] = "holding"]
  /\ UNCHANGED <<gateway, phase, first, served, got, repVars, storeVars, flushed>>

SetUsage(r) ==
  /\ gateway # "exited" /\ parser[r] = "holding"
  /\ parser' = [parser EXCEPT ![r] = "discarding"]
  /\ got' = [got EXCEPT ![r] = TRUE]
  /\ UNCHANGED <<gateway, phase, first, served, repVars, storeVars, flushed>>

\* The body is closed, the parser reads the end of it and closes done.
ParserEnds(r) ==
  /\ gateway # "exited" /\ parser[r] \in {"scanning", "discarding"}
  /\ phase[r] \in {"waiting", "finished"}
  /\ parser' = [parser EXCEPT ![r] = "done"]
  /\ UNCHANGED <<gateway, phase, first, served, got, repVars, storeVars, flushed>>

BodyEnds(r) ==
  /\ gateway # "exited" /\ phase[r] = "copying"
  /\ phase' = [phase EXCEPT ![r] = "waiting"]
  /\ UNCHANGED <<gateway, first, served, parser, got, repVars, storeVars, flushed>>

\* The copy to the client fails: the reverse proxy aborts the handler, and
\* forward does not go on.
Abort(r) ==
  /\ gateway # "exited" /\ phase[r] = "copying"
  /\ phase' = [phase EXCEPT ![r] = "finished"]
  /\ UNCHANGED <<gateway, first, served, parser, got, repVars, storeVars, flushed>>

\* Faulty variant: the replica of the first attempt is credited.
CreditedFirst(r) == first[r]

\* The replica this call of forward was for.
Credited(r) == served[r]

\* Faulty variant: a full queue does not turn a record away.
RoomAlways == TRUE

Room == Len(ch) < QueueSize

\* wait returns, because the parser is done or after usageWait; what has been
\* captured by then is reported, without blocking: a full queue drops it.
Report(r) ==
  /\ gateway # "exited" /\ phase[r] = "waiting"
  /\ phase' = [phase EXCEPT ![r] = "finished"]
  /\ IF got[r] /\ Room
     THEN /\ ch' = Append(ch, r)
          /\ bill' = [bill EXCEPT ![r] = Credited(r)]
     ELSE UNCHANGED <<ch, bill>>
  /\ UNCHANGED <<gateway, first, served, parser, got, drain, sending, storeVars, flushed>>

-----------------------------------------------------------------------------
(* The drain goroutine. *)

\* A record is received, in the loop or in the flush, and its call goes out.
Take ==
  /\ gateway # "exited" /\ drain # "returned" /\ sending = None /\ ch # <<>>
  /\ sending' = Head(ch)
  /\ ch' = Tail(ch)
  /\ net' = net \cup {Head(ch)}
  /\ UNCHANGED <<gateway, reqVars, drain, bill, rows, credit, seen, flushed>>

\* stop is closed and select picks it, although records may be waiting too.
StopSeen ==
  /\ gateway = "closing" /\ drain = "loop" /\ sending = None
  /\ drain' = "flush"
  /\ UNCHANGED <<gateway, reqVars, ch, sending, bill, storeVars, flushed>>

\* Faulty variant: a closed stop ends the goroutine at once.
FlushOverAtOnce == TRUE

\* The default branch: nothing is queued any more.
FlushOver == ch = <<>>

DrainReturns ==
  /\ gateway # "exited" /\ drain = "flush" /\ sending = None
  /\ FlushOver
  /\ drain' = "returned"
  /\ UNCHANGED <<gateway, reqVars, ch, sending, bill, storeVars, flushed>>

\* Faulty variant: send has no deadline, and waits for a coordinator that
\* does not answer.
ExpiresOnReply == sending \notin net

\* reportTimeout: the call is given up, or its connection breaks.  The
\* coordinator may still be working on it.
Expires == TRUE

SendFails ==
  /\ gateway # "exited" /\ sending # None
  /\ Expires
  /\ sending' = None
  /\ UNCHANGED <<gateway, reqVars, ch, drain, bill, storeVars, flushed>>

-----------------------------------------------------------------------------
(* ReportUsage and Insert. *)

\* What Insert takes for a duplicate: ON CONFLICT, or the map of the process.
Duplicate(r) == IF Durable THEN rows[r] > 0 ELSE r \in seen

\* The answer ends the call of the reporter if it is heard in time.
Answered(r, heard) == IF heard /\ sending = r THEN None ELSE sending

Insert(r, heard) ==
  /\ r \in net
  /\ net' = net \ {r}
  /\ IF Duplicate(r)
     THEN UNCHANGED <<rows, credit>>
     ELSE /\ rows' = [rows EXCEPT ![r] = @ + 1]
          /\ credit' = [credit EXCEPT ![r] = IF rows[r] = 0 THEN bill[r] ELSE @]
  /\ seen' = IF Durable THEN seen ELSE seen \cup {r}
  /\ sending' = Answered(r, heard)
  /\ UNCHANGED <<gateway, reqVars, ch, drain, bill, flushed>>

\* The call does not arrive, or the store fails: Unavailable.
InsertFails(r, heard) ==
  /\ r \in net
  /\ net' = net \ {r}
  /\ sending' = Answered(r, heard)
  /\ UNCHANGED <<gateway, reqVars, ch, drain, bill, rows, credit, seen, flushed>>

\* The calls in progress are gone, and so is the map of the JSONL store.
CoordinatorRestarts ==
  /\ net' = {}
  /\ seen' = {}
  /\ UNCHANGED <<gateway, reqVars, repVars, rows, credit, flushed>>

-----------------------------------------------------------------------------
(* Shutdown of the gateway. *)

\* The signal: Shutdown closes the listener, at which Serve returns and main
\* runs Reporter.Close.  Nobody waits for the handlers still running.
Terminate ==
  /\ gateway = "up"
  /\ gateway' = "closing"
  /\ flushed' = Queued
  /\ UNCHANGED <<reqVars, repVars, storeVars>>

\* Close returns when the drain goroutine has, and with main the process ends.
Exit ==
  /\ gateway = "closing" /\ drain = "returned"
  /\ gateway' = "exited"
  /\ UNCHANGED <<reqVars, repVars, storeVars, flushed>>

UseNext ==
  \/ \E r \in Requests, n \in Nodes : Begin(r, n) \/ Answer(r, n)
  \/ \E r \in Requests : \/ Retry(r) \/ Refuse(r)
                         \/ UsagePasses(r) \/ SetUsage(r) \/ ParserEnds(r)
                         \/ BodyEnds(r) \/ Abort(r) \/ Report(r)
  \/ Take \/ StopSeen \/ DrainReturns \/ SendFails
  \/ \E r \in Requests, heard \in BOOLEAN : Insert(r, heard) \/ InsertFails(r, heard)
  \/ CoordinatorRestarts
  \/ Terminate \/ Exit

UseSpec == UseInit /\ [][UseNext]_useVars

\* The goroutines of the gateway run on, and the deadline of a call passes.
\* Nothing is assumed of the coordinator or of the nodes.
UseFairSpec ==
  /\ UseSpec
  /\ WF_useVars(Take) /\ WF_useVars(StopSeen) /\ WF_useVars(DrainReturns)
  /\ WF_useVars(SendFails) /\ WF_useVars(Exit)

-----------------------------------------------------------------------------

\* What the store holds implements the ledger: a request answered by a second
\* replica, reported late, over a lost reply or around a restart of the
\* coordinator has at most one row, in the JSONL file too, and the row names
\* the node that answered (the request id of handleInference, NodeID in
\* forward, Insert).
Promise == INSTANCE Ledger WITH served <- served, billed <- rows, credit <- credit

ImplementsLedger == Promise!LedgerSpec

\* When the process ends, every record that was queued when Close began has
\* been through send, and no send is cut short (drain, Close).
CloseFlushes ==
  gateway = "exited" => sending = None /\ flushed \cap Queued = {}

\* The shutdown ends, even if the coordinator never answers again: "so a hung
\* coordinator cannot stall the drain goroutine" (reportTimeout, Close).
CloseReturns == gateway = "closing" ~> gateway = "exited"

\* "a clean shutdown does not lose usage that was successfully captured"
\* (drain): when the process ends, no record is left in the queue, and no
\* handler that has its answer and its usage is still about to report.
ShutdownKeepsUsage ==
  gateway = "exited" =>
    /\ Queued = {}
    /\ \A r \in Requests : ~(got[r] /\ phase[r] = "waiting")
=============================================================================
