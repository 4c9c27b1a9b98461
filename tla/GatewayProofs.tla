--------------------------- MODULE GatewayProofs ----------------------------
(***************************************************************************)
(* Proofs about the gateway, for any number of requests.  Usage records,   *)
(* for any nodes, queue capacity and either store: the types, the flush on *)
(* Close, and that the stored rows implement Ledger.  Routing, for any     *)
(* number of replicas, any cache lifetime and any delay of the             *)
(* coordinator's answers: the types, and which replicas a request meets.   *)
(***************************************************************************)
EXTENDS Usage, Routing, TLAPS

(* Usage records. *)

\* The request has been answered and the record for it names who did.
Reported(r) ==
  /\ phase[r] = "finished"
  /\ served[r] # None
  /\ bill[r] = served[r]

\* Nobody has answered a request that is still being dialled.
DiallingUnserved ==
  \A r \in Requests :
    /\ phase[r] \in {"new", "dialling", "redialling"} => served[r] = None
    /\ phase[r] \in {"copying", "waiting"} => served[r] # None

\* A record is queued once, and only before it is sent.
QueuedOnce ==
  /\ \A i, j \in 1..Len(ch) : ch[i] = ch[j] => i = j
  /\ \A i \in 1..Len(ch) :
       Reported(ch[i]) /\ ch[i] # sending /\ ch[i] \notin net /\ rows[ch[i]] = 0

\* A call under way is for a request that has no row yet.
CalledOnce ==
  /\ sending # None => Reported(sending)
  /\ \A r \in net : Reported(r) /\ rows[r] = 0

\* At most one row, and it credits who answered.
RowsRight ==
  \A r \in Requests :
    /\ rows[r] \in {0, 1}
    /\ rows[r] = 1 => Reported(r)

\* A request's usage record along the pipeline.
Pipeline == DiallingUnserved /\ QueuedOnce /\ CalledOnce /\ RowsRight

\* What was queued when Close began is past send before drain returns, and
\* cannot be queued again.
CloseOrder ==
  /\ gateway = "exited" => drain = "returned"
  /\ drain # "loop" => gateway # "up"
  /\ \A r \in flushed : phase[r] = "finished"
  /\ drain = "returned" => sending = None /\ flushed \cap Queued = {}

-----------------------------------------------------------------------------

\* What Append and Tail do to the positions of the queue (Reporter.ch).
LEMMA QueueAppend ==
  ASSUME NEW q \in Seq(Requests), NEW r \in Requests
  PROVE  /\ Append(q, r) \in Seq(Requests)
         /\ Len(Append(q, r)) = Len(q) + 1
         /\ \A i \in 1..Len(q) : Append(q, r)[i] = q[i]
         /\ Append(q, r)[Len(q) + 1] = r
  OBVIOUS

\* Receiving takes the head and moves the others up (drain).
LEMMA QueueTail ==
  ASSUME NEW q \in Seq(Requests), q # <<>>
  PROVE  /\ Len(q) \in Nat \ {0}
         /\ Head(q) = q[1] /\ Head(q) \in Requests
         /\ Tail(q) \in Seq(Requests)
         /\ Len(Tail(q)) = Len(q) - 1
         /\ \A i \in 1..Len(Tail(q)) : Tail(q)[i] = q[i + 1]
  OBVIOUS

\* The type invariant of the gateway's metering and of the store.
THEOREM UseTypeCorrect == UseSpec => []UseTypeOK
<1>1. UseInit => UseTypeOK
  BY UsageAssumption, SMTT(30) DEF UseInit, UseTypeOK, Phases, ParserStates
<1>2. UseTypeOK /\ [UseNext]_useVars => UseTypeOK'
  <2> SUFFICES ASSUME UseTypeOK, [UseNext]_useVars
               PROVE  UseTypeOK'
    OBVIOUS
  <2> USE UsageAssumption DEF UseTypeOK, Phases, ParserStates, reqVars, repVars, storeVars
  <2>1. ASSUME NEW r \in Requests, NEW n \in Nodes, Begin(r, n)
        PROVE  UseTypeOK'
    BY <2>1 DEF Begin
  <2>2. ASSUME NEW r \in Requests, NEW n \in Nodes, Answer(r, n)
        PROVE  UseTypeOK'
    BY <2>2 DEF Answer
  <2>3. ASSUME NEW r \in Requests, Retry(r) \/ Refuse(r) \/ BodyEnds(r) \/ Abort(r)
        PROVE  UseTypeOK'
    BY <2>3, ZenonT(30) DEF Retry, Refuse, BodyEnds, Abort
  <2>4. ASSUME NEW r \in Requests, UsagePasses(r) \/ SetUsage(r) \/ ParserEnds(r)
        PROVE  UseTypeOK'
    <3>1. CASE UsagePasses(r)
      BY <3>1 DEF UsagePasses
    <3>2. CASE SetUsage(r)
      <4>1. got' \in [Requests -> BOOLEAN] /\ parser' \in [Requests -> ParserStates]
        BY <3>2, Zenon DEF SetUsage
      <4>2. QED
        BY <3>2, <4>1 DEF SetUsage
    <3>3. CASE ParserEnds(r)
      BY <3>3 DEF ParserEnds
    <3>4. QED
      BY <2>4, <3>1, <3>2, <3>3
  <2>5. ASSUME NEW r \in Requests, Report(r)
        PROVE  UseTypeOK'
    <3>1. CASE got[r] /\ Room
      <4>1. /\ ch' = Append(ch, r)
            /\ bill' = [bill EXCEPT ![r] = served[r]]
            /\ phase' = [phase EXCEPT ![r] = "finished"]
            /\ UNCHANGED <<gateway, first, served, parser, got, drain, sending,
                           net, rows, credit, seen, flushed>>
        BY <2>5, <3>1 DEF Report, Credited
      <4>2. ch' \in Seq(Requests) /\ Len(ch') <= QueueSize
        BY <3>1, <4>1, QueueAppend DEF Room
      <4>3. QED
        BY <4>1, <4>2
    <3>2. CASE ~(got[r] /\ Room)
      BY <2>5, <3>2 DEF Report
    <3>3. QED
      BY <3>1, <3>2
  <2>6. CASE Take
    <3>1. /\ ch' \in Seq(Requests) /\ Len(ch') <= QueueSize
          /\ Head(ch) \in Requests
      BY <2>6, QueueTail DEF Take
    <3>2. QED
      BY <2>6, <3>1 DEF Take
  <2>7. CASE StopSeen \/ DrainReturns \/ SendFails \/ CoordinatorRestarts \/ Exit
    BY <2>7 DEF StopSeen, DrainReturns, SendFails, CoordinatorRestarts, Exit
  <2>8. ASSUME NEW r \in Requests, NEW heard \in BOOLEAN, Insert(r, heard)
        PROVE  UseTypeOK'
    <3>1. rows' \in [Requests -> Nat] /\ credit' \in [Requests -> Nodes \cup {None}]
      <4>1. CASE Duplicate(r)
        BY <2>8, <4>1 DEF Insert
      <4>2. CASE ~Duplicate(r)
        <5>1. /\ rows' = [rows EXCEPT ![r] = rows[r] + 1]
              /\ credit' = [credit EXCEPT ![r] = IF rows[r] = 0 THEN bill[r] ELSE credit[r]]
          BY <2>8, <4>2, Zenon DEF Insert
        <5>2. QED
          BY <5>1
      <4>3. QED
        BY <4>1, <4>2
    <3>2. sending' \in Requests \cup {None}
      BY <2>8 DEF Insert, Answered
    <3>3. QED
      BY <2>8, <3>1, <3>2 DEF Insert
  <2>9. ASSUME NEW r \in Requests, NEW heard \in BOOLEAN, InsertFails(r, heard)
        PROVE  UseTypeOK'
    BY <2>9 DEF InsertFails, Answered
  <2>10. CASE Terminate
    BY <2>10 DEF Terminate, Queued
  <2>11. CASE UNCHANGED useVars
    BY <2>11 DEF useVars
  <2> HIDE DEF UseTypeOK
  <2>12. QED
    BY <2>1, <2>2, <2>3, <2>4, <2>5, <2>6, <2>7, <2>8, <2>9, <2>10, <2>11, ZenonT(30)
    DEF UseNext
<1>3. QED
  BY <1>1, <1>2, PTL DEF UseSpec

-----------------------------------------------------------------------------

\* A step that moves no record and forgets no report keeps the records right.
LEMMA RecordsStay ==
  ASSUME UseTypeOK, QueuedOnce, CalledOnce, RowsRight,
         \A q \in Requests : Reported(q) => Reported(q)',
         UNCHANGED <<ch, sending, net, rows>>
  PROVE  QueuedOnce' /\ CalledOnce' /\ RowsRight'
<1>1. \A i \in 1..Len(ch) : ch[i] \in Requests
  BY DEF UseTypeOK
<1>2. QueuedOnce'
  BY <1>1 DEF QueuedOnce
<1>3. CalledOnce'
  BY DEF CalledOnce, UseTypeOK
<1>4. RowsRight'
  BY DEF RowsRight
<1>5. QED
  BY <1>2, <1>3, <1>4

\* A handler that goes on before its report keeps the records right.
LEMMA HandlerStep ==
  ASSUME UseTypeOK, Pipeline, NEW r \in Requests,
         \/ \E n \in Nodes : Begin(r, n) \/ Answer(r, n)
         \/ Retry(r) \/ Refuse(r)
         \/ UsagePasses(r) \/ SetUsage(r) \/ ParserEnds(r) \/ BodyEnds(r) \/ Abort(r)
  PROVE  Pipeline'
<1> USE DEF reqVars, repVars, storeVars
<1>0. DiallingUnserved /\ QueuedOnce /\ CalledOnce /\ RowsRight
  BY DEF Pipeline
<1>1. UNCHANGED <<ch, sending, net, rows, bill>>
  BY DEF Begin, Answer, Retry, Refuse, UsagePasses, SetUsage, ParserEnds, BodyEnds, Abort
<1>2. \/ phase' = phase /\ served' = served
      \/ /\ phase[r] \in {"new", "dialling", "copying"}
         /\ \E p \in {"dialling", "redialling", "waiting"} :
              phase' = [phase EXCEPT ![r] = p] /\ (p = "waiting" <=> phase[r] = "copying")
         /\ served' = served
      \/ /\ phase[r] \in {"dialling", "redialling", "copying"}
         /\ phase' = [phase EXCEPT ![r] = "finished"]
         /\ served' = served
      \/ /\ phase[r] \in {"dialling", "redialling"}
         /\ phase' = [phase EXCEPT ![r] = "copying"]
         /\ \E n \in Nodes : served' = [served EXCEPT ![r] = n]
  BY DEF Begin, Answer, Retry, Refuse, UsagePasses, SetUsage, ParserEnds, BodyEnds,
         Abort, GivingUp
<1>3. DiallingUnserved'
  BY <1>0, <1>2, UsageAssumption DEF DiallingUnserved, UseTypeOK
<1>4. \A q \in Requests : Reported(q) => Reported(q)'
  BY <1>1, <1>2 DEF Reported, UseTypeOK
<1>5. QED
  BY <1>0, <1>1, <1>3, <1>4, RecordsStay DEF Pipeline

\* The report of a request queues its only record.
LEMMA ReportStep ==
  ASSUME UseTypeOK, Pipeline, NEW r \in Requests, Report(r)
  PROVE  Pipeline'
<1>0. DiallingUnserved /\ QueuedOnce /\ CalledOnce /\ RowsRight
  BY DEF Pipeline
<1>1. /\ phase[r] = "waiting" /\ phase' = [phase EXCEPT ![r] = "finished"]
      /\ UNCHANGED <<served, sending, net, rows>>
  BY DEF Report, storeVars
<1>2. DiallingUnserved'
  BY <1>0, <1>1 DEF DiallingUnserved, UseTypeOK
<1>3. ~Reported(r) /\ served[r] # None
  BY <1>0, <1>1 DEF Reported, DiallingUnserved
<1>4. CASE UNCHANGED <<ch, bill>>
  <2>1. \A q \in Requests : Reported(q) => Reported(q)'
    BY <1>1, <1>4 DEF Reported, UseTypeOK
  <2>2. QED
    BY <1>0, <1>1, <1>2, <1>4, <2>1, RecordsStay DEF Pipeline
<1>5. CASE ch' = Append(ch, r) /\ bill' = [bill EXCEPT ![r] = served[r]]
  <2>1. \A q \in Requests : Reported(q) => Reported(q)'
    BY <1>1, <1>5 DEF Reported, UseTypeOK
  <2>2. Reported(r)'
    BY <1>1, <1>3, <1>5 DEF Reported, UseTypeOK
  <2>3. r # sending /\ r \notin net /\ rows[r] = 0
    BY <1>0, <1>3, UsageAssumption DEF CalledOnce, RowsRight, UseTypeOK
  <2>4. \A i \in 1..Len(ch) : ch[i] \in Requests /\ ch[i] # r
    BY <1>0, <1>3 DEF QueuedOnce, UseTypeOK
  <2>5. /\ Len(ch') = Len(ch) + 1 /\ Len(ch) \in Nat
        /\ \A i \in 1..Len(ch) : ch'[i] = ch[i]
        /\ ch'[Len(ch) + 1] = r
    BY <1>5, QueueAppend DEF UseTypeOK
  <2>6. \A i \in 1..Len(ch') : i \in 1..Len(ch) \/ i = Len(ch) + 1
    BY <2>5
  <2>7. QueuedOnce'
    <3>1. \A i, j \in 1..Len(ch') : ch'[i] = ch'[j] => i = j
      BY <1>0, <2>4, <2>5, <2>6 DEF QueuedOnce
    <3>2. \A i \in 1..Len(ch') : /\ phase'[ch'[i]] = "finished" /\ served'[ch'[i]] # None
                                  /\ bill'[ch'[i]] = served'[ch'[i]]
      BY <1>0, <2>1, <2>2, <2>4, <2>5, <2>6 DEF QueuedOnce, Reported
    <3>3. \A i \in 1..Len(ch') : ch'[i] # sending' /\ ch'[i] \notin net' /\ rows'[ch'[i]] = 0
      BY <1>0, <1>1, <2>3, <2>4, <2>5, <2>6 DEF QueuedOnce
    <3>4. QED
      BY <3>1, <3>2, <3>3 DEF QueuedOnce, Reported
  <2>8. CalledOnce' /\ RowsRight'
    BY <1>0, <1>1, <2>1 DEF CalledOnce, RowsRight, UseTypeOK
  <2>9. QED
    BY <1>2, <2>7, <2>8 DEF Pipeline
<1>6. QED
  BY <1>4, <1>5 DEF Report, Credited

LEMMA RecordQueued ==
  ASSUME NEW q \in Seq(Requests) PROVE \A i \in 1..Len(q) : q[i] \in Requests
OBVIOUS

LEMMA SamePlace == \A n : \A i, j \in 1..n : i + 1 = j + 1 => i = j
OBVIOUS

LEMMA LastPlace == \A n \in Nat : \A i \in 1..n + 1 : i \in 1..n \/ i = n + 1
OBVIOUS

\* A record that is taken from the queue leaves it for good.
LEMMA TakeStep ==
  ASSUME UseTypeOK, Pipeline, Take
  PROVE  Pipeline'
<1>0. DiallingUnserved /\ QueuedOnce /\ CalledOnce /\ RowsRight
  BY DEF Pipeline
<1>1. /\ ch # <<>> /\ sending' = Head(ch) /\ ch' = Tail(ch) /\ net' = net \cup {Head(ch)}
      /\ UNCHANGED <<phase, served, bill, rows>>
  BY DEF Take, reqVars
<1>2. \A q \in Requests : Reported(q)' = Reported(q)
  BY <1>1 DEF Reported
<1>3. /\ Head(ch) = ch[1] /\ Head(ch) \in Requests /\ Len(ch) \in Nat \ {0}
      /\ Len(ch') = Len(ch) - 1
      /\ \A i \in 1..Len(ch') : ch'[i] = ch[i + 1] /\ i + 1 \in 1..Len(ch)
  BY <1>1, QueueTail DEF UseTypeOK
<1>4. Reported(ch[1]) /\ rows[ch[1]] = 0
  BY <1>0, <1>3 DEF QueuedOnce
<1>5. \A i \in 1..Len(ch') : ch'[i] \in Requests /\ ch'[i] # ch[1]
  <2>1. ASSUME NEW i \in 1..Len(ch')
        PROVE  ch[i + 1] \in Requests /\ ch[i + 1] # ch[1]
    <3>1. i + 1 \in 1..Len(ch) /\ 1 \in 1..Len(ch) /\ i + 1 # 1
      BY <1>3
    <3>2. QED
      BY <1>0, <3>1 DEF QueuedOnce, UseTypeOK
  <2>2. QED
    BY <1>3, <2>1
<1>6. QueuedOnce'
  <2>1. \A i, j \in 1..Len(ch') : ch'[i] = ch'[j] => i = j
    <3>1. ASSUME NEW i \in 1..Len(ch'), NEW j \in 1..Len(ch'), ch'[i] = ch'[j]
          PROVE  i = j
      <4>1. i + 1 = j + 1
        <5>1. /\ i + 1 \in 1..Len(ch) /\ j + 1 \in 1..Len(ch)
              /\ ch[i + 1] = ch[j + 1]
          BY <1>3, <3>1, ZenonT(30)
        <5>2. QED
          BY <1>0, <5>1, ZenonT(30) DEF QueuedOnce
      <4>2. QED
        BY <4>1, SamePlace, ZenonT(30)
    <3>2. QED
      BY <3>1, ZenonT(30)
  <2>2. \A i \in 1..Len(ch') : Reported(ch[i + 1]) /\ ch[i + 1] # sending'
                                /\ ch[i + 1] \notin net' /\ rows[ch[i + 1]] = 0
    BY <1>0, <1>1, <1>3, <1>5 DEF QueuedOnce
  <2>3. \A i \in 1..Len(ch') : ch'[i] = ch[i + 1]
    BY <1>3
  <2>4. \A i \in 1..Len(ch') : /\ phase'[ch'[i]] = "finished" /\ served'[ch'[i]] # None
                                /\ bill'[ch'[i]] = served'[ch'[i]]
    BY <1>1, <2>2, <2>3 DEF Reported
  <2>5. \A i \in 1..Len(ch') : ch'[i] # sending' /\ ch'[i] \notin net' /\ rows'[ch'[i]] = 0
    BY <1>1, <2>2, <2>3
  <2>6. QED
    BY <2>1, <2>4, <2>5 DEF QueuedOnce, Reported
<1>7. CalledOnce'
  BY <1>0, <1>1, <1>2, <1>3, <1>4, SMTT(30), ZenonT(30) DEF CalledOnce, UseTypeOK
<1>8. DiallingUnserved' /\ RowsRight'
  BY <1>0, <1>1, <1>2 DEF DiallingUnserved, RowsRight
<1>9. QED
  BY <1>6, <1>7, <1>8 DEF Pipeline

\* What Insert does to the rows of the request: nothing, or its first row.
LEMMA InsertEffect ==
  ASSUME UseTypeOK, CalledOnce, NEW r \in Requests, NEW heard \in BOOLEAN, Insert(r, heard)
  PROVE  /\ r \in net /\ rows[r] = 0 /\ Reported(r)
         /\ net' = net \ {r}
         /\ sending' \in {sending, None}
         /\ UNCHANGED <<gateway, phase, served, got, ch, drain, bill, flushed>>
         /\ \/ UNCHANGED <<rows, credit>>
            \/ /\ rows' = [rows EXCEPT ![r] = 1]
               /\ credit' = [credit EXCEPT ![r] = bill[r]]
<1>1. /\ r \in net /\ net' = net \ {r} /\ sending' \in {sending, None}
      /\ UNCHANGED <<gateway, phase, served, got, ch, drain, bill, flushed>>
  BY DEF Insert, Answered, reqVars
<1>2. rows[r] = 0 /\ Reported(r)
  BY <1>1 DEF CalledOnce
<1>3. \/ UNCHANGED <<rows, credit>>
      \/ /\ rows' = [rows EXCEPT ![r] = rows[r] + 1]
         /\ credit' = [credit EXCEPT ![r] = IF rows[r] = 0 THEN bill[r] ELSE credit[r]]
  BY Zenon DEF Insert
<1>4. QED
  BY <1>1, <1>2, <1>3

\* The coordinator's steps, and those of drain that take no record.
LEMMA OtherStep ==
  ASSUME UseTypeOK, Pipeline,
         \/ \E r \in Requests, heard \in BOOLEAN : Insert(r, heard) \/ InsertFails(r, heard)
         \/ CoordinatorRestarts \/ StopSeen \/ DrainReturns \/ SendFails
         \/ Terminate \/ Exit \/ UNCHANGED useVars
  PROVE  Pipeline'
<1>0. DiallingUnserved /\ QueuedOnce /\ CalledOnce /\ RowsRight
  BY DEF Pipeline
<1>1. ASSUME NEW r \in Requests, NEW heard \in BOOLEAN, Insert(r, heard)
      PROVE  Pipeline'
  <2>1. /\ r \in net /\ rows[r] = 0 /\ Reported(r)
        /\ net' = net \ {r}
        /\ sending' \in {sending, None}
        /\ UNCHANGED <<phase, served, ch, bill>>
        /\ UNCHANGED rows \/ rows' = [rows EXCEPT ![r] = 1]
    BY <1>0, <1>1, InsertEffect, ZenonT(30)
  <2>2. \A i \in 1..Len(ch) : ch[i] \in Requests /\ ch[i] # r /\ ch[i] # None
    BY <1>0, <2>1, UsageAssumption DEF QueuedOnce, UseTypeOK
  <2>3. DiallingUnserved'
    BY <1>0, <2>1, ZenonT(30) DEF DiallingUnserved
  <2>4. QueuedOnce'
    <3>1. \A i \in 1..Len(ch) :
            /\ Reported(ch[i])' /\ ch[i] # sending' /\ ch[i] \notin net' /\ rows'[ch[i]] = 0
      <4>1. ASSUME NEW i \in 1..Len(ch)
            PROVE  Reported(ch[i])' /\ ch[i] # sending' /\ ch[i] \notin net'
        BY <1>0, <2>1, <2>2, <4>1, ZenonT(30) DEF QueuedOnce, Reported
      <4>2. ASSUME NEW i \in 1..Len(ch) PROVE rows'[ch[i]] = 0
        <5>1. ch[i] \in Requests /\ ch[i] # r /\ rows[ch[i]] = 0
          BY <1>0, <2>2, <4>2, ZenonT(30) DEF QueuedOnce
        <5>2. QED
          BY <2>1, <5>1 DEF UseTypeOK
      <4>3. QED
        BY <4>1, <4>2, ZenonT(30)
    <3>2. QED
      BY <1>0, <2>1, <3>1, SMTT(30) DEF QueuedOnce
  <2>5. CalledOnce'
    BY <1>0, <2>1 DEF CalledOnce, Reported, UseTypeOK
  <2>6. RowsRight'
    BY <1>0, <2>1 DEF RowsRight, Reported, UseTypeOK
  <2>7. QED
    BY <2>3, <2>4, <2>5, <2>6 DEF Pipeline
<1>2. CASE ~\E r \in Requests, heard \in BOOLEAN : Insert(r, heard)
  <2>1. /\ UNCHANGED <<phase, served, ch, bill, rows>>
        /\ sending' \in {sending, None}
        /\ net' \subseteq net
    BY <1>2 DEF InsertFails, Answered, CoordinatorRestarts, StopSeen, DrainReturns, SendFails,
                Terminate, Exit, useVars, reqVars, repVars, storeVars
  <2>2. \A i \in 1..Len(ch) : ch[i] # None
    <3>1. ch \in Seq(Requests)
      BY ZenonT(30) DEF UseTypeOK
    <3>2. QED
      BY <3>1, UsageAssumption, RecordQueued, ZenonT(30)
  <2>3. DiallingUnserved' /\ RowsRight'
    BY <1>0, <2>1 DEF DiallingUnserved, RowsRight, Reported
  <2>4. QueuedOnce'
    BY <1>0, <2>1, <2>2 DEF QueuedOnce, Reported
  <2>5. CalledOnce'
    BY <1>0, <2>1 DEF CalledOnce, Reported
  <2>6. QED
    BY <2>3, <2>4, <2>5 DEF Pipeline
<1>3. QED
  BY <1>1, <1>2

\* Every record of the pipeline stays right.
LEMMA PipelineInvariant == UseSpec => []Pipeline
<1>1. UseInit => Pipeline
  BY DEF UseInit, Pipeline, DiallingUnserved, QueuedOnce, CalledOnce, RowsRight
<1>2. UseTypeOK /\ Pipeline /\ [UseNext]_useVars => Pipeline'
  <2> SUFFICES ASSUME UseTypeOK, Pipeline, [UseNext]_useVars
               PROVE  Pipeline'
    OBVIOUS
  <2>1. CASE \E r \in Requests :
               \/ \E n \in Nodes : Begin(r, n) \/ Answer(r, n)
               \/ Retry(r) \/ Refuse(r)
               \/ UsagePasses(r) \/ SetUsage(r) \/ ParserEnds(r) \/ BodyEnds(r) \/ Abort(r)
    BY <2>1, HandlerStep
  <2>2. CASE \E r \in Requests : Report(r)
    BY <2>2, ReportStep
  <2>3. CASE Take
    BY <2>3, TakeStep
  <2>4. CASE \/ \E r \in Requests, heard \in BOOLEAN : Insert(r, heard) \/ InsertFails(r, heard)
             \/ CoordinatorRestarts \/ StopSeen \/ DrainReturns \/ SendFails
             \/ Terminate \/ Exit \/ UNCHANGED useVars
    BY <2>4, OtherStep
  <2>5. QED
    BY <2>1, <2>2, <2>3, <2>4 DEF UseNext
<1>3. QED
  BY <1>1, <1>2, UseTypeCorrect, PTL DEF UseSpec

-----------------------------------------------------------------------------

\* The shutdown waits for what was queued when it began: from the types and
\* the pipeline, CloseOrder is inductive (drain, Close, main).
THEOREM UseCloseFlushes == UseSpec => []CloseFlushes
<1>1. UseInit => CloseOrder
  BY DEF UseInit, CloseOrder
<1>2. UseTypeOK /\ Pipeline /\ CloseOrder /\ [UseNext]_useVars => CloseOrder'
  <2> SUFFICES ASSUME UseTypeOK, Pipeline, CloseOrder, [UseNext]_useVars
               PROVE  CloseOrder'
    OBVIOUS
  <2> USE DEF reqVars, repVars, storeVars
  <2>0. \A r \in Queued : r \in Requests /\ phase[r] = "finished"
    <3>1. DOMAIN ch = 1..Len(ch) /\ \A i \in 1..Len(ch) : ch[i] \in Requests
      BY SMTT(30) DEF UseTypeOK
    <3>2. \A i \in 1..Len(ch) : phase[ch[i]] = "finished"
      BY DEF Pipeline, QueuedOnce, Reported
    <3>3. QED
      BY <3>1, <3>2 DEF Queued
  <2>1. CASE \E r \in Requests :
               \/ \E n \in Nodes : Begin(r, n) \/ Answer(r, n)
               \/ Retry(r) \/ Refuse(r)
               \/ UsagePasses(r) \/ SetUsage(r) \/ ParserEnds(r) \/ BodyEnds(r) \/ Abort(r)
    <3>1. UNCHANGED <<gateway, drain, sending, ch, flushed>>
      BY <2>1, ZenonT(30)
      DEF Begin, Answer, Retry, Refuse, UsagePasses, SetUsage, ParserEnds, BodyEnds, Abort
    <3>2. \A r \in Requests : phase[r] = "finished" => phase'[r] = "finished"
      BY <2>1 DEF Begin, Answer, Retry, Refuse, UsagePasses, SetUsage, ParserEnds, BodyEnds, Abort,
                  GivingUp, UseTypeOK
    <3>3. QED
      BY <3>1, <3>2, SMTT(30) DEF CloseOrder, Queued, UseTypeOK
  <2>2. ASSUME NEW r \in Requests, Report(r)
        PROVE  CloseOrder'
    <3>1. /\ phase[r] = "waiting" /\ phase' = [phase EXCEPT ![r] = "finished"]
          /\ UNCHANGED <<gateway, drain, sending, flushed>>
          /\ ch' = ch \/ ch' = Append(ch, r)
      BY <2>2 DEF Report
    <3>2. Queued' \subseteq Queued \cup {r}
      <4>1. CASE ch' = ch
        BY <4>1 DEF Queued
      <4>2. CASE ch' = Append(ch, r)
        <5>1. /\ DOMAIN ch = 1..Len(ch) /\ DOMAIN ch' = 1..Len(ch) + 1
              /\ \A i \in 1..Len(ch) : ch'[i] = ch[i]
              /\ ch'[Len(ch) + 1] = r /\ Len(ch) \in Nat
          BY <4>2, QueueAppend, SMTT(30) DEF UseTypeOK
        <5>2. \A i \in 1..Len(ch) + 1 : i \in 1..Len(ch) \/ i = Len(ch) + 1
          BY <5>1, LastPlace, ZenonT(30)
        <5>3. QED
          BY <5>1, <5>2 DEF Queued
      <4>3. QED
        BY <3>1, <4>1, <4>2
    <3>3. r \notin flushed
      BY <3>1 DEF CloseOrder
    <3>4. QED
      BY <3>1, <3>2, <3>3 DEF CloseOrder, UseTypeOK
  <2>3. CASE Take
    BY <2>3, ZenonT(30) DEF Take, CloseOrder
  <2>4. ASSUME NEW r \in Requests, NEW heard \in BOOLEAN, Insert(r, heard) \/ InsertFails(r, heard)
        PROVE  CloseOrder'
    BY <2>4 DEF Insert, InsertFails, Answered, CloseOrder, Queued
  <2>5. CASE StopSeen \/ SendFails \/ CoordinatorRestarts \/ Exit
    BY <2>5 DEF StopSeen, SendFails, CoordinatorRestarts, Exit, CloseOrder, Queued
  <2>6. CASE DrainReturns
    <3>1. Queued' = {}
      BY <2>6 DEF DrainReturns, FlushOver, Queued
    <3>2. QED
      BY <2>6, <3>1 DEF DrainReturns, CloseOrder
  <2>7. CASE Terminate
    BY <2>0, <2>7, ZenonT(30) DEF Terminate, CloseOrder, UseTypeOK
  <2>8. CASE UNCHANGED useVars
    BY <2>8 DEF useVars, CloseOrder, Queued
  <2>9. QED
    BY <2>1, <2>2, <2>3, <2>4, <2>5, <2>6, <2>7, <2>8 DEF UseNext
<1>3. CloseOrder => CloseFlushes
  BY DEF CloseOrder, CloseFlushes
<1>4. QED
  BY <1>1, <1>2, <1>3, UseTypeCorrect, PipelineInvariant, PTL DEF UseSpec

\* The rows of either store implement the ledger: a request is billed at most
\* once, to the node that answered it, over retries, lost replies, late inserts
\* and restarts of the coordinator (forward, drain, send, Insert).
THEOREM UseImplementsLedger == UseSpec => ImplementsLedger
<1>1. UseInit => Promise!LedgerInit
  BY DEF UseInit, Promise!LedgerInit
<1>2. UseTypeOK /\ Pipeline /\ [UseNext]_useVars => [Promise!LedgerNext]_(Promise!ledgerVars)
  <2> SUFFICES ASSUME UseTypeOK, Pipeline, [UseNext]_useVars
               PROVE  Promise!LedgerNext \/ UNCHANGED <<served, rows, credit>>
    BY DEF Promise!ledgerVars
  <2>1. ASSUME NEW r \in Requests, NEW n \in Nodes, Answer(r, n)
        PROVE  Promise!Serve(r, n)
    BY <2>1 DEF Answer, Promise!Serve, Pipeline, DiallingUnserved, storeVars
  <2>2. ASSUME NEW r \in Requests, NEW heard \in BOOLEAN, Insert(r, heard)
        PROVE  Promise!Bill(r) \/ UNCHANGED <<served, rows, credit>>
    <3>1. CalledOnce
      BY ZenonT(30) DEF Pipeline
    <3>2. QED
      BY <2>2, <3>1, InsertEffect DEF Promise!Bill, Reported
  <2>3. CASE \/ \E r \in Requests :
                  \/ \E n \in Nodes : Begin(r, n)
                  \/ Retry(r) \/ Refuse(r) \/ UsagePasses(r) \/ SetUsage(r) \/ ParserEnds(r)
                  \/ BodyEnds(r) \/ Abort(r) \/ Report(r)
                  \/ \E heard \in BOOLEAN : InsertFails(r, heard)
             \/ Take \/ StopSeen \/ DrainReturns \/ SendFails \/ CoordinatorRestarts
             \/ Terminate \/ Exit \/ UNCHANGED useVars
    BY ZenonT(30), <2>3 DEF Begin, Retry, Refuse, UsagePasses, SetUsage, ParserEnds, BodyEnds, Abort,
                Report, InsertFails, Take, StopSeen, DrainReturns, SendFails,
                CoordinatorRestarts, Terminate, Exit, useVars, reqVars, storeVars
  <2>4. QED
    BY <2>1, <2>2, <2>3 DEF UseNext, Promise!LedgerNext
<1>3. QED
  BY <1>1, <1>2, UseTypeCorrect, PipelineInvariant, PTL
     DEF UseSpec, ImplementsLedger, Promise!LedgerSpec

-----------------------------------------------------------------------------
(* Routing. *)

\* What an answer says was true at most t ticks ago: its replicas were READY,
\* or there were none.
Recent(reps, t) ==
  /\ \A i \in DOMAIN reps : gone[reps[i]] <= t
  /\ reps = <<>> => stocked <= t

\* The history counters are 0 for what is true now.
ReadyNow ==
  /\ \A x \in ready : gone[x] = 0
  /\ ready = {} => stocked = 0

\* A usable entry is at most ResolveTime older than it says.
EntryRecent == Usable(cache) => Recent(cache.reps, cache.since + ResolveTime)

\* An answer on its way is as old as its age says, and what the first critical
\* section of Pick saw is still recent in the second.  A request tries one
\* replica, and after a failure at most one other.
RequestOK(q) ==
  /\ q.pc = "answered" => Recent(q.reps, q.age)
  /\ q.pc = "choose" => q.reps # <<>> /\ Recent(q.reps, Horizon - 1)
  /\ q.pc \in {"choose", "listing"} => q.tried = <<>>
  /\ q.pc \in {"lookup", "calling", "answered"} => Len(q.tried) \in {0, 1}
  /\ q.pc = "forward" => Len(q.tried) \in {1, 2}

\* Between the two critical sections of Pick no time passes: an entry that is
\* there is usable.
ChoiceUsable ==
  (\E r \in Reqs : req[r].pc = "choose") => cache = NoEntry \/ Usable(cache)

\* The inductive invariant of routing.
RouteIInv ==
  /\ RouteTypeOK /\ ReadyNow /\ EntryRecent /\ ChoiceUsable
  /\ \A r \in Reqs : RequestOK(req[r])

-----------------------------------------------------------------------------
(* Answers of the coordinator and what a retry takes from them. *)

\* The coordinator's answer lists replicas that are READY, and only lists none
\* when none is.
LEMMA AnswerOfReady ==
  ASSUME RouteTypeOK, NEW reps \in Listings(ready)
  PROVE  /\ reps \in Answers
         /\ \A i \in DOMAIN reps : reps[i] \in ready
         /\ reps = <<>> => ready = {}
<1>1. /\ \E n \in 0..Cardinality(Replicas) : reps \in [1..n -> ready]
      /\ \A x \in ready : \E i \in DOMAIN reps : reps[i] = x
  BY DEF Listings
<1>2. ready \in SUBSET Replicas /\ Consistent(ready)
  BY DEF RouteTypeOK
<1>3. reps \in Answers
  BY <1>2, ZenonT(30) DEF Answers
<1>4. reps = <<>> => DOMAIN reps = {}
  OBVIOUS
<1>5. QED
  BY <1>1, <1>3, <1>4

LEMMA AnswersAreSequences ==
  ASSUME NEW reps \in Answers
  PROVE  /\ reps \in Seq(Replicas) /\ DOMAIN reps = 1..Len(reps) /\ Len(reps) \in Nat
         /\ reps # <<>> => Len(reps) > 0
<1>1. PICK S \in SUBSET Replicas : reps \in Listings(S)
  BY ZenonT(30) DEF Answers
<1>2. PICK n \in 0..Cardinality(Replicas) : reps \in [1..n -> S]
  BY <1>1 DEF Listings
<1>3. n \in Nat /\ reps \in [1..n -> Replicas]
  BY <1>2, RoutingAssumption
<1>4. reps \in Seq(Replicas)
  BY <1>3
<1>5. QED
  BY <1>4

LEMMA NoneIsAnAnswer == <<>> \in Answers
<1>1. <<>> \in [1..0 -> {}]
  OBVIOUS
<1>2. 0 \in 0..Cardinality(Replicas)
  BY RoutingAssumption
<1>3. <<>> \in Listings({})
  BY <1>1, <1>2, ZenonT(30) DEF Listings
<1>4. {} \in SUBSET Replicas /\ Consistent({})
  BY DEF Consistent
<1>5. QED
  BY <1>3, <1>4, ZenonT(30) DEF Answers

\* PickExcluding returns a replica of the answer, of another deployment.
LEMMA AnotherFound ==
  ASSUME NEW reps, NEW failed
  PROVE  \/ Another(reps, failed) = 0
         \/ /\ Another(reps, failed) \in DOMAIN reps
            /\ reps[Another(reps, failed)].dep # failed.dep
<1> DEFINE First(i) == /\ reps[i].dep # failed.dep
                       /\ \A k \in 1..(i - 1) : reps[k].dep = failed.dep
<1>1. Another(reps, failed) = IF \E i \in DOMAIN reps : First(i)
                              THEN CHOOSE i \in DOMAIN reps : First(i) ELSE 0
  BY ZenonT(30) DEF Another
<1>2. QED
  BY <1>1, ZenonT(30)

\* A second attempt follows a first one.
LEMMA SecondTry ==
  ASSUME NEW t \in Tries, Len(t) \in {0, 1}, t # <<>>, NEW y \in Replicas
  PROVE  /\ Append(t, y) \in Tries /\ Len(Append(t, y)) = 2
         /\ Last(Append(t, y)) = y
<1>1. PICK x \in Replicas : t = <<x>>
  <2>1. \A x, z \in Replicas : Len(<<x, z>>) = 2
    OBVIOUS
  <2>2. QED
    BY <2>1 DEF Tries
<1>2. Append(<<x>>, y) = <<x, y>>
  <2> DEFINE u == Append(<<x>>, y)
             v == <<x, y>>
  <2>1. u \in Seq({x, y}) /\ Len(u) = 2 /\ u[1] = x /\ u[2] = y
    OBVIOUS
  <2>2. v \in Seq({x, y}) /\ Len(v) = 2 /\ v[1] = x /\ v[2] = y
    OBVIOUS
  <2> HIDE DEF u, v
  <2>3. u = [i \in 1 .. 2 |-> u[i]] /\ v = [i \in 1 .. 2 |-> v[i]]
    BY <2>1, <2>2
  <2>4. \A i \in 1 .. 2 : u[i] = v[i]
    <3>1. 1 .. 2 = {1, 2}
      OBVIOUS
    <3>2. QED
      BY <3>1, <2>1, <2>2, ZenonT(30)
  <2>5. [i \in 1 .. 2 |-> u[i]] = [i \in 1 .. 2 |-> v[i]]
    BY <2>4, ZenonT(30)
  <2>6. u = v
    BY <2>3, <2>5, ZenonT(30)
  <2>7. QED
    BY <2>6 DEF u, v
<1>3. Len(<<x, y>>) = 2 /\ <<x, y>>[2] = y
  OBVIOUS
<1>4. Append(t, y) \in Tries
  <2>1. <<x, y>> \in Tries
    BY DEF Tries
  <2>2. QED
    BY <1>1, <1>2, <2>1, ZenonT(30)
<1>5. QED
  BY <1>1, <1>2, <1>3, <1>4, ZenonT(30) DEF Last

\* Where a request goes on with an answer: the first time around to the choice
\* or to routingError, after a failure to another replica of the answer or to
\* its end.
LEMMA ResolvedEffect ==
  ASSUME NEW q \in Request, Len(q.tried) \in {0, 1}, NEW reps \in Answers
  PROVE  LET p == Resolved(q, reps) IN
         /\ p \in Request
         /\ \/ p.pc = "listing" /\ p.tried = <<>> /\ reps = <<>>
            \/ p.pc = "choose" /\ p.tried = <<>> /\ reps # <<>> /\ p.reps = reps
            \/ p.pc = "done"
            \/ /\ p.pc = "forward" /\ Len(p.tried) = 2
               /\ \E i \in DOMAIN reps : Last(p.tried) = reps[i]
<1> DEFINE p == Resolved(q, reps)
<1>1. CASE q.tried = <<>>
  <2>1. p = [q EXCEPT !.reps = reps, !.pc = IF reps = <<>> THEN "listing" ELSE "choose"]
    BY <1>1, ZenonT(30) DEF Resolved
  <2>2. QED
    BY ZenonT(30), <1>1, <2>1 DEF Request
<1>2. CASE q.tried # <<>>
  <2> DEFINE i == Another(reps, q.tried[1])
  <2>1. q.tried \in Tries
    BY DEF Request
  <2>2. CASE i = 0
    <3>1. p = [q EXCEPT !.reps = <<>>, !.pc = "done", !.code = "502"]
      BY <1>2, <2>2, ZenonT(30) DEF Resolved
    <3>2. QED
      BY ZenonT(30), <3>1, NoneIsAnAnswer DEF Request, Codes
  <2>3. CASE i # 0
    <3>1. i \in DOMAIN reps /\ reps[i] \in Replicas
      BY <2>3, AnotherFound, AnswersAreSequences
    <3> DEFINE t == Append(q.tried, reps[i])
    <3>2. p = [q EXCEPT !.reps = <<>>, !.pc = "forward", !.tried = t]
      BY <1>2, <2>3, ZenonT(30) DEF Resolved
    <3>3. t \in Tries /\ Len(t) = 2 /\ Last(t) = reps[i]
      BY <1>2, <2>1, <3>1, SecondTry
    <3> HIDE DEF t, i
    <3>4. p \in Request /\ p.pc = "forward" /\ p.tried = t
      BY ZenonT(30), <3>2, <3>3, NoneIsAnAnswer DEF Request
    <3>5. QED
      BY <3>1, <3>3, <3>4
  <2>4. QED
    BY <2>2, <2>3
<1>3. QED
  BY <1>1, <1>2

-----------------------------------------------------------------------------
(* Every step keeps the invariant. *)

LEMMA RouteInitIInv == RouteInit => RouteIInv
<1> SUFFICES ASSUME RouteInit PROVE RouteIInv
  OBVIOUS
<1>1. Fresh("none") \in Request /\ Fresh("none").pc = "done"
  BY NoneIsAnAnswer, RoutingAssumption DEF Fresh, Request, Codes, Tries
<1>2. RouteTypeOK
  <2>1. Horizon + 1 \in 0..(Horizon + 1) /\ 0 \in 0..(Horizon + 1)
    BY RoutingAssumption DEF Horizon
  <2>2. Consistent(ready) /\ ready \subseteq Replicas
    BY DEF RouteInit, Consistent
  <2>3. req \in [Reqs -> Request]
    BY <1>1 DEF RouteInit
  <2>4. QED
    BY ZenonT(30), <2>1, <2>2, <2>3 DEF RouteInit, RouteTypeOK
<1>3. \A r \in Reqs : req[r].pc = "done"
  BY <1>1 DEF RouteInit
<1>4. QED
  BY <1>2, <1>3 DEF RouteInit, RouteIInv, ReadyNow, EntryRecent, ChoiceUsable, RequestOK, Usable

\* A step of one request, which may also touch the cache.
LEMMA RequestStep ==
  ASSUME RouteIInv, NEW r \in Reqs, NEW q \in Request, RequestOK(q),
         req' = [req EXCEPT ![r] = q],
         UNCHANGED <<deployed, ready, gone, stocked>>,
         cache' \in Entry \cup {NoEntry}, EntryRecent',
         cache' = NoEntry \/ Usable(cache') \/ (q.pc # "choose" /\ UNCHANGED cache)
  PROVE  RouteIInv'
<1>1. req \in [Reqs -> Request]
  BY DEF RouteIInv, RouteTypeOK
<1>2. /\ req' \in [Reqs -> Request] /\ req'[r] = q
      /\ \A o \in Reqs \ {r} : req'[o] = req[o]
  BY <1>1
<1>3. RouteTypeOK'
  BY <1>2 DEF RouteIInv, RouteTypeOK
<1>4. ReadyNow'
  BY DEF RouteIInv, ReadyNow
<1>5. \A o \in Reqs : RequestOK(req'[o])
  BY <1>2 DEF RouteIInv
<1>6. (\A o \in Reqs : RequestOK(req[o]))'
  BY <1>5 DEF RequestOK, Recent
<1>7. ChoiceUsable'
  BY <1>2 DEF RouteIInv, ChoiceUsable
<1>8. QED
  BY <1>3, <1>4, <1>6, <1>7 DEF RouteIInv

\* The same for a step that leaves the cache alone.
LEMMA RequestOnly ==
  ASSUME RouteIInv, NEW r \in Reqs, NEW q \in Request, RequestOK(q),
         req' = [req EXCEPT ![r] = q], UNCHANGED <<deployed, ready, cache, gone, stocked>>,
         q.pc = "choose" => Usable(cache)
  PROVE  RouteIInv'
<1>1. cache' \in Entry \cup {NoEntry}
  BY DEF RouteIInv, RouteTypeOK
<1>2. EntryRecent'
  BY DEF RouteIInv, EntryRecent, Usable, Recent
<1>3. cache' = NoEntry \/ Usable(cache') \/ (q.pc # "choose" /\ UNCHANGED cache)
  OBVIOUS
<1>4. QED
  BY ZenonT(30), <1>1, <1>2, <1>3, RequestStep

\* A request that is answered, arrives, is called for, or fails.
LEMMA PlainIInv ==
  ASSUME RouteIInv, NEW r \in Reqs,
         \/ Arrive(r) \/ ResolveFails(r) \/ ForwardServes(r) \/ ListModels(r) \/ ListFails(r)
  PROVE  RouteIInv'
<1>1. req \in [Reqs -> Request] /\ req[r] \in Request
  BY DEF RouteIInv, RouteTypeOK
<1>2. CASE Arrive(r)
  <2> DEFINE q == [Fresh("none") EXCEPT !.pc = "lookup"]
  <2>1. q \in Request /\ q.pc = "lookup" /\ q.tried = <<>>
    BY NoneIsAnAnswer, RoutingAssumption DEF Fresh, Request, Codes, Tries
  <2>2. req' = [req EXCEPT ![r] = q] /\ UNCHANGED <<deployed, ready, cache, gone, stocked>>
    BY <1>2 DEF Arrive
  <2> HIDE DEF q
  <2>3. RequestOK(q)
    BY <2>1 DEF RequestOK
  <2>4. QED
    BY ZenonT(30), <2>1, <2>2, <2>3, RequestOnly
<1>3. CASE ResolveFails(r) \/ ForwardServes(r) \/ ListModels(r) \/ ListFails(r)
  <2>1. PICK q \in Request :
          /\ q.pc = "done"
          /\ req' = [req EXCEPT ![r] = q]
    BY ZenonT(30), <1>1, <1>3, NoneIsAnAnswer
       DEF ResolveFails, ForwardServes, ListModels, ListFails, Request, Codes
  <2>2. UNCHANGED <<deployed, ready, cache, gone, stocked>>
    BY <1>3 DEF ResolveFails, ForwardServes, ListModels, ListFails
  <2>3. RequestOK(q)
    BY <2>1 DEF RequestOK
  <2>4. QED
    BY ZenonT(30), <2>1, <2>2, <2>3, RequestOnly
<1>4. QED
  BY <1>2, <1>3

LEMMA ResolveModelIInv ==
  ASSUME RouteIInv, NEW r \in Reqs, ResolveModel(r)
  PROVE  RouteIInv'
<1>1. req[r] \in Request /\ req[r].pc = "calling"
  BY DEF RouteIInv, RouteTypeOK, ResolveModel
<1>2. PICK reps \in Listings(ready) : req' = [req EXCEPT ![r] = WithAnswer(req[r], reps)]
  BY ZenonT(30) DEF ResolveModel
<1>3. /\ reps \in Answers /\ \A i \in DOMAIN reps : reps[i] \in ready
      /\ reps = <<>> => ready = {}
  BY AnswerOfReady DEF RouteIInv
<1>4. Recent(reps, 0)
  BY <1>3 DEF Recent, RouteIInv, ReadyNow
<1> DEFINE q == WithAnswer(req[r], reps)
<1>5. /\ q \in Request /\ q.pc = "answered" /\ q.reps = reps /\ q.age = 0
      /\ q.tried = req[r].tried
  <2>1. 0 \in 0..ResolveTime
    BY RoutingAssumption
  <2>2. QED
    BY ZenonT(30), <1>1, <1>3, <2>1 DEF WithAnswer, Request
<1>6. req' = [req EXCEPT ![r] = q]
  BY <1>2
<1> HIDE DEF q
<1>7. Len(q.tried) \in {0, 1}
  BY <1>1, <1>5 DEF RouteIInv, RequestOK
<1>8. RequestOK(q)
  BY <1>4, <1>5, <1>7 DEF RequestOK
<1>9. UNCHANGED <<deployed, ready, cache, gone, stocked>>
  BY DEF ResolveModel
<1>10. QED
  BY ZenonT(30), <1>5, <1>6, <1>8, <1>9, RequestOnly

\* What Resolved makes of an answer that is recent.
LEMMA ResolvedOK ==
  ASSUME NEW q \in Request, Len(q.tried) \in {0, 1}, NEW reps \in Answers,
         Recent(reps, Horizon - 1)
  PROVE  Resolved(q, reps) \in Request /\ RequestOK(Resolved(q, reps))
BY ResolvedEffect DEF RequestOK

\* Recent is kept by a later bound.
LEMMA RecentLater ==
  ASSUME RouteTypeOK, NEW reps \in Answers, NEW t \in Nat, NEW u \in Nat, t <= u,
         Recent(reps, t)
  PROVE  Recent(reps, u)
<1>1. \A i \in DOMAIN reps : gone[reps[i]] \in Nat
  BY AnswersAreSequences, RoutingAssumption DEF RouteTypeOK, Horizon
<1>2. stocked \in Nat
  BY RoutingAssumption DEF RouteTypeOK, Horizon
<1>3. QED
  BY <1>1, <1>2 DEF Recent

\* A usable entry says what was true less than Horizon ticks ago.
LEMMA UsableRecent ==
  ASSUME RouteIInv, Usable(cache)
  PROVE  cache.reps \in Answers /\ Recent(cache.reps, Horizon - 1)
<1>1. cache \in Entry /\ cache.since < CacheTTL
  BY DEF RouteIInv, RouteTypeOK, Usable
<1>2. cache.reps \in Answers /\ cache.since \in Nat
  BY <1>1, RoutingAssumption DEF Entry
<1>3. /\ cache.since + ResolveTime \in Nat /\ Horizon - 1 \in Nat
      /\ cache.since + ResolveTime <= Horizon - 1
  BY <1>1, <1>2, RoutingAssumption DEF Horizon
<1>4. QED
  BY <1>2, <1>3, RecentLater DEF RouteIInv, EntryRecent

LEMMA LookupIInv ==
  ASSUME RouteIInv, NEW r \in Reqs, Lookup(r)
  PROVE  RouteIInv'
<1>1. /\ req[r] \in Request /\ req[r].pc = "lookup" /\ Len(req[r].tried) \in {0, 1}
      /\ UNCHANGED <<deployed, ready, cache, gone, stocked>>
  BY DEF RouteIInv, RouteTypeOK, Lookup, RequestOK
<1>2. CASE Usable(cache)
  <2> DEFINE q == Resolved(req[r], cache.reps)
  <2>1. req' = [req EXCEPT ![r] = q]
    BY <1>2 DEF Lookup
  <2>2. q \in Request /\ RequestOK(q)
    BY <1>1, <1>2, UsableRecent, ResolvedOK
  <2> HIDE DEF q
  <2>3. QED
    BY ZenonT(30), <1>1, <1>2, <2>1, <2>2, RequestOnly
<1>3. CASE ~Usable(cache)
  <2> DEFINE q == [req[r] EXCEPT !.pc = "calling"]
  <2>1. req' = [req EXCEPT ![r] = q]
    BY <1>3 DEF Lookup
  <2>2. q \in Request /\ q.pc = "calling" /\ q.tried = req[r].tried
    BY <1>1 DEF Request
  <2> HIDE DEF q
  <2>3. RequestOK(q)
    BY <1>1, <2>2 DEF RequestOK
  <2>4. QED
    BY ZenonT(30), <1>1, <2>1, <2>2, <2>3, RequestOnly
<1>4. QED
  BY <1>2, <1>3

LEMMA FillIInv ==
  ASSUME RouteIInv, NEW r \in Reqs, Fill(r)
  PROVE  RouteIInv'
<1>1. /\ req[r] \in Request /\ req[r].pc = "answered" /\ Len(req[r].tried) \in {0, 1}
      /\ Recent(req[r].reps, req[r].age)
      /\ UNCHANGED <<deployed, ready, gone, stocked>>
  BY DEF RouteIInv, RouteTypeOK, Fill, RequestOK
<1> DEFINE reps == req[r].reps
           e == [req[r] EXCEPT !.age = 0]
           q == Resolved(e, reps)
<1>2. reps \in Answers /\ req[r].age \in Nat /\ req[r].age <= ResolveTime
  BY SMTT(30), <1>1, RoutingAssumption DEF Request
<1>3. e \in Request /\ e.tried = req[r].tried
  BY <1>1, RoutingAssumption DEF Request
<1>4. req' = [req EXCEPT ![r] = q]
  BY DEF Fill
<1>5. /\ cache'.reps = reps /\ cache'.since = 0 /\ cache' \in Entry
  <2>1. CASE cache = NoEntry
    BY <1>2, <2>1, RoutingAssumption DEF Fill, Entry
  <2>2. CASE cache # NoEntry
    <3>1. cache.next \in 0..(CursorWrap - 1)
      BY <2>2 DEF RouteIInv, RouteTypeOK, Entry
    <3>2. QED
      BY <1>2, <2>2, <3>1, RoutingAssumption DEF Fill, Entry
  <2>3. QED
    BY <2>1, <2>2
<1> HIDE DEF e, q, reps
<1>6. Recent(reps, ResolveTime) /\ Recent(reps, Horizon - 1)
  <2>1. /\ Horizon - 1 \in Nat /\ ResolveTime \in Nat
        /\ req[r].age <= ResolveTime /\ req[r].age <= Horizon - 1
    BY <1>2, RoutingAssumption DEF Horizon
  <2>2. Recent(reps, req[r].age)
    BY <1>1 DEF reps
  <2>3. QED
    BY <1>2, <2>1, <2>2, RecentLater DEF RouteIInv
<1>7. q \in Request /\ RequestOK(q)
  BY <1>1, <1>2, <1>3, <1>6, ResolvedOK DEF q
<1>8. Usable(cache')
  <2>1. NoEntry \notin Entry
    BY AnswersAreSequences, RoutingAssumption DEF Entry
  <2>2. QED
    BY <1>5, <2>1, RoutingAssumption DEF Usable
<1>9. EntryRecent'
  <2>1. cache'.since + ResolveTime = ResolveTime
    BY <1>5, RoutingAssumption
  <2>2. QED
    BY <1>1, <1>5, <1>6, <2>1 DEF EntryRecent, Recent
<1>10. QED
  BY ZenonT(30), <1>1, <1>4, <1>5, <1>7, <1>8, <1>9, RequestStep

\* What Pick chooses was READY less than Horizon ticks ago.
LEMMA ChooseEffect ==
  ASSUME RouteIInv, NEW r \in Reqs, Choose(r)
  PROVE  /\ \E x \in Replicas :
              /\ req' = [req EXCEPT ![r] = SentTo(req[r], x)]
              /\ gone[x] < Horizon
         /\ \/ UNCHANGED cache
            \/ Usable(cache) /\ cache' = [cache EXCEPT !.next = (@ + 1) % CursorWrap]
<1>1. /\ req[r] \in Request /\ req[r].pc = "choose" /\ req[r].reps # <<>>
      /\ Recent(req[r].reps, Horizon - 1)
      /\ cache = NoEntry \/ Usable(cache)
  BY DEF RouteIInv, RouteTypeOK, Choose, RequestOK, ChoiceUsable
<1>2. \A n \in Nat : n <= Horizon - 1 => n < Horizon
  BY RoutingAssumption DEF Horizon
<1>3. \A x \in Replicas : gone[x] \in Nat
  BY RoutingAssumption DEF RouteIInv, RouteTypeOK, Horizon
<1>4. CASE cache = NoEntry \/ cache.reps = <<>>
  <2> DEFINE x == req[r].reps[1]
  <2>1. req[r].reps \in Answers
    BY <1>1 DEF Request
  <2>2. 1 \in DOMAIN req[r].reps /\ x \in Replicas
    BY <1>1, <2>1, AnswersAreSequences
  <2>3. gone[x] < Horizon
    BY <1>1, <1>2, <1>3, <2>2 DEF Recent
  <2>4. /\ req' = [req EXCEPT ![r] = SentTo(req[r], x)]
        /\ UNCHANGED cache
    BY <1>4, ZenonT(30) DEF Choose
  <2> HIDE DEF x
  <2>5. QED
    BY ZenonT(30), <2>2, <2>3, <2>4
<1>5. CASE ~(cache = NoEntry \/ cache.reps = <<>>)
  <2> DEFINE i == 1 + (cache.next % Len(cache.reps))
             x == cache.reps[i]
  <2>1. Usable(cache) /\ cache.reps \in Answers /\ Recent(cache.reps, Horizon - 1)
    BY <1>1, <1>5, UsableRecent
  <2>2. cache.next \in Nat
    BY <1>5, RoutingAssumption DEF RouteIInv, RouteTypeOK, Entry
  <2>3. Len(cache.reps) \in Nat \ {0} /\ DOMAIN cache.reps = 1..Len(cache.reps)
    BY <1>5, <2>1, AnswersAreSequences
  <2>4. i \in DOMAIN cache.reps
    BY <2>2, <2>3
  <2>5. /\ req' = [req EXCEPT ![r] = SentTo(req[r], x)]
        /\ cache' = [cache EXCEPT !.next = (@ + 1) % CursorWrap]
    BY <1>5, ZenonT(30) DEF Choose
  <2> HIDE DEF i
  <2>6. x \in Replicas
    BY <2>1, <2>4, AnswersAreSequences
  <2>7. gone[x] < Horizon
    BY <1>2, <1>3, <2>1, <2>4, <2>6 DEF Recent
  <2> HIDE DEF x
  <2>8. QED
    BY ZenonT(30), <2>1, <2>5, <2>6, <2>7
<1>6. QED
  BY <1>4, <1>5

LEMMA ChooseIInv ==
  ASSUME RouteIInv, NEW r \in Reqs, Choose(r)
  PROVE  RouteIInv'
<1>1. PICK x \in Replicas : req' = [req EXCEPT ![r] = SentTo(req[r], x)]
  BY ChooseEffect
<1>2. req[r] \in Request /\ UNCHANGED <<deployed, ready, gone, stocked>>
  BY DEF RouteIInv, RouteTypeOK, Choose
<1> DEFINE q == SentTo(req[r], x)
<1>3. <<x>> \in Tries /\ Len(<<x>>) = 1
  BY DEF Tries
<1>4. q \in Request /\ q.pc = "forward" /\ q.tried = <<x>>
  BY ZenonT(30), <1>2, <1>3, NoneIsAnAnswer DEF SentTo, Request
<1>5. req' = [req EXCEPT ![r] = q]
  BY <1>1
<1> HIDE DEF q
<1>6. RequestOK(q)
  BY <1>3, <1>4 DEF RequestOK
<1>7. CASE UNCHANGED cache
  BY ZenonT(30), <1>2, <1>4, <1>5, <1>6, <1>7, RequestOnly
<1>8. CASE Usable(cache) /\ cache' = [cache EXCEPT !.next = (@ + 1) % CursorWrap]
  <2>1. cache \in Entry
    BY <1>8 DEF RouteIInv, RouteTypeOK, Usable
  <2>2. (cache.next + 1) % CursorWrap \in 0..(CursorWrap - 1)
    BY <2>1, RoutingAssumption DEF Entry
  <2>3. cache' \in Entry /\ cache'.reps = cache.reps /\ cache'.since = cache.since
    BY <1>8, <2>1, <2>2 DEF Entry
  <2>4. NoEntry \notin Entry
    BY AnswersAreSequences, RoutingAssumption DEF Entry
  <2>5. Usable(cache')
    BY <1>8, <2>3, <2>4 DEF Usable
  <2>6. EntryRecent'
    BY <1>2, <1>8, <2>3 DEF RouteIInv, EntryRecent, Recent
  <2>7. QED
    BY ZenonT(30), <1>2, <1>4, <1>5, <1>6, <2>3, <2>5, <2>6, RequestStep
<1>9. QED
  BY <1>7, <1>8, ChooseEffect

LEMMA ForwardFailsIInv ==
  ASSUME RouteIInv, NEW r \in Reqs, ForwardFails(r)
  PROVE  RouteIInv'
<1>1. /\ req[r] \in Request /\ req[r].pc = "forward"
      /\ UNCHANGED <<deployed, ready, gone, stocked>>
  BY DEF RouteIInv, RouteTypeOK, ForwardFails
<1>2. CASE Len(req[r].tried) = 1
  <2> DEFINE q == [req[r] EXCEPT !.pc = "lookup"]
  <2>1. q \in Request /\ q.pc = "lookup" /\ q.tried = req[r].tried
    BY <1>1 DEF Request
  <2>2. req' = [req EXCEPT ![r] = q] /\ cache' = NoEntry
    BY <1>2 DEF ForwardFails
  <2> HIDE DEF q
  <2>3. RequestOK(q)
    BY <1>2, <2>1 DEF RequestOK
  <2>4. EntryRecent'
    BY <2>2 DEF EntryRecent, Usable
  <2>5. QED
    BY ZenonT(30), <1>1, <2>1, <2>2, <2>3, <2>4, RequestStep
<1>3. CASE Len(req[r].tried) # 1
  <2> DEFINE q == [req[r] EXCEPT !.pc = "done", !.code = "502"]
  <2>1. q \in Request /\ q.pc = "done"
    BY ZenonT(30), <1>1 DEF Request, Codes
  <2>2. req' = [req EXCEPT ![r] = q] /\ UNCHANGED cache
    BY <1>3 DEF ForwardFails
  <2> HIDE DEF q
  <2>3. RequestOK(q)
    BY <2>1 DEF RequestOK
  <2>4. QED
    BY ZenonT(30), <1>1, <2>1, <2>2, <2>3, RequestOnly
<1>4. QED
  BY <1>2, <1>3

\* The coordinator's table changes: what was READY a while ago is still so, or
\* was so more recently.
LEMMA TableIInv ==
  ASSUME RouteIInv,
         \/ Deploy \/ Undeploy
         \/ \E x \in Replicas : BecomesReady(x) \/ NoLongerReady(x)
  PROVE  RouteIInv'
<1>1. UNCHANGED <<cache, req>>
  BY ZenonT(30) DEF Deploy, Undeploy, BecomesReady, NoLongerReady
<1>2. /\ gone \in [Replicas -> Nat] /\ stocked \in Nat /\ 0 \in 0..(Horizon + 1)
  BY RoutingAssumption DEF RouteIInv, RouteTypeOK, Horizon
<1> DEFINE TableType == /\ ready \subseteq Replicas /\ Consistent(ready)
                        /\ gone \in [Replicas -> 0..(Horizon + 1)]
                        /\ stocked \in 0..(Horizon + 1)
<1>3. TableType'
  <2>1. CASE Deploy
    BY <2>1 DEF Deploy, RouteIInv, RouteTypeOK
  <2>2. CASE Undeploy
    BY <1>2, <2>2 DEF Undeploy, RouteIInv, RouteTypeOK, Consistent
  <2>3. ASSUME NEW x \in Replicas, BecomesReady(x)
        PROVE  TableType'
    BY <1>2, <2>3 DEF BecomesReady, RouteIInv, RouteTypeOK
  <2>4. ASSUME NEW x \in Replicas, NoLongerReady(x)
        PROVE  TableType'
    BY <1>2, <2>4 DEF NoLongerReady, RouteIInv, RouteTypeOK, Consistent
  <2>5. QED
    BY <2>1, <2>2, <2>3, <2>4
<1>4. /\ \A x \in Replicas : gone'[x] = gone[x] \/ gone'[x] = 0
      /\ stocked' = stocked \/ stocked' = 0
  BY ZenonT(30), <1>2 DEF Deploy, Undeploy, BecomesReady, NoLongerReady
<1>5. ReadyNow'
  <2>1. CASE Deploy \/ Undeploy
    BY <2>1 DEF Deploy, Undeploy, RouteIInv, ReadyNow
  <2>2. ASSUME NEW x \in Replicas, BecomesReady(x) \/ NoLongerReady(x)
        PROVE  ReadyNow'
    BY <1>2, <2>2 DEF BecomesReady, NoLongerReady, RouteIInv, ReadyNow, RouteTypeOK
  <2>3. QED
    BY <2>1, <2>2
<1>6. ASSUME NEW reps \in Answers, NEW t \in Nat, Recent(reps, t)
      PROVE  Recent(reps, t)'
  BY <1>2, <1>4, <1>6, AnswersAreSequences DEF Recent
<1>7. EntryRecent'
  <2> SUFFICES ASSUME Usable(cache) PROVE Recent(cache.reps, cache.since + ResolveTime)'
    BY <1>1 DEF EntryRecent, Usable
  <2>1. cache.reps \in Answers /\ cache.since + ResolveTime \in Nat
    BY RoutingAssumption DEF RouteIInv, RouteTypeOK, Usable, Entry
  <2>2. Recent(cache.reps, cache.since + ResolveTime)
    BY DEF RouteIInv, EntryRecent
  <2> DEFINE reps == cache.reps
             t == cache.since + ResolveTime
  <2>3. UNCHANGED <<reps, t>>
    BY <1>1
  <2> HIDE DEF reps, t
  <2>4. QED
    BY <1>6, <2>1, <2>2, <2>3 DEF Recent, reps, t
<1>8. \A r \in Reqs : RequestOK(req[r])'
  <2> SUFFICES ASSUME NEW r \in Reqs PROVE RequestOK(req[r])'
    OBVIOUS
  <2>1. /\ req[r].reps \in Answers /\ req[r].age \in Nat /\ Horizon - 1 \in Nat
    BY RoutingAssumption DEF RouteIInv, RouteTypeOK, Request, Horizon
  <2>2. RequestOK(req[r])
    BY DEF RouteIInv
  <2>3. QED
    BY <1>1, <1>6, <2>1, <2>2 DEF RequestOK, Recent
<1>9. RouteTypeOK'
  <2>1. deployed' \in BOOLEAN
    BY ZenonT(30) DEF Deploy, Undeploy, BecomesReady, NoLongerReady, RouteIInv, RouteTypeOK
  <2>2. QED
    BY <1>1, <1>3, <2>1 DEF RouteIInv, RouteTypeOK
<1>10. ChoiceUsable'
  BY <1>1 DEF RouteIInv, ChoiceUsable, Usable
<1>11. QED
  BY <1>5, <1>7, <1>8, <1>9, <1>10 DEF RouteIInv

LEMMA OlderType ==
  ASSUME NEW n \in Nat, NEW cap \in Nat, n <= cap
  PROVE  Older(n, cap) \in 0..cap /\ Older(n, cap) <= n + 1 /\ (n < cap => Older(n, cap) = n + 1)
BY DEF Older

\* A tick makes everything one tick older, and the bounds with it.
LEMMA TickIInv ==
  ASSUME RouteIInv, Tick
  PROVE  RouteIInv'
<1>1. /\ \A r \in Reqs : req[r] \in Request
      /\ cache = NoEntry \/ cache \in Entry
      /\ gone \in [Replicas -> 0..(Horizon + 1)] /\ stocked \in 0..(Horizon + 1)
      /\ Horizon \in Nat /\ Horizon - 1 \in Nat /\ CacheTTL \in Nat /\ ResolveTime \in Nat
  BY RoutingAssumption DEF RouteIInv, RouteTypeOK, Horizon
<1>2. UNCHANGED <<deployed, ready>>
  BY DEF Tick
<1>3. /\ gone' \in [Replicas -> 0..(Horizon + 1)]
      /\ \A x \in Replicas : gone'[x] <= gone[x] + 1
      /\ \A x \in ready : gone'[x] = 0
  <2>1. gone' = [x \in Replicas |-> IF x \in ready THEN 0 ELSE Older(gone[x], Horizon + 1)]
    BY DEF Tick
  <2>2. \A x \in Replicas : Older(gone[x], Horizon + 1) \in 0..(Horizon + 1)
                            /\ Older(gone[x], Horizon + 1) <= gone[x] + 1
    BY <1>1, OlderType
  <2>3. ready \subseteq Replicas
    BY DEF RouteIInv, RouteTypeOK
  <2>4. QED
    BY <1>1, <2>1, <2>2, <2>3
<1>4. stocked' \in 0..(Horizon + 1) /\ stocked' <= stocked + 1 /\ (ready = {} => stocked' = 0)
  BY <1>1, OlderType DEF Tick
<1>5. ASSUME NEW reps \in Answers, NEW t \in Nat, Recent(reps, t)
      PROVE  Recent(reps, t + 1)'
  <2>1. \A i \in DOMAIN reps : reps[i] \in Replicas
    BY AnswersAreSequences
  <2>2. \A i \in DOMAIN reps : gone'[reps[i]] <= t + 1
    BY <1>1, <1>3, <1>5, <2>1 DEF Recent
  <2>3. reps = <<>> => stocked' <= t + 1
    BY <1>1, <1>4, <1>5 DEF Recent
  <2>4. QED
    BY <2>2, <2>3 DEF Recent
<1>6. /\ cache' = NoEntry \/ cache' \in Entry
      /\ Usable(cache') => /\ Usable(cache) /\ cache'.reps = cache.reps
                           /\ cache'.since = cache.since + 1
  <2>1. CASE cache = NoEntry
    BY <2>1 DEF Tick, Usable
  <2>2. CASE cache # NoEntry
    <3>1. /\ cache \in Entry /\ cache.since \in Nat /\ cache.since <= CacheTTL
      BY <1>1, <2>2 DEF Entry
    <3>2. cache' = [cache EXCEPT !.since = Older(cache.since, CacheTTL)]
      BY <2>2 DEF Tick
    <3>3. /\ Older(cache.since, CacheTTL) \in 0..CacheTTL
          /\ cache.since < CacheTTL => Older(cache.since, CacheTTL) = cache.since + 1
          /\ ~(cache.since < CacheTTL) => Older(cache.since, CacheTTL) = cache.since
      BY <1>1, <3>1, OlderType DEF Older
    <3>4. cache' \in Entry /\ cache'.reps = cache.reps
          /\ cache'.since = Older(cache.since, CacheTTL)
      BY <3>1, <3>2, <3>3 DEF Entry
    <3>5. QED
      BY <1>1, <2>2, <3>1, <3>3, <3>4 DEF Usable
  <2>3. QED
    BY <2>1, <2>2
<1>7. EntryRecent'
  <2> SUFFICES ASSUME Usable(cache') PROVE Recent(cache.reps, cache.since + ResolveTime)'
    BY DEF EntryRecent
  <2>1. /\ cache.reps \in Answers /\ cache.since + ResolveTime \in Nat
        /\ Recent(cache.reps, cache.since + ResolveTime)
    BY <1>1, <1>6 DEF RouteIInv, EntryRecent, Usable, Entry
  <2>2. cache'.since + ResolveTime = (cache.since + ResolveTime) + 1
    BY <1>1, <1>6 DEF Usable, Entry
  <2>3. QED
    BY <1>5, <1>6, <2>1, <2>2 DEF Recent
<1>8. ASSUME NEW r \in Reqs
      PROVE  req'[r] \in Request /\ RequestOK(req[r])' /\ req'[r].pc # "choose"
  <2>1. req[r] \in Request /\ RequestOK(req[r])
    BY <1>1 DEF RouteIInv
  <2>2. CASE req[r].pc = "answered"
    <3>1. req'[r] = [req[r] EXCEPT !.age = @ + 1] /\ req[r].age < ResolveTime
      BY <2>2 DEF Tick
    <3>2. /\ req'[r] \in Request /\ req'[r].pc = "answered" /\ req'[r].reps = req[r].reps
          /\ req'[r].age = req[r].age + 1 /\ req'[r].tried = req[r].tried
          /\ req[r].age \in Nat /\ req[r].reps \in Answers
      BY <1>1, <2>1, <2>2, <3>1 DEF Request
    <3>3. Recent(req[r].reps, req[r].age)
      BY <2>1, <2>2 DEF RequestOK
    <3>4. Recent(req[r].reps, req[r].age)'
      BY ZenonT(30), <1>5, <3>2, <3>3 DEF Recent
    <3>5. QED
      BY <2>1, <2>2, <3>2, <3>4 DEF RequestOK
  <2>3. CASE req[r].pc # "answered"
    <3>1. req'[r] = req[r] /\ req[r].pc # "choose"
      BY <2>3 DEF Tick
    <3>2. QED
      BY ZenonT(30), <2>1, <2>3, <3>1 DEF RequestOK
  <2>4. QED
    BY <2>2, <2>3
<1>9. RouteTypeOK'
  <2>1. req' \in [Reqs -> Request]
    <3>1. DOMAIN req' = Reqs /\ req' = [r \in Reqs |-> req'[r]]
      BY DEF Tick
    <3>2. QED
      BY <1>8, <3>1
  <2>2. QED
    BY <1>2, <1>3, <1>4, <1>6, <2>1 DEF RouteIInv, RouteTypeOK
<1>10. ReadyNow' /\ ChoiceUsable'
  BY <1>2, <1>3, <1>4, <1>8 DEF ReadyNow, ChoiceUsable
<1>11. QED
  BY ZenonT(30), <1>7, <1>8, <1>9, <1>10 DEF RouteIInv

-----------------------------------------------------------------------------
(* The theorems. *)

LEMMA RouteNextIInv == RouteIInv /\ [RouteNext]_routeVars => RouteIInv'
<1> SUFFICES ASSUME RouteIInv, [RouteNext]_routeVars PROVE RouteIInv'
  OBVIOUS
<1>1. ASSUME NEW r \in Reqs,
             \/ Arrive(r) \/ Lookup(r) \/ ResolveModel(r) \/ ResolveFails(r) \/ Fill(r)
             \/ Choose(r) \/ ForwardServes(r) \/ ForwardFails(r) \/ ListModels(r) \/ ListFails(r)
      PROVE  RouteIInv'
  BY <1>1, PlainIInv, LookupIInv, ResolveModelIInv, FillIInv, ChooseIInv, ForwardFailsIInv
<1>2. CASE \/ Deploy \/ Undeploy
           \/ \E x \in Replicas : BecomesReady(x) \/ NoLongerReady(x)
  BY <1>2, TableIInv
<1>3. CASE Tick
  BY <1>3, TickIInv
<1>4. CASE UNCHANGED routeVars
  BY ZenonT(30), <1>4 DEF routeVars, RouteIInv, RouteTypeOK, ReadyNow, EntryRecent, ChoiceUsable, RequestOK,
              Recent, Usable
<1>5. QED
  BY <1>1, <1>2, <1>3, <1>4 DEF RouteNext

\* Ages and answers stay what the cache and the requests take them for
\* (replicas, Pick, PickExcluding, Invalidate).
THEOREM RouteInvariant == RouteSpec => []RouteIInv
BY RouteInitIInv, RouteNextIInv, PTL DEF RouteSpec

\* The router's state is well formed: an entry holds an answer of the
\* coordinator, the cursor stays below its wrap and a request is sent to at
\* most two replicas (Router, handleInference).
THEOREM RouteTypes == RouteSpec => []RouteTypeOK
<1>1. RouteIInv => RouteTypeOK
  BY DEF RouteIInv
<1>2. QED
  BY <1>1, RouteInvariant, PTL

\* The step of a request that takes up an answer, from the cache or from the
\* coordinator: the answer is recent.
LEMMA TakenRecent ==
  ASSUME RouteIInv, NEW r \in Reqs,
         (Lookup(r) /\ Usable(cache)) \/ Fill(r)
  PROVE  \E q \in Request, reps \in Answers :
           /\ Len(q.tried) \in {0, 1} /\ Recent(reps, Horizon - 1)
           /\ req' = [req EXCEPT ![r] = Resolved(q, reps)]
<1>1. CASE Lookup(r) /\ Usable(cache)
  <2>1. req[r] \in Request /\ Len(req[r].tried) \in {0, 1}
    BY <1>1 DEF RouteIInv, RouteTypeOK, Lookup, RequestOK
  <2>2. req' = [req EXCEPT ![r] = Resolved(req[r], cache.reps)]
    BY <1>1 DEF Lookup
  <2>3. QED
    BY ZenonT(30), <1>1, <2>1, <2>2, UsableRecent
<1>2. CASE Fill(r)
  <2> DEFINE e == [req[r] EXCEPT !.age = 0]
  <2>1. /\ req[r] \in Request /\ Len(req[r].tried) \in {0, 1}
        /\ Recent(req[r].reps, req[r].age)
    BY <1>2 DEF RouteIInv, RouteTypeOK, Fill, RequestOK
  <2>2. /\ e \in Request /\ e.tried = req[r].tried /\ req[r].reps \in Answers
        /\ req[r].age \in Nat /\ req[r].age <= ResolveTime
    <3>1. 0 \in 0..ResolveTime
      BY RoutingAssumption
    <3>2. QED
      BY <2>1, <3>1, RoutingAssumption DEF Request
  <2>3. req' = [req EXCEPT ![r] = Resolved(e, req[r].reps)]
    BY <1>2 DEF Fill
  <2> HIDE DEF e
  <2>4. Horizon - 1 \in Nat /\ req[r].age <= Horizon - 1
    BY <2>2, RoutingAssumption DEF Horizon
  <2>5. Recent(req[r].reps, Horizon - 1)
    BY <2>1, <2>2, <2>4, RecentLater DEF RouteIInv
  <2>6. QED
    BY ZenonT(30), <2>1, <2>2, <2>3, <2>5
<1>3. QED
  BY <1>1, <1>2

\* A request that starts to forward goes to a replica that was READY recently,
\* and one that starts to list was refused by an answer that was true recently.
LEMMA StartsRecent ==
  ASSUME RouteIInv, RouteNext, NEW r \in Reqs
  PROVE  /\ req'[r].pc = "forward" /\ req[r].pc # "forward" => gone[Last(req'[r].tried)] < Horizon
         /\ req'[r].pc = "listing" /\ req[r].pc # "listing" => stocked < Horizon
<1> DEFINE Goal == /\ req'[r].pc = "forward" /\ req[r].pc # "forward"
                        => gone[Last(req'[r].tried)] < Horizon
                   /\ req'[r].pc = "listing" /\ req[r].pc # "listing" => stocked < Horizon
<1>1. req \in [Reqs -> Request] /\ req[r] \in Request
  BY DEF RouteIInv, RouteTypeOK
<1>2. \A x \in Replicas : gone[x] \in Nat
  BY RoutingAssumption DEF RouteIInv, RouteTypeOK, Horizon
<1>3. stocked \in Nat /\ Horizon \in Nat
  BY RoutingAssumption DEF RouteIInv, RouteTypeOK, Horizon
<1>4. ASSUME (Lookup(r) /\ Usable(cache)) \/ Fill(r) PROVE Goal
  <2>1. PICK q \in Request, reps \in Answers :
          /\ Len(q.tried) \in {0, 1} /\ Recent(reps, Horizon - 1)
          /\ req' = [req EXCEPT ![r] = Resolved(q, reps)]
    BY <1>4, TakenRecent
  <2> DEFINE p == Resolved(q, reps)
  <2>2. req'[r] = p
    BY <1>1, <2>1
  <2> HIDE DEF p
  <2>3. p.pc = "listing" => stocked < Horizon
    <3>1. p.pc = "listing" => reps = <<>>
      BY <2>1, ResolvedEffect DEF p
    <3>2. QED
      BY <1>3, <2>1, <3>1 DEF Recent
  <2>4. ASSUME p.pc = "forward" PROVE gone[Last(p.tried)] < Horizon
    <3>1. PICK i \in DOMAIN reps : Last(p.tried) = reps[i]
      BY <2>1, <2>4, ResolvedEffect DEF p
    <3>2. reps[i] \in Replicas
      BY AnswersAreSequences
    <3>3. QED
      BY <1>2, <1>3, <2>1, <3>1, <3>2 DEF Recent
  <2>5. QED
    BY <2>2, <2>3, <2>4
<1>5. ASSUME Choose(r) PROVE Goal
  <2>1. PICK x \in Replicas :
          /\ req' = [req EXCEPT ![r] = SentTo(req[r], x)]
          /\ gone[x] < Horizon
    BY <1>5, ChooseEffect
  <2>2. req'[r].pc = "forward" /\ req'[r].tried = <<x>>
    BY <1>1, <2>1 DEF SentTo, Request
  <2>3. Last(<<x>>) = x
    BY DEF Last
  <2>4. QED
    BY <2>1, <2>2, <2>3
<1>6. ASSUME Arrive(r) PROVE Goal
  BY <1>1, <1>6 DEF Arrive, Fresh
<1>7. ASSUME Lookup(r), ~Usable(cache) PROVE Goal
  BY <1>1, <1>7 DEF Lookup, Request
<1>8. ASSUME ResolveModel(r) PROVE Goal
  <2>1. PICK reps : req' = [req EXCEPT ![r] = WithAnswer(req[r], reps)]
    BY ZenonT(30), <1>8 DEF ResolveModel
  <2>2. QED
    BY <1>1, <2>1 DEF WithAnswer, Request
<1>9. ASSUME ResolveFails(r) PROVE Goal
  BY <1>1, <1>9 DEF ResolveFails, Request
<1>10. ASSUME ForwardServes(r) PROVE Goal
  BY <1>1, <1>10 DEF ForwardServes, Request
<1>11. ASSUME ForwardFails(r) PROVE Goal
  <2>1. \/ req'[r] = [req[r] EXCEPT !.pc = "lookup"]
        \/ req'[r] = [req[r] EXCEPT !.pc = "done", !.code = "502"]
    BY <1>1, <1>11 DEF ForwardFails
  <2>2. req'[r].pc \in {"lookup", "done"}
    BY ZenonT(30), <1>1, <2>1 DEF Request
  <2>3. QED
    BY <2>2
<1>12. ASSUME ListModels(r) PROVE Goal
  BY <1>1, <1>12 DEF ListModels, Request
<1>13. ASSUME ListFails(r) PROVE Goal
  BY <1>1, <1>13 DEF ListFails, Request
<1>14. ASSUME NEW o \in Reqs \ {r},
              \/ Arrive(o) \/ Lookup(o) \/ ResolveModel(o) \/ ResolveFails(o) \/ Fill(o)
              \/ Choose(o) \/ ForwardServes(o) \/ ForwardFails(o) \/ ListModels(o) \/ ListFails(o)
       PROVE  Goal
  <2>1. CASE Arrive(o) \/ Lookup(o) \/ ResolveModel(o) \/ ResolveFails(o) \/ Fill(o)
    BY <1>1, <2>1 DEF Arrive, Lookup, ResolveModel, ResolveFails, Fill
  <2>2. CASE \/ Choose(o) \/ ForwardServes(o) \/ ForwardFails(o) \/ ListModels(o) \/ ListFails(o)
    BY <1>1, <2>2 DEF Choose, ForwardServes, ForwardFails, ListModels, ListFails
  <2>3. QED
    BY ZenonT(30), <1>14, <2>1, <2>2
<1>15. ASSUME Tick PROVE Goal
  <2>1. req'[r] = req[r] \/ req'[r] = [req[r] EXCEPT !.age = @ + 1]
    BY <1>15 DEF Tick
  <2>2. req'[r].pc = req[r].pc
    BY <1>1, <2>1 DEF Request
  <2>3. QED
    BY <2>2
<1>16. ASSUME \/ Deploy \/ Undeploy
              \/ \E x \in Replicas : BecomesReady(x) \/ NoLongerReady(x)
       PROVE  Goal
  BY ZenonT(30), <1>16 DEF Deploy, Undeploy, BecomesReady, NoLongerReady
<1> HIDE DEF Goal
<1>17. ASSUME NEW o \in Reqs,
              \/ Arrive(o) \/ Lookup(o) \/ ResolveModel(o) \/ ResolveFails(o) \/ Fill(o)
              \/ Choose(o) \/ ForwardServes(o) \/ ForwardFails(o) \/ ListModels(o) \/ ListFails(o)
       PROVE  Goal
  <2>1. CASE o = r
    BY <1>4, <1>5, <1>6, <1>7, <1>8, <1>9, <1>10, <1>11, <1>12, <1>13, <1>17, <2>1
  <2>2. CASE o # r
    BY <1>14, <1>17, <2>2
  <2>3. QED
    BY <2>1, <2>2
<1>18. Goal
  BY <1>15, <1>16, <1>17, ZenonT(30) DEF RouteNext
<1>19. QED
  BY <1>18 DEF Goal

\* A request is sent to a replica only if the coordinator had it READY less than
\* CacheTTL + ResolveTime ticks ago, for any number of concurrent requests and
\* whichever answer comes last (replicas, Pick, PickExcluding).
THEOREM RouteRoutedWasReady == RouteSpec => RoutedWasReady
<1> DEFINE A == \A r \in Reqs :
                  req'[r].pc = "forward" /\ req[r].pc # "forward" =>
                    gone[Last(req'[r].tried)] < Horizon
<1>1. RouteIInv /\ [RouteNext]_routeVars => [A]_routeVars
  BY StartsRecent
<1>2. QED
  BY <1>1, RouteInvariant, PTL DEF RouteSpec, RoutedWasReady

\* A request is refused for want of replicas only if there was none less than
\* CacheTTL + ResolveTime ticks ago: a cached empty answer is not served for
\* longer than any other (replicas, Pick).
THEOREM RouteRefusedWasEmpty == RouteSpec => RefusedWasEmpty
<1> DEFINE A == \A r \in Reqs :
                  req'[r].pc = "listing" /\ req[r].pc # "listing" => stocked < Horizon
<1>1. RouteIInv /\ [RouteNext]_routeVars => [A]_routeVars
  BY StartsRecent
<1>2. QED
  BY <1>1, RouteInvariant, PTL DEF RouteSpec, RefusedWasEmpty
=============================================================================
