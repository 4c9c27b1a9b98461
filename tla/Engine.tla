------------------------------- MODULE Engine -------------------------------
(***************************************************************************)
(* The engine process once its model is loaded: the handlers of Server     *)
(* (agent/internal/engine/server.go), which take turns under Server.mu,    *)
(* and llamaModel (llama_darwin.go), whose Generate starts a goroutine     *)
(* that holds the model's own mutex until it has ended, and sends tokens   *)
(* over a channel that its handler reads.  Sampling and decoding are       *)
(* external: each may yield or fail.                                       *)
(***************************************************************************)
EXTENDS Integers, Sequences

CONSTANTS
  Requests,   \* each is made once
  Streamed,   \* those that ask for a streamed answer
  Nobody,     \* holds a mutex that is free
  MaxTokens,  \* max_tokens of a request
  OutSize     \* capacity of the channel of tokens

ASSUME EngineAssumption ==
  /\ Nobody \notin Requests /\ Streamed \subseteq Requests
  /\ MaxTokens \in Nat \ {0} /\ OutSize \in Nat \ {0}

VARIABLES
  req,      \* the handler of a request
  gen,      \* the goroutine of its Generate call
  out,      \* the channel between the two
  turn,     \* who holds Server.mu
  model,    \* who holds llamaModel.mu
  kv,       \* whose tokens are in the KV cache
  life      \* of the process: "open", "closing" after a signal, "freed"

engVars == <<req, gen, out, turn, model, kv, life>>

Ended == {"ok", "error", "broken"}

Accepted == {"parse", "lock", "generate", "read"}

\* gone: the client has hung up; stalled: it does not, and does not read
\* either; usage: what the answer says was generated.
Handler == [pc : {"new"} \cup Accepted \cup Ended, gone : BOOLEAN, stalled : BOOLEAN,
            text : 0..MaxTokens, usage : 0..MaxTokens]

\* generated is the code's counter; sampled and sent count what it did.
Generation == [pc : {"off", "prefill", "sample", "decode", "finish", "end"},
               generated : 0..MaxTokens, sampled : 0..MaxTokens,
               sent : 0..MaxTokens, failed : BOOLEAN]

Token == [text : BOOLEAN, done : BOOLEAN, err : BOOLEAN, count : 0..MaxTokens]

EngineTypeOK ==
  /\ req \in [Requests -> Handler]
  /\ gen \in [Requests -> Generation]
  /\ out \in [Requests -> Seq(Token)]
  /\ \A r \in Requests : Len(out[r]) <= OutSize
  /\ turn \in Requests \cup {Nobody} /\ model \in Requests \cup {Nobody}
  /\ kv \in Requests \cup {Nobody}
  /\ life \in {"open", "closing", "freed"}

HandlerAt(pc) == [pc |-> pc, gone |-> FALSE, stalled |-> FALSE, text |-> 0, usage |-> 0]

NoGeneration ==
  [pc |-> "off", generated |-> 0, sampled |-> 0, sent |-> 0, failed |-> FALSE]

EngineInit ==
  /\ req = [r \in Requests |-> HandlerAt("new")]
  /\ gen = [r \in Requests |-> NoGeneration]
  /\ out = [r \in Requests |-> <<>>]
  /\ turn = Nobody /\ model = Nobody /\ kv = Nobody
  /\ life = "open"

-----------------------------------------------------------------------------
(* The handlers: handleChat and handleCompletion, then blocking or         *)
(* streaming, which differ only in what they make of an error.             *)

Accept(r) ==
  /\ req[r].pc = "new" /\ life = "open"
  /\ req' = [req EXCEPT ![r].pc = "parse"]
  /\ UNCHANGED <<gen, out, turn, model, kv, life>>

\* The body is read and the chat template applied, without any mutex: by then
\* Close may have freed the model.  A request that is malformed, empty, for
\* another model or without a template is answered at once; the others wait for
\* their turn.
Prepare(r) ==
  /\ req[r].pc = "parse"
  /\ \E pc \in {"lock", "error"} : req' = [req EXCEPT ![r].pc = pc]
  /\ UNCHANGED <<gen, out, turn, model, kv, life>>

Lock(r) ==
  /\ req[r].pc = "lock" /\ turn = Nobody
  /\ req' = [req EXCEPT ![r].pc = "generate"]
  /\ turn' = r
  /\ UNCHANGED <<gen, out, model, kv, life>>

\* There is no write timeout: a write to a client that does not read blocks.
CanWrite(r) == ~req[r].stalled

\* The handler writes the rest of its answer, and its deferred Unlock runs.
Answer(r, pc) ==
  /\ CanWrite(r)
  /\ req' = [req EXCEPT ![r].pc = pc]
  /\ turn' = Nobody

\* Generate: the model is closed, the prompt has no tokens, or the goroutine
\* starts, and the mutex is its to release.
Generate(r) ==
  /\ req[r].pc = "generate" /\ model = Nobody
  /\ \/ Answer(r, "error") /\ UNCHANGED <<gen, model>>
     \/ /\ life # "freed"
        /\ req' = [req EXCEPT ![r].pc = "read"]
        /\ gen' = [gen EXCEPT ![r].pc = "prefill"]
        /\ model' = r
        /\ UNCHANGED turn
  /\ UNCHANGED <<out, kv, life>>

Noted(h, tok) ==
  [h EXCEPT !.text  = IF tok.text THEN @ + 1 ELSE @,
            !.usage = IF tok.done THEN tok.count ELSE @]

\* A stream that has begun can only end, with finish_reason, an empty usage
\* and [DONE] as always; a blocking answer becomes an error.
Failure(r) == IF r \in Streamed THEN "ok" ELSE "error"

\* Faulty variant: the handler returns when its client has hung up.
ReadUnlessGone(r) ==
  /\ req[r].pc = "read" /\ out[r] # <<>>
  /\ r \in Streamed => CanWrite(r)
  /\ IF req[r].gone
     THEN Answer(r, "error") /\ UNCHANGED out
     ELSE /\ IF Head(out[r]).err
             THEN Answer(r, Failure(r))
             ELSE req' = [req EXCEPT ![r] = Noted(@, Head(out[r]))] /\ UNCHANGED turn
          /\ out' = [out EXCEPT ![r] = Tail(@)]
  /\ UNCHANGED <<gen, model, kv, life>>

\* The next token; a stream has written the one before, and flushed it.
Read(r) ==
  /\ req[r].pc = "read" /\ out[r] # <<>>
  /\ r \in Streamed => CanWrite(r)
  /\ IF Head(out[r]).err
     THEN Answer(r, Failure(r))
     ELSE req' = [req EXCEPT ![r] = Noted(@, Head(out[r]))] /\ UNCHANGED turn
  /\ out' = [out EXCEPT ![r] = Tail(@)]
  /\ UNCHANGED <<gen, model, kv, life>>

\* The channel is closed and empty.
Drained(r) ==
  /\ req[r].pc = "read" /\ out[r] = <<>> /\ gen[r].pc = "off"
  /\ Answer(r, "ok")
  /\ UNCHANGED <<gen, out, model, kv, life>>

ClientIs(h, gone, stalled) == [h EXCEPT !.gone = gone, !.stalled = stalled]

\* The request's context is dead; writes to the client fail at once.
HangUp(r) ==
  /\ req[r].pc \in Accepted /\ ~req[r].gone
  /\ req' = [req EXCEPT ![r] = ClientIs(@, TRUE, FALSE)]
  /\ UNCHANGED <<gen, out, turn, model, kv, life>>

\* The client does not read any more, or reads again.  Before generation has
\* begun it makes no difference: an error is written into empty buffers.
Stall(r, stalled) ==
  /\ req[r].pc = "read" /\ ~req[r].gone /\ req[r].stalled # stalled
  /\ req' = [req EXCEPT ![r] = ClientIs(@, FALSE, stalled)]
  /\ UNCHANGED <<gen, out, turn, model, kv, life>>

Client(r) == HangUp(r) \/ \E stalled \in BOOLEAN : Stall(r, stalled)

-----------------------------------------------------------------------------
(* generate. *)

Piece == [text |-> TRUE, done |-> FALSE, err |-> FALSE, count |-> 0]

\* Send a token of text, when there is one, or wait for room.
Push(r, text) ==
  IF text THEN Len(out[r]) < OutSize /\ out' = [out EXCEPT ![r] = Append(@, Piece)]
          ELSE UNCHANGED out

\* The loop is left with or without an error.
Leave(g, failed) ==
  [pc |-> "finish", generated |-> g.generated, sampled |-> g.sampled, sent |-> g.sent,
   failed |-> failed]

\* llama_memory_clear, then the prompt is decoded.
Prefill(r) ==
  /\ gen[r].pc = "prefill"
  /\ kv' = r
  /\ \/ gen' = [gen EXCEPT ![r].pc = "sample"]
     \/ gen' = [gen EXCEPT ![r] = Leave(@, TRUE)]
  /\ UNCHANGED <<req, out, turn, model, life>>

\* The loop is over: max_tokens, a dead context, an end-of-generation token,
\* or one that has no text form.
Over(r) ==
  /\ gen[r].pc = "sample"
  /\ \E failed \in BOOLEAN :
       /\ gen[r].generated = MaxTokens => ~failed
       /\ gen[r].generated < MaxTokens /\ req[r].gone => failed
       /\ gen' = [gen EXCEPT ![r] = Leave(@, failed)]
  /\ UNCHANGED <<req, out, turn, model, kv, life>>

\* Faulty variant: the token that completes a stop sequence is not counted.
CountedBut(n, stop) == IF stop THEN n ELSE n + 1

Counted(n, stop) == n + 1

Advance(g, stop, text) ==
  [pc |-> IF stop THEN "finish" ELSE "decode",
   generated |-> Counted(g.generated, stop), sampled |-> g.sampled + 1,
   sent |-> IF text THEN g.sent + 1 ELSE g.sent, failed |-> g.failed]

\* A token with a text.  If it completes a stop sequence, only the text before
\* that is sent, if any, and the loop is over.  A hang-up after the check of the
\* context is seen by the next check.
Sample(r) ==
  /\ gen[r].pc = "sample" /\ gen[r].generated < MaxTokens /\ ~req[r].gone
  /\ \E stop, text \in BOOLEAN :
       /\ ~stop => text
       /\ Push(r, text)
       /\ gen' = [gen EXCEPT ![r] = Advance(@, stop, text)]
  /\ UNCHANGED <<req, turn, model, kv, life>>

Decode(r) ==
  /\ gen[r].pc = "decode"
  /\ \/ gen' = [gen EXCEPT ![r].pc = "sample"]
     \/ gen' = [gen EXCEPT ![r] = Leave(@, TRUE)]
  /\ UNCHANGED <<req, out, turn, model, kv, life>>

\* finish stamps the counts onto the last token.
Last(r) ==
  [text |-> FALSE, done |-> TRUE, err |-> gen[r].failed, count |-> gen[r].generated]

Finish(r) ==
  /\ gen[r].pc = "finish" /\ Len(out[r]) < OutSize
  /\ gen' = [gen EXCEPT ![r].pc = "end"]
  /\ out' = [out EXCEPT ![r] = Append(@, Last(r))]
  /\ UNCHANGED <<req, turn, model, kv, life>>

\* The channel is closed and the mutex released.
GoroutineEnds(r) ==
  /\ gen[r].pc = "end"
  /\ gen' = [gen EXCEPT ![r].pc = "off"]
  /\ model' = Nobody
  /\ UNCHANGED <<req, out, turn, kv, life>>

-----------------------------------------------------------------------------
(* The end of the process by a signal (runEngine). *)

\* Shutdown waits for the handlers, but for ten seconds only.
Signal ==
  /\ life = "open" /\ life' = "closing"
  /\ UNCHANGED <<req, gen, out, turn, model, kv>>

\* Faulty variant: Close frees the model without its mutex.
CloseAtOnce ==
  /\ life = "closing" /\ life' = "freed"
  /\ UNCHANGED <<req, gen, out, turn, model, kv>>

\* The deferred Close.
Close ==
  /\ life = "closing" /\ model = Nobody /\ life' = "freed"
  /\ UNCHANGED <<req, gen, out, turn, model, kv>>

\* The process is gone: every connection it had breaks, and of the requests
\* it has answered only that is remembered.
EngineDies ==
  /\ req' = [r \in Requests |->
               HandlerAt(IF req[r].pc \in Accepted THEN "broken" ELSE req[r].pc)]
  /\ gen' = [r \in Requests |-> NoGeneration]
  /\ out' = [r \in Requests |-> <<>>]
  /\ turn' = Nobody /\ model' = Nobody /\ kv' = Nobody
  /\ life' = "open"

Generates(r) ==
  Prefill(r) \/ Over(r) \/ Sample(r) \/ Decode(r) \/ Finish(r) \/ GoroutineEnds(r)

Handles(r) == Lock(r) \/ Generate(r) \/ Read(r) \/ Drained(r)

EngineNext ==
  \/ \E r \in Requests : Accept(r) \/ Prepare(r) \/ Handles(r) \/ Client(r) \/ Generates(r)
  \/ Signal \/ Close \/ EngineDies

EngineSpec == EngineInit /\ [][EngineNext]_engVars

\* The goroutines run on; nothing is asked of the clients.
EngineFairSpec ==
  /\ EngineSpec
  /\ \A r \in Requests : WF_engVars(Handles(r)) /\ WF_engVars(Generates(r))

-----------------------------------------------------------------------------
(* Properties. *)

\* "One llama_context cannot decode concurrently": while a generation runs,
\* the KV cache holds its own tokens and the model is not freed, although a
\* handler may return, and Close may be called, before its goroutine is done.
ContextOwned ==
  \A r \in Requests :
    /\ gen[r].pc \in {"sample", "decode"} => kv = r
    /\ gen[r].pc \in {"prefill", "sample", "decode"} => life # "freed"

AnswerTrue(r) ==
  req[r].pc = "ok" =>
    \/ req[r].usage = gen[r].sampled /\ req[r].text = gen[r].sent
    \/ r \in Streamed /\ gen[r].failed

\* An answer that ends as a complete one is complete, and bills what was
\* generated ("every exit path reports usage"): all text that was sent is in
\* it.  The exception is a stream whose generation failed, which ends like a
\* complete one and bills nothing.
AnswersTrue == \A r \in Requests : AnswerTrue(r)

\* The model's mutex is the goroutine's, from Generate until it has ended.
MutexHeld ==
  /\ \A r \in Requests : gen[r].pc # "off" => model = r
  /\ life = "freed" => model = Nobody
  /\ \A r \in Requests : gen[r].pc \in {"sample", "decode"} => kv = r

\* A request starts from nothing.
StartsFresh(r) ==
  req[r].pc \in {"new", "parse", "lock", "generate"} =>
    /\ req[r].text = 0 /\ req[r].usage = 0
    /\ gen[r] = NoGeneration /\ out[r] = <<>>

CountsAgree(r) == gen[r].generated = gen[r].sampled /\ gen[r].sent <= gen[r].sampled

\* What the handler has and what is in the channel add up to what was sent;
\* the last token comes after everything else.
NothingLost(r) ==
  req[r].pc = "read" =>
    LET n == Len(out[r])
    IN  IF gen[r].pc \in {"prefill", "sample", "decode", "finish"}
        THEN /\ \A i \in 1..n : out[r][i] = Piece
             /\ req[r].text + n = gen[r].sent
        ELSE IF n = 0
        THEN req[r].text = gen[r].sent /\ req[r].usage = gen[r].generated /\ ~gen[r].failed
        ELSE /\ \A i \in 1..(n - 1) : out[r][i] = Piece
             /\ out[r][n] = Last(r)
             /\ req[r].text + n - 1 = gen[r].sent

\* A handler reads until its goroutine has sent the last token.
Awaited(r) == gen[r].pc \notin {"off", "end"} => req[r].pc = "read"

ReqInv(r) ==
  StartsFresh(r) /\ CountsAgree(r) /\ NothingLost(r) /\ Awaited(r) /\ AnswerTrue(r)

EngIInv == EngineTypeOK /\ MutexHeld /\ \A r \in Requests : ReqInv(r)

\* The handler whose turn it is waits for a client that does not read.
HeldUp == \E r \in Requests : turn = r /\ req[r].stalled

\* Every well-formed request is answered, though others hang up, fail, are in the
\* way or keep a handler waiting for a time, unless clients that do not read keep
\* one waiting for good, or again and again: it holds Server.mu while it writes,
\* and behind a full channel its generation holds the model's mutex (sendJSON).
Answered ==
  <>[]~HeldUp =>
    \A r \in Requests : (req[r].pc \in {"lock", "generate", "read"}) ~> (req[r].pc \in Ended)
=============================================================================
