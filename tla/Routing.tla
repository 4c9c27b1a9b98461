------------------------------ MODULE Routing -------------------------------
(***************************************************************************)
(* How the gateway finds a replica for a request: the router's cache       *)
(* (gateway/internal/router) and the control of handleInference, forward   *)
(* and routingError (gateway/internal/proxy).                              *)
(*                                                                         *)
(* Cache entries of different models never meet, so one model name is      *)
(* modelled.  A request runs in its own goroutine; the router's mutex      *)
(* makes one step of each of its critical sections, and the calls to the   *)
(* coordinator and to the replica come between them.  A member of Reqs is  *)
(* a slot, used again once its request is answered.                        *)
(*                                                                         *)
(* Time is kept as ages, counted in ticks, that saturate where nothing     *)
(* tells them apart any more.                                              *)
(***************************************************************************)
EXTENDS Integers, Sequences, FiniteSets

CONSTANTS
  Reqs,         \* request slots
  Replicas,     \* the places the model's deployments may serve from: records
                \* of a deployment (dep) and a node
  NoEntry,      \* an absent cache entry
  CacheTTL,     \* ticks a cache entry is used for (cacheTTL)
  ResolveTime,  \* ticks an answer of the coordinator is on its way at most
  CursorWrap    \* where the round-robin cursor wraps: a multiple of every
                \* possible number of replicas

ASSUME RoutingAssumption ==
  /\ Cardinality(Replicas) \in Nat
  /\ NoEntry \notin [reps : Seq(Replicas), since : Nat, next : Nat]
  /\ CacheTTL \in Nat \ {0} /\ ResolveTime \in Nat
  /\ CursorWrap \in Nat \ {0}

VARIABLES
  deployed,     \* whether the model is in the coordinator's table
  ready,        \* the replicas the coordinator has READY
  cache,        \* Router.cache[model]
  req,          \* the requests
  gone,         \* history: ticks since each replica was last READY
  stocked       \* history: ticks since no replica was READY

routeVars == <<deployed, ready, cache, req, gone, stocked>>

Horizon == CacheTTL + ResolveTime

\* One deployment has one replica; two may be on one node.
Consistent(S) == \A x, y \in S : x # y => x.dep # y.dep

\* The sequences that name every member of S once.
Listings(S) ==
  {q \in UNION {[1..n -> S] : n \in 0..Cardinality(Replicas)} :
     \A x \in S : \E i \in DOMAIN q : q[i] = x /\ \A k \in DOMAIN q : q[k] = x => k = i}

\* What ResolveModel may answer: the order is that of a map.
Answers == UNION {Listings(S) : S \in {T \in SUBSET Replicas : Consistent(T)}}

Entry == [reps : Answers, since : 0..CacheTTL, next : 0..(CursorWrap - 1)]

Codes == {"none", "ok", "404", "502", "503"}

\* The replicas a request has been sent to so far.
Tries == {<<>>} \cup {<<x>> : x \in Replicas} \cup {<<x, y>> : x, y \in Replicas}

Last(tried) == tried[Len(tried)]

Request ==
  [pc     : {"done", "lookup", "calling", "answered", "choose", "forward", "listing"},
   reps   : Answers,                  \* what replicas returned, or is about to
   age    : 0..ResolveTime,           \* how long the answer has been under way
   tried  : Tries,
   code   : Codes]                    \* the status of the answer

RouteTypeOK ==
  /\ deployed \in BOOLEAN
  /\ ready \subseteq Replicas /\ Consistent(ready)
  /\ cache \in Entry \cup {NoEntry}
  /\ req \in [Reqs -> Request]
  /\ gone \in [Replicas -> 0..(Horizon + 1)]
  /\ stocked \in 0..(Horizon + 1)

Fresh(c) ==
  [pc |-> "done", reps |-> <<>>, age |-> 0, tried |-> <<>>, code |-> c]

RouteInit ==
  /\ deployed = FALSE
  /\ ready = {}
  /\ cache = NoEntry
  /\ req = [r \in Reqs |-> Fresh("none")]
  /\ gone = [x \in Replicas |-> Horizon + 1]
  /\ stocked = 0

Running(r) == req[r].pc # "done"

-----------------------------------------------------------------------------
(* Router.replicas, as Pick and PickExcluding use it. *)

\* Faulty variants: an entry with replicas in it, or one without, never expires.
UsableWhileFilled(e) == e # NoEntry /\ (e.since < CacheTTL \/ e.reps # <<>>)

UsableWhileEmpty(e) == e # NoEntry /\ (e.since < CacheTTL \/ e.reps = <<>>)

Usable(e) == e # NoEntry /\ e.since < CacheTTL

\* Where in reps a retry goes: the first replica of another deployment, 0 when
\* there is none.
Another(reps, failed) ==
  LET First(i) == /\ reps[i].dep # failed.dep
                  /\ \A k \in 1..(i - 1) : reps[k].dep = failed.dep
  IN  IF \E i \in DOMAIN reps : First(i)
      THEN CHOOSE i \in DOMAIN reps : First(i) ELSE 0

\* The request q goes on with what replicas returned.  The first time around
\* no replica means routingError, otherwise Pick looks at the cache again; a
\* retry takes the first replica of another deployment or answers 502.
Resolved(q, reps) ==
  LET i == Another(reps, q.tried[1]) IN
  IF q.tried = <<>>
  THEN [q EXCEPT !.reps = reps, !.pc = IF reps = <<>> THEN "listing" ELSE "choose"]
  ELSE IF i = 0
       THEN [q EXCEPT !.reps = <<>>, !.pc = "done", !.code = "502"]
       ELSE [q EXCEPT !.reps = <<>>, !.pc = "forward",
                      !.tried = Append(@, reps[i])]

\* The first critical section of replicas.
Lookup(r) ==
  /\ req[r].pc = "lookup"
  /\ req' = [req EXCEPT ![r] =
               IF Usable(cache) THEN Resolved(@, cache.reps)
               ELSE [@ EXCEPT !.pc = "calling"]]
  /\ UNCHANGED <<deployed, ready, cache, gone, stocked>>

WithAnswer(q, reps) == [q EXCEPT !.pc = "answered", !.reps = reps, !.age = 0]

\* The coordinator computes its answer, which then travels.
ResolveModel(r) ==
  /\ req[r].pc = "calling"
  /\ \E reps \in Listings(ready) : req' = [req EXCEPT ![r] = WithAnswer(@, reps)]
  /\ UNCHANGED <<deployed, ready, cache, gone, stocked>>

\* The call fails.  The first time around this is not ErrNoReplicas, and
\* routingError answers 503 at once.
ResolveFails(r) ==
  /\ req[r].pc \in {"calling", "answered"}
  /\ req' = [req EXCEPT ![r] =
               [@ EXCEPT !.pc = "done", !.reps = <<>>,
                         !.code = IF req[r].tried = <<>> THEN "503" ELSE "502"]]
  /\ UNCHANGED <<deployed, ready, cache, gone, stocked>>

\* The second critical section of replicas: a new entry starts its cursor at
\* the beginning, an existing one keeps it.
Fill(r) ==
  /\ req[r].pc = "answered"
  /\ cache' = [reps |-> req[r].reps, since |-> 0,
               next |-> IF cache = NoEntry THEN 0 ELSE cache.next]
  /\ req' = [req EXCEPT ![r] = Resolved([@ EXCEPT !.age = 0], @.reps)]
  /\ UNCHANGED <<deployed, ready, gone, stocked>>

SentTo(q, x) == [q EXCEPT !.pc = "forward", !.reps = <<>>, !.tried = <<x>>]

\* The critical section of Pick.  What replicas returned counts only when the
\* entry is gone or empty by now.
Choose(r) ==
  /\ req[r].pc = "choose"
  /\ IF cache = NoEntry \/ cache.reps = <<>>
     THEN /\ req' = [req EXCEPT ![r] = SentTo(@, @.reps[1])]
          /\ UNCHANGED cache
     ELSE /\ req' = [req EXCEPT ![r] =
                       SentTo(@, cache.reps[1 + (cache.next % Len(cache.reps))])]
          /\ cache' = [cache EXCEPT !.next = (@ + 1) % CursorWrap]
  /\ UNCHANGED <<deployed, ready, gone, stocked>>

-----------------------------------------------------------------------------
(* handleInference and routingError. *)

\* A well-formed request arrives (a malformed one is answered without touching
\* the router).
Arrive(r) ==
  /\ ~Running(r)
  /\ req' = [req EXCEPT ![r] = [Fresh("none") EXCEPT !.pc = "lookup"]]
  /\ UNCHANGED <<deployed, ready, cache, gone, stocked>>

\* The replica answers; what follows in forward is the subject of Usage.
ForwardServes(r) ==
  /\ req[r].pc = "forward"
  /\ req' = [req EXCEPT ![r] = [@ EXCEPT !.pc = "done", !.code = "ok"]]
  /\ UNCHANGED <<deployed, ready, cache, gone, stocked>>

\* Faulty variant: every failure is followed by another attempt.
ForwardFailsAgain(r) ==
  /\ req[r].pc = "forward"
  /\ cache' = NoEntry
  /\ req' = [req EXCEPT ![r].pc = "lookup"]
  /\ UNCHANGED <<deployed, ready, gone, stocked>>

\* The replica cannot be reached before anything is written.  After the first
\* attempt Invalidate drops the entry and the request looks again; after the
\* second it is answered 502.
ForwardFails(r) ==
  /\ req[r].pc = "forward"
  /\ IF Len(req[r].tried) = 1
     THEN /\ cache' = NoEntry
          /\ req' = [req EXCEPT ![r].pc = "lookup"]
     ELSE /\ req' = [req EXCEPT ![r] = [@ EXCEPT !.pc = "done", !.code = "502"]]
          /\ UNCHANGED cache
  /\ UNCHANGED <<deployed, ready, gone, stocked>>

\* DeployedModels answers: 503 when the model is listed, else 404.
ListModels(r) ==
  /\ req[r].pc = "listing"
  /\ req' = [req EXCEPT ![r] = [@ EXCEPT !.pc = "done",
                                         !.code = IF deployed THEN "503" ELSE "404"]]
  /\ UNCHANGED <<deployed, ready, cache, gone, stocked>>

\* DeployedModels fails.
ListFails(r) ==
  /\ req[r].pc = "listing"
  /\ req' = [req EXCEPT ![r] = [@ EXCEPT !.pc = "done", !.code = "404"]]
  /\ UNCHANGED <<deployed, ready, cache, gone, stocked>>

-----------------------------------------------------------------------------
(* The coordinator's table and the clock. *)

Deploy ==
  /\ ~deployed
  /\ deployed' = TRUE
  /\ UNCHANGED <<ready, cache, req, gone, stocked>>

BecomesReady(x) ==
  /\ deployed
  /\ x \notin ready /\ Consistent(ready \cup {x})
  /\ ready' = ready \cup {x}
  /\ gone' = [gone EXCEPT ![x] = 0]
  /\ UNCHANGED <<deployed, cache, req, stocked>>

NoLongerReady(x) ==
  /\ x \in ready
  /\ ready' = ready \ {x}
  /\ stocked' = IF ready' = {} THEN 0 ELSE stocked
  /\ UNCHANGED <<deployed, cache, req, gone>>

\* Every deployment of the model is deleted.
Undeploy ==
  /\ deployed
  /\ deployed' = FALSE
  /\ ready' = {}
  /\ stocked' = 0
  /\ UNCHANGED <<cache, req, gone>>

Older(age, cap) == IF age < cap THEN age + 1 ELSE age

\* A tick passes.  An answer is under way for ResolveTime ticks at most, and a
\* request does not rest between two critical sections.
Tick ==
  /\ \A r \in Reqs : /\ req[r].pc \notin {"lookup", "choose"}
                     /\ req[r].pc = "answered" => req[r].age < ResolveTime
  /\ cache' = IF cache = NoEntry THEN NoEntry
              ELSE [cache EXCEPT !.since = Older(@, CacheTTL)]
  /\ req' = [r \in Reqs |-> IF req[r].pc = "answered"
                            THEN [req[r] EXCEPT !.age = @ + 1] ELSE req[r]]
  /\ gone' = [x \in Replicas |-> IF x \in ready THEN 0 ELSE Older(gone[x], Horizon + 1)]
  /\ stocked' = IF ready = {} THEN 0 ELSE Older(stocked, Horizon + 1)
  /\ UNCHANGED <<deployed, ready>>

RouteNext ==
  \/ \E r \in Reqs :
       \/ Arrive(r) \/ Lookup(r) \/ ResolveModel(r) \/ ResolveFails(r)
       \/ Fill(r) \/ Choose(r) \/ ForwardServes(r) \/ ForwardFails(r)
       \/ ListModels(r) \/ ListFails(r)
  \/ Deploy \/ Undeploy
  \/ \E x \in Replicas : BecomesReady(x) \/ NoLongerReady(x)
  \/ Tick

RouteSpec == RouteInit /\ [][RouteNext]_routeVars

-----------------------------------------------------------------------------
(* Properties. *)

\* A request is sent to a replica only if the coordinator had it READY less
\* than CacheTTL + ResolveTime ticks ago, however resolutions, refreshes and
\* invalidations of concurrent requests interleave and whichever answer comes
\* last (replicas, Pick, PickExcluding).
RoutedWasReady ==
  [][\A r \in Reqs :
       req'[r].pc = "forward" /\ req[r].pc # "forward" =>
         gone[Last(req'[r].tried)] < Horizon]_routeVars

\* An empty answer is cached like any other, but a request is refused for want
\* of replicas only if there was none less than CacheTTL + ResolveTime ticks
\* ago (replicas, Pick).
RefusedWasEmpty ==
  [][\A r \in Reqs :
       req'[r].pc = "listing" /\ req[r].pc # "listing" => stocked < Horizon]_routeVars
=============================================================================
