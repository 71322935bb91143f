------------------------------- MODULE Proxy -------------------------------
(***************************************************************************)
(* internal/proxy/proxy.go: what the handlers of chat completions, legacy  *)
(* completions and embeddings do with the servers they select, the flights *)
(* of internal/cache/cache.go that let identical requests share one        *)
(* upstream call, the cache, and the retries of internal/retry/retry.go.   *)
(*                                                                         *)
(* SelectServer and ReleaseServer are one step each here: Balancer takes   *)
(* them apart, with the server table and its reloads.  One hostgroup of    *)
(* ONLINE servers is enough for what the handlers do.                      *)
(***************************************************************************)
EXTENDS CircuitBreaker, FiniteSets

CONSTANTS Servers,
          EmbeddingServers,  \* those whose provider supports embeddings
          Requests,
          Asks,              \* the bodies requests may have
          Keys,              \* cache keys
          RetryLimits,       \* what max_retries may be set to: any number is taken
          MayPanic,          \* rules may name a hostgroup that had no server
          NoServer,
          NoRequest,
          Failed             \* an error reply

\* "chat" is a chat completion in one piece; "plain" is a streamed one or a
\* legacy completion, which neither share calls nor retry nor use the cache.
Kinds == {"chat", "plain", "embedding"}

\* A body, as far as the proxy tells bodies apart: "rest" stands for all that
\* GenerateChatKey leaves out of the key (n, top_p, stop, tools, seed...).  Bodies
\* of different temperatures may share a key: it has thousandths, so 0.0004 counts
\* as 0, and max_tokens 0 without a temperature reads as temperature 0 without
\* max_tokens.
Ask == [kind : Kinds, key : Keys, temperature : {"unset", "zero", "positive"},
        rest : {"same", "other"}]

ASSUME AsksAssumption ==
  /\ Asks \subseteq Ask
  /\ \A a, b \in Asks : a.key = b.key => a.kind = b.kind
ASSUME ProxyRequestsAssumption == IsFiniteSet(Requests)
ASSUME RetriesAssumption == RetryLimits \subseteq Int
ASSUME SentinelsAssumption ==
  NoServer \notin Servers /\ NoRequest \notin Requests
  /\ Failed \notin Requests \cup {NoRequest}

VARIABLES
  breakers,   \* the circuit breaker of each server
  conns,      \* Connections of each server
  extra,      \* releases of a server by a request that did not hold it
  ask,        \* body of each request
  pc,
  server,     \* the server a request selected last
  limit,      \* max_retries, as a request read it
  attempt,    \* retry.Do's attempt
  outcome,    \* how a request's own upstream call ended
  gone,       \* requests whose client has disconnected
  inflight,   \* the flights map: key to the request that leads its flight
  flight,     \* the flight each request is in, named by its leader
  closed,     \* flights whose done channel is closed
  enabled,    \* the cache's Enabled
  cached,     \* key to the request whose response is stored
  reply       \* what was sent: an error, or the response some request fetched

balancerVars == <<breakers, conns, extra>>
flightVars == <<inflight, flight, closed>>
cacheVars == <<enabled, cached>>
retryVars == <<limit, attempt>>
localVars == <<server, retryVars, gone>>
vars == <<balancerVars, flightVars, cacheVars, localVars, ask, pc, outcome, reply>>

Key(r) == ask[r].key
Kind(r) == ask[r].kind

Cacheable(r) ==
  \/ Kind(r) = "embedding"
  \/ Kind(r) = "chat" /\ ask[r].temperature # "positive"

Goto(r, label) == pc' = [pc EXCEPT ![r] = label]

\* The handler returns, or a panic takes it away: its variables and its context
\* are no more.
Leave(r, label) ==
  /\ Goto(r, label)
  /\ server' = [server EXCEPT ![r] = NoServer]
  /\ limit' = [limit EXCEPT ![r] = 0]
  /\ attempt' = [attempt EXCEPT ![r] = 0]
  /\ gone' = gone \ {r}

Answer(r, response) == reply' = [reply EXCEPT ![r] = response] /\ Leave(r, "done")

Panic(r) == Leave(r, "panicked") /\ UNCHANGED reply

-----------------------------------------------------------------------------
(* Faulty variants of operators below, used by none of them.               *)

\* A failed release does not take the connection back.
ReleaseOnSuccess(s, success) ==
  /\ conns' = IF success THEN [conns EXCEPT ![s] = @ - 1] ELSE conns
  /\ breakers' = [breakers EXCEPT ![s] = IF success THEN AfterSuccess(@)
                                                    ELSE AfterFailure(@)]

\* A flight counts as over as soon as it exists.
OverAtOnce(q) == q \in Requests

\* Errors are stored too.
StorableAnyway(r) == enabled /\ Cacheable(r)

\* The delay before the removal starts with the call, and may end before it.
ForgetEarly(k) ==
  /\ inflight[k] # NoRequest
  /\ inflight' = [inflight EXCEPT ![k] = NoRequest]
  /\ UNCHANGED <<balancerVars, flight, closed, cacheVars, ask, pc, server,
                 retryVars, outcome, gone, reply>>

\* A flight that failed is not closed.
ClosedOnSuccess(r) ==
  IF flight[r] = r /\ outcome[r] = "ok" THEN closed \cup {r} ELSE closed

-----------------------------------------------------------------------------
Response(r) == IF outcome[r] = "ok" THEN r ELSE Failed

Init ==
  /\ breakers = [s \in Servers |-> NewBreaker]
  /\ conns = [s \in Servers |-> 0]
  /\ extra = [s \in Servers |-> 0]
  /\ ask \in [Requests -> Asks]
  /\ pc = [r \in Requests |-> IF ask[r].kind = "embedding" THEN "lookup"
                                                           ELSE "select"]
  /\ server = [r \in Requests |-> NoServer]
  /\ limit = [r \in Requests |-> 0]
  /\ attempt = [r \in Requests |-> 0]
  /\ outcome = [r \in Requests |-> "pending"]
  /\ gone = {}
  /\ inflight = [k \in Keys |-> NoRequest]
  /\ flight = [r \in Requests |-> NoRequest]
  /\ closed = {}
  /\ enabled \in BOOLEAN
  /\ cached = [k \in Keys |-> NoRequest]
  /\ reply = [r \in Requests |-> NoRequest]

-----------------------------------------------------------------------------
(* The balancer, as the handlers use it                                    *)

\* Servers that are healthy at the moment are asked for, and their breakers
\* are: each may turn half-open, whichever server is picked.
Asked(healthy) ==
  [s \in Servers |-> IF s \in healthy THEN AfterAllow(breakers[s])
                                      ELSE breakers[s]]

Available(healthy) == {s \in healthy : Allows(breakers[s])}

Pick(r, s) ==
  /\ server' = [server EXCEPT ![r] = s]
  /\ conns' = [conns EXCEPT ![s] = @ + 1]

ReleaseServer(s, success) ==
  /\ conns' = [conns EXCEPT ![s] = @ - 1]
  /\ breakers' = [breakers EXCEPT ![s] = IF success THEN AfterSuccess(@)
                                                    ELSE AfterFailure(@)]

-----------------------------------------------------------------------------
(* The handlers                                                            *)

\* Where a request goes with the server it has got; one for embeddings whose
\* provider has none is over.
AfterSelect(r, s) ==
  CASE Kind(r) = "chat"  -> "lookup"
    [] Kind(r) = "plain" -> "calling"
    [] Kind(r) = "embedding" /\ s \in EmbeddingServers    -> "join"
    [] Kind(r) = "embedding" /\ s \notin EmbeddingServers -> "release"

\* A chat or plain request selects first, an embedding once it has missed the
\* cache.  When round robin has no counter for the hostgroup that the rules
\* name, SelectServer panics in place of picking: see Balancer.
Select(r) ==
  /\ pc[r] = "select"
  /\ \E healthy \in SUBSET Servers :
       /\ breakers' = Asked(healthy)
       /\ \/ /\ Available(healthy) = {}
             /\ Answer(r, Failed)
             /\ UNCHANGED <<conns, outcome>>
          \/ \E s \in Available(healthy) :
               /\ Pick(r, s)
               /\ Goto(r, AfterSelect(r, s))
               /\ outcome' = IF AfterSelect(r, s) = "release"
                             THEN [outcome EXCEPT ![r] = "failed"] ELSE outcome
               /\ UNCHANGED <<retryVars, gone, reply>>
          \/ /\ MayPanic /\ Available(healthy) # {}
             /\ Panic(r)
             /\ UNCHANGED <<conns, outcome>>
  /\ UNCHANGED <<extra, flightVars, cacheVars, ask>>

\* A hit ends the request; a chat request then hands back its server, as if
\* the server had answered.
Lookup(r) ==
  LET hit == enabled /\ Cacheable(r) /\ cached[Key(r)] # NoRequest IN
  /\ pc[r] = "lookup"
  /\ \/ /\ hit
        /\ Answer(r, cached[Key(r)])
        /\ IF Kind(r) = "chat" THEN ReleaseServer(server[r], TRUE)
                               ELSE UNCHANGED <<conns, breakers>>
     \/ /\ ~ hit
        /\ Goto(r, IF Kind(r) = "chat" THEN "join" ELSE "select")
        /\ UNCHANGED <<conns, breakers, localVars, reply>>
  /\ UNCHANGED <<extra, flightVars, cacheVars, ask, outcome>>

\* DeduplicatedCall: with the cache disabled a request calls on its own;
\* else it leads the flight of its key or, when there is one, waits for it.  Who
\* calls for a chat reads max_retries as it is set by then.
Join(r) ==
  LET call == IF Kind(r) = "chat" THEN "attempt" ELSE "calling" IN
  /\ pc[r] = "join"
  /\ \E n \in RetryLimits :
       limit' = IF Kind(r) = "chat" THEN [limit EXCEPT ![r] = n] ELSE limit
  /\ \/ /\ ~ enabled
        /\ Goto(r, call)
        /\ UNCHANGED <<inflight, flight>>
     \/ /\ enabled
        /\ inflight[Key(r)] = NoRequest
        /\ inflight' = [inflight EXCEPT ![Key(r)] = r]
        /\ flight' = [flight EXCEPT ![r] = r]
        /\ Goto(r, call)
     \/ /\ enabled
        /\ inflight[Key(r)] # NoRequest
        /\ flight' = [flight EXCEPT ![r] = inflight[Key(r)]]
        /\ Goto(r, "wait")
        /\ UNCHANGED inflight
  /\ UNCHANGED <<balancerVars, closed, cacheVars, ask, server, attempt,
                 outcome, gone, reply>>

\* The flight that q leads has its result.
Over(q) == q \in closed

\* A follower wakes up and hands back the server it never called: a chat
\* request as a success, an embedding with the leader's outcome.
Wake(r) ==
  LET leader == flight[r] IN
  /\ pc[r] = "wait"
  /\ Over(leader)
  /\ ReleaseServer(server[r], Kind(r) = "chat" \/ outcome[leader] = "ok")
  /\ Answer(r, Response(leader))
  /\ UNCHANGED <<extra, flightVars, cacheVars, ask, outcome>>

-----------------------------------------------------------------------------
(* executeChatCompletion under retry.Do                                    *)

\* The context is looked at before every attempt; all but the first release
\* the server of the attempt before.
Attempt(r) ==
  /\ pc[r] = "attempt"
  /\ attempt[r] <= limit[r]
  /\ \/ /\ r \in gone
        /\ outcome' = [outcome EXCEPT ![r] = "failed"]
        /\ Goto(r, "release")
        /\ UNCHANGED <<conns, breakers>>
     \/ /\ r \notin gone
        /\ attempt[r] = 0
        /\ Goto(r, "calling")
        /\ UNCHANGED <<conns, breakers, outcome>>
     \/ /\ r \notin gone
        /\ attempt[r] > 0
        /\ ReleaseServer(server[r], FALSE)
        /\ Goto(r, "reselect")
        /\ UNCHANGED outcome
  /\ UNCHANGED <<extra, flightVars, cacheVars, ask, server, retryVars, gone,
                 reply>>

\* With a negative limit there is no attempt, no error and no response: the
\* server nobody called is handed back as a success, and then the missing
\* response panics.
NoAttempt(r) ==
  /\ pc[r] = "attempt"
  /\ attempt[r] > limit[r]
  /\ ReleaseServer(server[r], TRUE)
  /\ Panic(r)
  /\ UNCHANGED <<extra, flightVars, cacheVars, ask, outcome>>

\* When no server is left the last one stays on record, and is released once
\* more at the end.  A panic takes the handler away and leaves the flight.
Reselect(r) ==
  /\ pc[r] = "reselect"
  /\ \E healthy \in SUBSET Servers :
       /\ breakers' = Asked(healthy)
       /\ \/ /\ Available(healthy) = {}
             /\ extra' = [extra EXCEPT ![server[r]] = @ + 1]
             /\ outcome' = [outcome EXCEPT ![r] = "failed"]
             /\ Goto(r, "release")
             /\ UNCHANGED <<conns, localVars, reply>>
          \/ \E s \in Available(healthy) :
               /\ Pick(r, s)
               /\ Goto(r, "calling")
               /\ UNCHANGED <<extra, retryVars, gone, outcome, reply>>
          \/ /\ MayPanic /\ Available(healthy) # {}
             /\ Panic(r)
             /\ UNCHANGED <<conns, extra, outcome>>
  /\ UNCHANGED <<flightVars, cacheVars, ask>>

\* Where a request goes once its upstream call is over: an embedding's flight
\* ends with the call itself, a chat's with the release of its server.
AfterCall(r) == IF Kind(r) = "embedding" THEN "publish" ELSE "release"

\* The upstream answers, fails, or fails in a way worth a retry.
Upstream(r) ==
  /\ pc[r] = "calling"
  /\ \/ \E result \in {"ok", "failed"} :
          /\ outcome' = [outcome EXCEPT ![r] = result]
          /\ Goto(r, AfterCall(r))
     \/ /\ Kind(r) = "chat"
        /\ attempt[r] < limit[r]
        /\ Goto(r, "backoff")
        /\ UNCHANGED outcome
  /\ UNCHANGED <<balancerVars, flightVars, cacheVars, ask, server, retryVars,
                 gone, reply>>

\* The delay before the next attempt, unless the client leaves meanwhile.
Backoff(r) ==
  /\ pc[r] = "backoff"
  /\ \/ /\ r \in gone
        /\ outcome' = [outcome EXCEPT ![r] = "failed"]
        /\ Goto(r, "release")
        /\ UNCHANGED attempt
     \/ /\ attempt' = [attempt EXCEPT ![r] = @ + 1]
        /\ Goto(r, "attempt")
        /\ UNCHANGED outcome
  /\ UNCHANGED <<balancerVars, flightVars, cacheVars, ask, server, limit, gone,
                 reply>>

Release(r) ==
  /\ pc[r] = "release"
  /\ ReleaseServer(server[r], outcome[r] = "ok")
  /\ \/ Kind(r) = "chat" /\ Goto(r, "publish") /\ UNCHANGED <<localVars, reply>>
     \/ Kind(r) = "plain" /\ Answer(r, Response(r))
     \/ Kind(r) = "embedding" /\ Goto(r, "store") /\ UNCHANGED <<localVars, reply>>
  /\ UNCHANGED <<extra, flightVars, cacheVars, ask, outcome>>

\* The leader's result is in the flight and the waiters are let go; who called
\* on its own has no flight.
ClosedBy(r) == IF flight[r] = r THEN closed \cup {r} ELSE closed

Publish(r) ==
  /\ pc[r] = "publish"
  /\ closed' = ClosedBy(r)
  /\ Goto(r, IF Kind(r) = "chat" THEN "store" ELSE "release")
  /\ UNCHANGED <<balancerVars, inflight, flight, cacheVars, ask, server,
                 retryVars, outcome, gone, reply>>

\* A response is stored before it is sent; an error is only sent.
Storable(r) == enabled /\ Cacheable(r) /\ outcome[r] = "ok"

Store(r) ==
  /\ pc[r] = "store"
  /\ cached' = IF Storable(r) THEN [cached EXCEPT ![Key(r)] = r] ELSE cached
  /\ Answer(r, Response(r))
  /\ UNCHANGED <<balancerVars, flightVars, enabled, ask, outcome>>

Step(r) ==
  \/ Select(r)  \/ Lookup(r)   \/ Join(r)     \/ Wake(r)
  \/ Attempt(r) \/ NoAttempt(r) \/ Reselect(r) \/ Upstream(r) \/ Backoff(r)
  \/ Release(r) \/ Publish(r)   \/ Store(r)

-----------------------------------------------------------------------------
(* What goes on beside the handlers                                        *)

\* The goroutine that takes a flight out of the map a while after its end.
Forget(k) ==
  /\ Over(inflight[k])
  /\ inflight' = [inflight EXCEPT ![k] = NoRequest]
  /\ UNCHANGED <<balancerVars, flight, closed, cacheVars, ask, pc, server,
                 retryVars, outcome, gone, reply>>

\* An entry expires, is evicted, cleared, or was too large to be stored.
Expire(k) ==
  /\ cached[k] # NoRequest
  /\ cached' = [cached EXCEPT ![k] = NoRequest]
  /\ UNCHANGED <<balancerVars, flightVars, enabled, ask, pc, server, retryVars,
                 outcome, gone, reply>>

\* An administrator switches the cache on or off.
SetEnabled ==
  /\ enabled' = ~ enabled
  /\ UNCHANGED <<balancerVars, flightVars, cached, ask, pc, server, retryVars,
                 outcome, gone, reply>>

\* A client hangs up.  Only a retrying request looks at its context; for the
\* others it is one more way for the upstream call to fail.
Disconnect(r) ==
  /\ Kind(r) = "chat"
  /\ pc[r] \notin {"done", "panicked"}
  /\ gone' = gone \cup {r}
  /\ UNCHANGED <<balancerVars, flightVars, cacheVars, ask, pc, server, retryVars,
                 outcome, reply>>

Timeout(s) ==
  /\ ~ breakers[s].cooled
  /\ breakers' = [breakers EXCEPT ![s] = AfterTimeout(@)]
  /\ UNCHANGED <<conns, extra, flightVars, cacheVars, ask, pc, server, retryVars,
                 outcome, gone, reply>>

Next ==
  \/ \E r \in Requests : Step(r) \/ Disconnect(r)
  \/ \E k \in Keys : Forget(k) \/ Expire(k)
  \/ SetEnabled
  \/ \E s \in Servers : Timeout(s)

Spec == Init /\ [][Next]_vars

\* Handlers run on: every upstream call is under a client timeout, every
\* delay ends, and goroutines are scheduled.
Fairness == \A r \in Requests : WF_vars(Step(r))

FairSpec == Spec /\ Fairness

-----------------------------------------------------------------------------
(* Properties                                                              *)

\* A request holds its server from the selection to the release that goes
\* with it, wherever that is on its path.
Holding(r) ==
  \/ pc[r] \in {"join", "wait", "attempt", "calling", "backoff", "release"}
  \/ (Kind(r) = "chat" /\ pc[r] = "lookup")
  \/ (Kind(r) = "embedding" /\ pc[r] = "publish")

Holders(s) == {r \in Requests : Holding(r) /\ server[r] = s}

\* No path through the handlers, however it ends (a hit, a shared call, an
\* error, a retry, a panic, a client that left), keeps a connection: what a
\* server counts is its holders, less one for every failover that found no
\* other server and released the old one twice.
LoadAccounted ==
  \A s \in Servers : conns[s] = Cardinality(Holders(s)) - extra[s]

\* A flight is led by one request at a time: as long as the cache is enabled,
\* requests with the same key never have two calls under way, even when a
\* flight ends and the next begins while its map entry is being removed.
Leading(r) ==
  flight[r] = r /\ pc[r] \in {"attempt", "reselect", "calling", "backoff"}

OneCallPerKey ==
  \A r, q \in Requests :
    Leading(r) /\ Leading(q) /\ Key(r) = Key(q) => r = q

\* "Other callers with the same key will wait and receive the same result":
\* all that were in a flight and have answered have answered the same, which
\* is what the leader's call gave, and nobody answers before it ended.
SameResult ==
  \A r \in Requests :
    pc[r] = "done" /\ flight[r] # NoRequest =>
      /\ flight[r] \in closed
      /\ outcome[flight[r]] # "pending"
      /\ reply[r] = Response(flight[r])

\* Every response sent or stored was given by an upstream call made for the
\* same key, and what is stored was allowed to be: errors, and responses of
\* requests that are not cacheable, are never served from the cache.
AnswersAreEarned ==
  /\ \A r \in Requests :
       reply[r] \in Requests =>
         outcome[reply[r]] = "ok" /\ (reply[r] # r => Key(reply[r]) = Key(r))
  /\ \A k \in Keys :
       cached[k] # NoRequest =>
         /\ outcome[cached[k]] = "ok"
         /\ Key(cached[k]) = k
         /\ Cacheable(cached[k])

\* What the flights look like to the handlers that share calls.
KeyOf == [r \in Requests |-> Key(r)]

Joinable == {inflight[k] : k \in Keys} \ {NoRequest}

ResultOf == [q \in Requests |-> IF q \in closed THEN Response(q) ELSE NoRequest]

Given == [r \in Requests |-> IF pc[r] = "done" /\ flight[r] # NoRequest
                             THEN reply[r] ELSE NoRequest]

Sharing == INSTANCE SingleFlight WITH
  Callers <- Requests, Results <- Requests \cup {Failed}, None <- NoRequest,
  key <- KeyOf, leader <- flight, joinable <- Joinable, result <- ResultOf,
  got <- Given

\* Through retries, panics, hang-ups, changes of the cache's setting and late
\* removals, flights do what DeduplicatedCall promises: nobody begins a call for
\* a key while one is under way, a flight never changes its result, and each
\* participant is given that result, after the end and once.
ImplementsSingleFlight == Sharing!Spec

\* A follower whose leader's handler was taken away by a panic.
Abandoned(r) == pc[r] = "wait" /\ pc[flight[r]] = "panicked"

\* Every request is answered in the end, followers of shared calls included,
\* whatever clients, caches, breakers and retries do; only a panic keeps an
\* answer back, from its own request and from those that wait for it.
AnsweredUnlessAbandoned ==
  \A r \in Requests : <>(pc[r] \in {"done", "panicked"} \/ Abandoned(r))

-----------------------------------------------------------------------------
(* What documents and comments say                                         *)

\* "identical concurrent requests share one LLM call".
SharersAreIdentical ==
  \A r \in Requests : flight[r] # NoRequest => ask[flight[r]] = ask[r]
=============================================================================
