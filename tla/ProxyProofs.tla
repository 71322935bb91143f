---------------------------- MODULE ProxyProofs ----------------------------
(***************************************************************************)
(* Proofs about Proxy, for any finite set of requests and any servers,     *)
(* bodies, keys, limits of retries and panics: first its invariant, then   *)
(* that it implements SingleFlight.                                        *)
(***************************************************************************)
EXTENDS Proxy, FiniteSetTheorems, TLAPS

Label == {"select", "lookup", "join", "wait", "attempt", "calling", "reselect",
          "backoff", "release", "publish", "store", "done", "panicked"}

Outcome == {"pending", "ok", "failed"}

TypeOK ==
  /\ conns \in [Servers -> Int]
  /\ extra \in [Servers -> Int]
  /\ ask \in [Requests -> Asks]
  /\ pc \in [Requests -> Label]
  /\ server \in [Requests -> Servers \cup {NoServer}]
  /\ outcome \in [Requests -> Outcome]
  /\ inflight \in [Keys -> Requests \cup {NoRequest}]
  /\ flight \in [Requests -> Requests \cup {NoRequest}]
  /\ closed \in SUBSET Requests
  /\ cached \in [Keys -> Requests \cup {NoRequest}]
  /\ reply \in [Requests -> Requests \cup {NoRequest, Failed}]

\* Where a request has no upstream call behind it yet, and where it has.
Undecided == {"select", "lookup", "join", "wait", "attempt", "calling",
              "reselect", "backoff"}
Decided == {"release", "publish", "store"}

\* Where a request of a kind may be, and what it has there.
StageOK(r) ==
  /\ Holding(r) \/ pc[r] = "reselect" => server[r] \in Servers
  /\ pc[r] \in Undecided => outcome[r] = "pending"
  /\ pc[r] \in Decided => outcome[r] # "pending"
  /\ pc[r] \in {"select", "lookup", "join"} => flight[r] = NoRequest
  /\ pc[r] \in {"attempt", "reselect", "backoff"} => Kind(r) = "chat"
  /\ Kind(r) = "plain" =>
       /\ pc[r] \in {"select", "calling", "release", "done", "panicked"}
       /\ flight[r] = NoRequest

\* Where the leader of a flight is once the flight is closed.
PastPublish(r) ==
  pc[r] \in {"store", "done"} \/ (pc[r] = "release" /\ Kind(r) = "embedding")

\* A flight is named by a leader with its key.  The map has it until it is
\* closed, which is when the leader publishes, its outcome settled.
FlightOK(r) ==
  /\ flight[r] # NoRequest =>
       /\ flight[flight[r]] = flight[r]
       /\ Key(flight[r]) = Key(r)
       /\ flight[r] = r \/ pc[r] \in {"wait", "done"}
  /\ pc[r] = "wait" => flight[r] \in Requests \ {r}
  /\ r \in closed => flight[r] = r /\ PastPublish(r) /\ outcome[r] # "pending"
  /\ flight[r] = r /\ r \notin closed =>
       inflight[Key(r)] = r /\ ~ PastPublish(r)

\* What the map holds for a key is the leader of a flight of that key.
MapOK(k) ==
  inflight[k] # NoRequest =>
    flight[inflight[k]] = inflight[k] /\ Key(inflight[k]) = k

\* A response stored is one that may be stored.
CachedOK(k) ==
  cached[k] # NoRequest =>
    outcome[cached[k]] = "ok" /\ Key(cached[k]) = k /\ Cacheable(cached[k])

\* An answer given is a response for the same key and, for one that was in a
\* flight, the result of the flight.
ReplyOK(r) ==
  /\ reply[r] \in Requests =>
       outcome[reply[r]] = "ok" /\ (reply[r] # r => Key(reply[r]) = Key(r))
  /\ pc[r] = "done" /\ flight[r] # NoRequest =>
       /\ flight[r] \in closed
       /\ reply[r] = Response(flight[r])

IInv ==
  /\ TypeOK
  /\ \A r \in Requests : StageOK(r) /\ FlightOK(r) /\ ReplyOK(r)
  /\ \A k \in Keys : MapOK(k) /\ CachedOK(k)
  /\ LoadAccounted

-----------------------------------------------------------------------------
(* Operators                                                               *)

\* No request is one of the marks that stand for "none" or for an error.
LEMMA MarksAreNoRequests ==
  NoRequest \notin Requests /\ Failed \notin Requests /\ NoServer \notin Servers
  BY SentinelsAssumption

\* A response is a request's own, or an error.
LEMMA ResponseType ==
  ASSUME NEW r \in Requests
  PROVE  Response(r) \in Requests \cup {NoRequest, Failed}
  BY DEF Response

\* A request that moves leaves the others where they are.
LEMMA GotoFacts ==
  ASSUME TypeOK, NEW r \in Requests, NEW label \in Label, Goto(r, label)
  PROVE  /\ pc' \in [Requests -> Label]
         /\ pc'[r] = label
         /\ \A q \in Requests : q # r => pc'[q] = pc[q]
  BY DEF TypeOK, Goto

\* So does one that leaves, which forgets its server.
LEMMA LeaveFacts ==
  ASSUME TypeOK, NEW r \in Requests, NEW label \in Label, Leave(r, label)
  PROVE  /\ pc' \in [Requests -> Label]
         /\ pc'[r] = label
         /\ server' \in [Requests -> Servers \cup {NoServer}]
         /\ \A q \in Requests : q # r => pc'[q] = pc[q] /\ server'[q] = server[q]
  BY GotoFacts DEF TypeOK, Leave

\* And one that is answered.
LEMMA AnswerFacts ==
  ASSUME TypeOK, NEW r \in Requests, NEW response \in Requests \cup {NoRequest, Failed}, Answer(r, response)
  PROVE  /\ pc' \in [Requests -> Label]
         /\ pc'[r] = "done"
         /\ server' \in [Requests -> Servers \cup {NoServer}]
         /\ reply' \in [Requests -> Requests \cup {NoRequest, Failed}]
         /\ reply'[r] = response
         /\ \A q \in Requests : q # r =>
              pc'[q] = pc[q] /\ server'[q] = server[q] /\ reply'[q] = reply[q]
  BY LeaveFacts DEF TypeOK, Answer, Label

-----------------------------------------------------------------------------
(* Counting: what a step of one request does to its server's count         *)

\* The holders of a server can be counted.
LEMMA HoldersAreFinite ==
  ASSUME NEW s
  PROVE  IsFiniteSet(Holders(s)) /\ Cardinality(Holders(s)) \in Nat
  BY ProxyRequestsAssumption, FS_Subset, FS_CardinalityType DEF Holders

\* Only r has moved.
OnlyMover(r) ==
  /\ ask' = ask
  /\ \A q \in Requests : q # r => pc'[q] = pc[q] /\ server'[q] = server[q]

\* A request that takes a server adds one to the server's count.
LEMMA TakingIsCounted ==
  ASSUME LoadAccounted, TypeOK, NEW r \in Requests, NEW s \in Servers,
         OnlyMover(r), conns' \in [Servers -> Int], extra' \in [Servers -> Int],
         ~ Holding(r), Holding(r)', server'[r] = s,
         conns'[s] + extra'[s] = conns[s] + extra[s] + 1,
         \A t \in Servers : t # s => conns'[t] = conns[t] /\ extra'[t] = extra[t]
  PROVE  LoadAccounted'
  <1>1. \A q \in Requests : q # r => (Holding(q)' <=> Holding(q))
    BY DEF OnlyMover, Holding, Kind
  <1>2. \A t : t # s => Holders(t)' = Holders(t)
    BY <1>1 DEF OnlyMover, Holders
  <1>3. Holders(s)' = Holders(s) \cup {r} /\ r \notin Holders(s)
    BY <1>1 DEF OnlyMover, Holders
  <1>4. Cardinality(Holders(s))' = Cardinality(Holders(s)) + 1
    BY <1>3, HoldersAreFinite, FS_AddElement
  <1>5. conns'[s] = Cardinality(Holders(s))' - extra'[s]
    BY <1>4, HoldersAreFinite DEF LoadAccounted, TypeOK
  <1>6. QED
    BY <1>2, <1>5 DEF LoadAccounted

\* A request that hands its server back takes one off.
LEMMA ReturningIsCounted ==
  ASSUME LoadAccounted, TypeOK, NEW r \in Requests, OnlyMover(r),
         Holding(r), ~ Holding(r)', server[r] \in Servers,
         conns' = [conns EXCEPT ![server[r]] = @ - 1], extra' = extra
  PROVE  LoadAccounted'
  <1> SUFFICES ASSUME NEW s \in Servers, s = server[r],
                      conns' = [conns EXCEPT ![s] = @ - 1]
               PROVE  LoadAccounted'
    OBVIOUS
  <1>1. \A q \in Requests : q # r => (Holding(q)' <=> Holding(q))
    BY DEF OnlyMover, Holding, Kind
  <1>2. \A t : t # s => Holders(t)' = Holders(t)
    BY <1>1 DEF OnlyMover, Holders
  <1>3. Holders(s)' = Holders(s) \ {r} /\ r \in Holders(s)
    BY <1>1 DEF OnlyMover, Holders
  <1>4. Cardinality(Holders(s)') = Cardinality(Holders(s)) - 1
    BY <1>3, HoldersAreFinite, FS_RemoveElement
  <1>5. /\ conns'[s] = conns[s] - 1
        /\ \A t \in Servers : t # s => conns'[t] = conns[t]
    BY DEF TypeOK
  <1>6. ASSUME NEW t \in Servers
        PROVE  conns'[t] = Cardinality(Holders(t)') - extra'[t]
    <2>1. CASE t = s
      <3>1. /\ Cardinality(Holders(s)) \in Nat /\ conns[s] \in Int /\ extra[s] \in Int
            /\ conns[s] = Cardinality(Holders(s)) - extra[s]
        BY HoldersAreFinite DEF LoadAccounted, TypeOK
      <3>2. conns'[s] = Cardinality(Holders(s)') - extra'[s]
        BY <1>4, <1>5, <3>1
      <3>3. QED
        BY <2>1, <3>2
    <2>2. CASE t # s
      BY <1>2, <1>5, <2>2 DEF LoadAccounted
    <2>3. QED
      BY <2>1, <2>2
  <1>7. QED
    BY <1>6 DEF LoadAccounted

\* A request that keeps its server, or goes on without, changes no count.
LEMMA KeepingIsCounted ==
  ASSUME LoadAccounted, NEW r \in Requests, OnlyMover(r),
         conns' = conns, extra' = extra,
         Holding(r)' <=> Holding(r), Holding(r) => server'[r] = server[r]
  PROVE  LoadAccounted'
  <1>1. \A t : Holders(t)' = Holders(t)
    BY DEF OnlyMover, Holders, Holding, Kind
  <1>2. QED
    BY <1>1 DEF LoadAccounted

-----------------------------------------------------------------------------
(* Frames                                                                  *)

\* Responses given, stored or shared stay what they were, as long as only an
\* outcome that was pending changes.
LEMMA SettledFrame ==
  ASSUME IInv, ask' = ask,
         \A q \in Requests : outcome[q] # "pending" => outcome'[q] = outcome[q]
  PROVE  /\ \A q \in closed : Response(q)' = Response(q)
         /\ \A k \in Keys : cached'[k] = cached[k] => CachedOK(k)'
         /\ \A q \in Requests :
              /\ pc'[q] = "done" => pc[q] = "done"
              /\ reply'[q] = reply[q]
              /\ flight'[q] = flight[q]
              /\ closed \subseteq closed'
              => ReplyOK(q)'
  <1>1. \A q \in closed : Response(q)' = Response(q)
    BY DEF IInv, FlightOK, TypeOK, Response
  <1>2. ASSUME NEW k \in Keys, cached'[k] = cached[k]
        PROVE  CachedOK(k)'
    <2>1. cached[k] \in Requests \cup {NoRequest}
      BY DEF IInv, TypeOK
    <2>2. CachedOK(k)
      BY DEF IInv
    <2>3. QED
      BY <1>2, <2>1, <2>2 DEF CachedOK, Key, Cacheable, Kind
  <1>3. ASSUME NEW q \in Requests, pc'[q] = "done" => pc[q] = "done",
               reply'[q] = reply[q], flight'[q] = flight[q],
               closed \subseteq closed'
        PROVE  ReplyOK(q)'
    BY <1>1, <1>3 DEF IInv, ReplyOK, Key
  <1>4. QED
    BY <1>1, <1>2, <1>3

\* A step of one request that leaves flights alone.
LEMMA LocalStep ==
  ASSUME IInv, TypeOK', LoadAccounted', NEW r \in Requests, OnlyMover(r),
         UNCHANGED flightVars,
         \A k \in Keys : cached'[k] = cached[k] \/ CachedOK(k)',
         \A q \in Requests : q # r =>
           outcome'[q] = outcome[q] /\ reply'[q] = reply[q],
         outcome[r] # "pending" => outcome'[r] = outcome[r],
         StageOK(r)',
         ReplyOK(r)' \/ (reply'[r] = reply[r] /\ pc'[r] # "done"),
         pc'[r] = "wait" => pc[r] = "wait",
         pc[r] \in {"wait", "done"} => pc'[r] \in {"wait", "done"},
         flight[r] = r => (PastPublish(r)' <=> PastPublish(r))
  PROVE  IInv'
  <1>1. \A q \in Requests : outcome[q] # "pending" => outcome'[q] = outcome[q]
    OBVIOUS
  <1>2. \A q \in Requests : StageOK(q)'
    BY DEF IInv, OnlyMover, StageOK, Holding, Kind, flightVars
  <1>3. \A k \in Keys : MapOK(k)' /\ CachedOK(k)'
    BY <1>1, SettledFrame DEF IInv, OnlyMover, MapOK, Key, flightVars
  <1>4. \A q \in Requests : ReplyOK(q)'
    BY <1>1, SettledFrame DEF OnlyMover, flightVars
  <1>5. ASSUME NEW q \in Requests
        PROVE  FlightOK(q)'
    <2>1. FlightOK(q) /\ FlightOK(r)
      BY DEF IInv
    <2>2. CASE q # r
      BY <1>1, <2>1, <2>2 DEF FlightOK, PastPublish, OnlyMover, flightVars, Key, Kind
    <2>3. CASE q = r
      BY <1>1, <2>1, <2>3, MarksAreNoRequests
         DEF FlightOK, PastPublish, OnlyMover, flightVars, Key, Kind, IInv, TypeOK
    <2>4. QED
      BY <2>2, <2>3
  <1>6. QED
    BY <1>2, <1>3, <1>4, <1>5 DEF IInv

\* A step outside what IInv is about.
LEMMA FrameStep ==
  ASSUME IInv,
         UNCHANGED <<conns, extra, flightVars, cached, ask, pc, server, outcome,
                     reply>>
  PROVE  IInv'
  <1>1. TypeOK'
    BY DEF IInv, TypeOK, flightVars
  <1>2. /\ \A q : Holding(q)' <=> Holding(q)
        /\ \A q : Key(q)' = Key(q) /\ Kind(q)' = Kind(q)
        /\ \A q : Response(q)' = Response(q)
        /\ \A q : Cacheable(q)' <=> Cacheable(q)
        /\ \A q : PastPublish(q)' <=> PastPublish(q)
    BY DEF Holding, Key, Kind, Response, Cacheable, PastPublish
  <1>3. \A q \in Requests : StageOK(q)' /\ FlightOK(q)' /\ ReplyOK(q)'
    BY <1>2 DEF IInv, StageOK, FlightOK, ReplyOK, flightVars
  <1>4. \A k \in Keys : MapOK(k)' /\ CachedOK(k)'
    BY <1>2 DEF IInv, MapOK, CachedOK, flightVars
  <1>5. LoadAccounted'
    BY <1>2 DEF IInv, LoadAccounted, Holders
  <1>6. QED
    BY <1>1, <1>3, <1>4, <1>5 DEF IInv

-----------------------------------------------------------------------------
(* One lemma per action                                                    *)

\* The kind of a request is one of three.
LEMMA KindType ==
  ASSUME TypeOK, NEW r \in Requests
  PROVE  Kind(r) \in Kinds /\ Key(r) \in Keys
  BY AsksAssumption DEF TypeOK, Kind, Key, Ask

\* Selecting a server, finding none, or panicking keeps IInv.
LEMMA SelectKeeps ==
  ASSUME IInv, NEW r \in Requests, Select(r)
  PROVE  IInv'
  <1>0. /\ TypeOK /\ LoadAccounted /\ StageOK(r) /\ FlightOK(r)
        /\ pc[r] = "select"
        /\ UNCHANGED <<extra, flightVars, cached, ask>>
    BY DEF IInv, Select, cacheVars
  <1>1. /\ ~ Holding(r)
        /\ outcome[r] = "pending"
        /\ flight[r] = NoRequest
        /\ flight[r] # r
        /\ Kind(r) \in Kinds
    BY <1>0, KindType, MarksAreNoRequests DEF Holding, StageOK, Undecided
  <1>2. CASE Answer(r, Failed) /\ UNCHANGED <<conns, outcome>>
    <2>1. /\ TypeOK' /\ OnlyMover(r) /\ pc'[r] = "done" /\ reply'[r] = Failed
          /\ \A q \in Requests : q # r => reply'[q] = reply[q]
      BY <1>0, <1>2, AnswerFacts DEF TypeOK, OnlyMover, flightVars
    <2>2. ~ Holding(r)' /\ StageOK(r)' /\ ReplyOK(r)'
      BY <1>0, <1>1, <2>1, MarksAreNoRequests
         DEF Holding, StageOK, ReplyOK, Undecided, Decided, Kind, flightVars
    <2>3. LoadAccounted'
      BY <1>0, <1>1, <1>2, <2>1, <2>2, KeepingIsCounted
    <2>4. QED
      BY <1>0, <1>1, <1>2, <2>1, <2>2, <2>3, LocalStep
  <1>3. CASE Panic(r) /\ UNCHANGED <<conns, outcome>>
    <2>1. TypeOK' /\ OnlyMover(r) /\ pc'[r] = "panicked" /\ reply' = reply
      BY <1>0, <1>3, LeaveFacts DEF Panic, Label, TypeOK, OnlyMover, flightVars
    <2>2. ~ Holding(r)' /\ StageOK(r)'
      BY <1>0, <1>1, <2>1 DEF Holding, StageOK, Undecided, Decided, Kind, flightVars
    <2>3. LoadAccounted'
      BY <1>0, <1>1, <1>3, <2>1, <2>2, KeepingIsCounted
    <2>4. QED
      BY <1>0, <1>1, <1>3, <2>1, <2>2, <2>3, LocalStep
  <1>4. ASSUME NEW s \in Servers, Pick(r, s), Goto(r, AfterSelect(r, s)),
               outcome' = IF AfterSelect(r, s) = "release"
                          THEN [outcome EXCEPT ![r] = "failed"] ELSE outcome,
               UNCHANGED reply
        PROVE  IInv'
    <2> DEFINE to == AfterSelect(r, s)
    <2>1. /\ to \in {"lookup", "calling", "join", "release"}
          /\ to = "lookup" => Kind(r) = "chat"
          /\ to = "calling" => Kind(r) = "plain"
          /\ to \in {"join", "release"} => Kind(r) = "embedding"
      BY <1>1 DEF AfterSelect, Kinds
    <2>2. /\ pc' \in [Requests -> Label] /\ pc'[r] = to
          /\ \A q \in Requests : q # r => pc'[q] = pc[q]
      BY <1>0, <1>4, <2>1, GotoFacts DEF Label
    <2>3. /\ server' \in [Requests -> Servers \cup {NoServer}] /\ server'[r] = s
          /\ \A q \in Requests : q # r => server'[q] = server[q]
          /\ conns' \in [Servers -> Int] /\ conns'[s] = conns[s] + 1
          /\ \A x \in Servers : x # s => conns'[x] = conns[x]
      BY <1>0, <1>4 DEF Pick, TypeOK
    <2>4. /\ outcome' \in [Requests -> Outcome]
          /\ outcome'[r] = IF to = "release" THEN "failed" ELSE "pending"
          /\ \A q \in Requests : q # r => outcome'[q] = outcome[q]
      BY <1>0, <1>1, <1>4 DEF TypeOK, Outcome
    <2>5. TypeOK' /\ OnlyMover(r)
      BY <1>0, <1>4, <2>2, <2>3, <2>4 DEF TypeOK, OnlyMover, flightVars
    <2>6. Holding(r)' /\ StageOK(r)'
      BY <1>0, <1>1, <2>1, <2>2, <2>3, <2>4
         DEF Holding, StageOK, Undecided, Decided, Kind, flightVars
    <2>7. LoadAccounted'
      <3>1. conns'[s] + extra'[s] = conns[s] + extra[s] + 1
        BY <1>0, <2>3 DEF TypeOK
      <3>2. \A x \in Servers : x # s => conns'[x] = conns[x] /\ extra'[x] = extra[x]
        BY <1>0, <2>3
      <3>3. extra' \in [Servers -> Int]
        BY <1>0 DEF TypeOK
      <3>4. QED
        BY <1>0, <1>1, <2>3, <2>5, <2>6, <3>1, <3>2, <3>3, TakingIsCounted
    <2>8. QED
      BY <1>0, <1>1, <1>4, <2>1, <2>2, <2>4, <2>5, <2>6, <2>7, LocalStep
  <1>5. QED
    BY <1>2, <1>3, <1>4 DEF Select, Available

\* A hit that ends a request, or a miss that sends it on, keeps IInv.
LEMMA LookupKeeps ==
  ASSUME IInv, NEW r \in Requests, Lookup(r)
  PROVE  IInv'
  <1>0. /\ TypeOK /\ LoadAccounted /\ StageOK(r) /\ FlightOK(r)
        /\ pc[r] = "lookup"
        /\ UNCHANGED <<extra, flightVars, cached, ask, outcome>>
    BY DEF IInv, Lookup, cacheVars
  <1>1. /\ Holding(r) <=> Kind(r) = "chat"
        /\ outcome[r] = "pending"
        /\ flight[r] = NoRequest
        /\ flight[r] # r
        /\ Kind(r) \in {"chat", "embedding"}
        /\ Key(r) \in Keys
    BY <1>0, KindType, MarksAreNoRequests DEF Holding, StageOK, Undecided, Kinds
  <1>2. CASE /\ cached[Key(r)] # NoRequest
             /\ Answer(r, cached[Key(r)])
             /\ IF Kind(r) = "chat" THEN ReleaseServer(server[r], TRUE)
                                    ELSE UNCHANGED <<conns, breakers>>
    <2>0. cached[Key(r)] \in Requests /\ CachedOK(Key(r))
      BY <1>0, <1>1, <1>2 DEF IInv, TypeOK
    <2>1. /\ pc' \in [Requests -> Label] /\ pc'[r] = "done"
          /\ server' \in [Requests -> Servers \cup {NoServer}]
          /\ reply' \in [Requests -> Requests \cup {NoRequest, Failed}]
          /\ reply'[r] = cached[Key(r)]
          /\ \A q \in Requests : q # r =>
               pc'[q] = pc[q] /\ server'[q] = server[q] /\ reply'[q] = reply[q]
      BY <1>0, <1>2, <2>0, AnswerFacts
    <2>2. OnlyMover(r)
      BY <1>0, <2>1 DEF OnlyMover
    <2>3. ~ Holding(r)' /\ StageOK(r)'
      BY <1>0, <1>1, <2>1 DEF Holding, StageOK, Undecided, Decided, Kind, flightVars
    <2>4. ReplyOK(r)'
      BY <1>0, <1>1, <1>2, <2>0, <2>1
         DEF ReplyOK, CachedOK, Key, flightVars
    <2>5. conns' \in [Servers -> Int] /\ LoadAccounted'
      <3>1. CASE Kind(r) = "chat"
        <4>1. server[r] \in Servers /\ Holding(r)
          BY <1>0, <1>1, <3>1 DEF StageOK
        <4>2. conns' = [conns EXCEPT ![server[r]] = @ - 1]
          BY <1>2, <3>1 DEF ReleaseServer
        <4>3. conns' \in [Servers -> Int]
          BY <1>0, <4>1, <4>2 DEF TypeOK
        <4>4. QED
          BY <1>0, <2>2, <2>3, <4>1, <4>2, <4>3, ReturningIsCounted
      <3>2. CASE Kind(r) = "embedding"
        BY <1>0, <1>1, <1>2, <2>2, <2>3, <3>2, KeepingIsCounted DEF TypeOK
      <3>3. QED
        BY <1>1, <3>1, <3>2
    <2>6. TypeOK'
      BY <1>0, <2>1, <2>5 DEF TypeOK, flightVars
    <2>7. QED
      BY <1>0, <1>1, <2>1, <2>2, <2>3, <2>4, <2>5, <2>6, LocalStep
  <1>3. CASE /\ Goto(r, IF Kind(r) = "chat" THEN "join" ELSE "select")
             /\ UNCHANGED <<conns, breakers, localVars, reply>>
    <2>1. /\ pc' \in [Requests -> Label]
          /\ pc'[r] = IF Kind(r) = "chat" THEN "join" ELSE "select"
          /\ \A q \in Requests : q # r => pc'[q] = pc[q]
      BY <1>0, <1>3, GotoFacts DEF Label
    <2>2. TypeOK' /\ OnlyMover(r) /\ server' = server
      BY <1>0, <1>3, <2>1 DEF TypeOK, OnlyMover, flightVars, localVars
    <2>3. (Holding(r)' <=> Holding(r)) /\ StageOK(r)'
      BY <1>0, <1>1, <2>1, <2>2
         DEF Holding, StageOK, Undecided, Decided, Kind, flightVars
    <2>4. LoadAccounted'
      BY <1>0, <1>3, <2>2, <2>3, KeepingIsCounted
    <2>5. QED
      BY <1>0, <1>1, <1>3, <2>1, <2>2, <2>3, <2>4, LocalStep
  <1>4. QED
    BY <1>2, <1>3 DEF Lookup

\* Calling alone, leading a flight or joining one keeps IInv.
LEMMA JoinKeeps ==
  ASSUME IInv, NEW r \in Requests, Join(r)
  PROVE  IInv'
  <1> DEFINE call == IF Kind(r) = "chat" THEN "attempt" ELSE "calling"
             k == Key(r)
  <1>0. /\ TypeOK /\ LoadAccounted /\ StageOK(r) /\ FlightOK(r) /\ MapOK(k)
        /\ pc[r] = "join" /\ k \in Keys
        /\ UNCHANGED <<balancerVars, closed, cacheVars, ask, server, outcome, reply>>
    BY KindType DEF IInv, Join
  <1>1. /\ Holding(r)
        /\ outcome[r] = "pending"
        /\ flight[r] = NoRequest
        /\ flight[r] # r
        /\ r \notin closed
        /\ Kind(r) \in {"chat", "embedding"}
        /\ server[r] \in Servers
    BY <1>0, KindType, MarksAreNoRequests
       DEF Holding, StageOK, FlightOK, Undecided, Kinds
  <1>2. /\ Goto(r, pc'[r]) /\ pc'[r] \in {call, "wait"}
        /\ pc'[r] \in {"attempt", "calling", "wait"}
        /\ pc'[r] = "attempt" => Kind(r) = "chat"
        /\ \/ flight' = flight /\ inflight' = inflight /\ pc'[r] = call
           \/ /\ inflight[k] = NoRequest
              /\ flight' = [flight EXCEPT ![r] = r]
              /\ inflight' = [inflight EXCEPT ![k] = r]
              /\ pc'[r] = call
           \/ /\ inflight[k] # NoRequest
              /\ flight' = [flight EXCEPT ![r] = inflight[k]]
              /\ inflight' = inflight
              /\ pc'[r] = "wait"
    BY <1>0, <1>1 DEF Join, Goto, TypeOK
  <1>3. /\ pc' \in [Requests -> Label]
        /\ \A q \in Requests : q # r => pc'[q] = pc[q]
    BY <1>0, <1>2, GotoFacts DEF Label
  <1>4. OnlyMover(r) /\ Holding(r)'
    BY <1>0, <1>2, <1>3 DEF OnlyMover, Holding
  <1>5. /\ flight' \in [Requests -> Requests \cup {NoRequest}]
        /\ inflight' \in [Keys -> Requests \cup {NoRequest}]
        /\ \A q \in Requests : q # r => flight'[q] = flight[q]
        /\ \A j \in Keys : j # k => inflight'[j] = inflight[j]
    BY <1>0, <1>2 DEF TypeOK
  <1>6. TypeOK'
    BY <1>0, <1>3, <1>5 DEF TypeOK, balancerVars, cacheVars
  <1>7. LoadAccounted'
    BY <1>0, <1>1, <1>4, KeepingIsCounted DEF balancerVars
  <1>8. ASSUME NEW q \in Requests
        PROVE  StageOK(q)'
    <2>1. CASE q = r
      BY <1>0, <1>1, <1>2, <2>1 DEF StageOK, Undecided, Decided, Kind
    <2>2. CASE q # r
      BY <1>0, <1>3, <1>5, <2>2
         DEF IInv, StageOK, Undecided, Decided, Kind, Holding
    <2>3. QED
      BY <2>1, <2>2
  <1>9. inflight[k] # NoRequest =>
          /\ inflight[k] \in Requests \ {r}
          /\ flight[inflight[k]] = inflight[k] /\ Key(inflight[k]) = k
    BY <1>0, <1>1 DEF MapOK, TypeOK
  <1>10. ASSUME NEW q \in Requests
         PROVE  FlightOK(q)'
    <2>1. FlightOK(q) /\ flight[q] # r
      BY <1>0, <1>1, MarksAreNoRequests DEF IInv, FlightOK
    <2>2. \A p \in Requests : Key(p)' = Key(p) /\ Kind(p)' = Kind(p)
      BY <1>0 DEF Key, Kind
    <2>3. CASE q = r
      BY <1>0, <1>1, <1>2, <1>5, <1>9, <2>2, <2>3, MarksAreNoRequests
         DEF FlightOK, PastPublish, TypeOK
    <2>4. CASE q # r
      <3>1. /\ pc'[q] = pc[q] /\ flight'[q] = flight[q] /\ outcome'[q] = outcome[q]
            /\ (PastPublish(q)' <=> PastPublish(q))
        BY <1>0, <1>3, <1>5, <2>2, <2>4 DEF PastPublish
      <3>2. flight[q] # NoRequest => flight[q] \in Requests /\ flight'[flight[q]] = flight[flight[q]]
        BY <1>0, <1>5, <2>1 DEF TypeOK
      <3>3. flight[q] = q /\ q \notin closed => inflight'[Key(q)] = q
        BY <1>0, <1>2, <1>5, <2>1, <2>4, KindType, MarksAreNoRequests DEF FlightOK
      <3>4. QED
        BY <1>0, <2>1, <2>2, <3>1, <3>2, <3>3 DEF FlightOK
    <2>5. QED
      BY <2>3, <2>4
  <1>11. ASSUME NEW j \in Keys
         PROVE  MapOK(j)'
    <2>1. MapOK(j)
      BY DEF IInv
    <2>2. CASE j # k
      <3>1. inflight[j] # r
        BY <1>1, <2>1, MarksAreNoRequests DEF MapOK
      <3>2. QED
        BY <1>0, <1>5, <2>1, <2>2, <3>1 DEF MapOK, Key, TypeOK
    <2>3. CASE j = k
      BY <1>0, <1>2, <1>5, <1>9, <2>3 DEF MapOK, Key, TypeOK
    <2>4. QED
      BY <2>2, <2>3
  <1>12. /\ \A j \in Keys : CachedOK(j)'
         /\ \A q \in Requests : ReplyOK(q)'
    <2>1. \A j \in Keys : CachedOK(j)'
      BY <1>0, SettledFrame DEF cacheVars
    <2>2. ASSUME NEW q \in Requests
          PROVE  ReplyOK(q)'
      <3>1. CASE q # r
        BY <1>0, <1>3, <1>5, <3>1, SettledFrame
      <3>2. CASE q = r
        BY <1>0, <1>2, <3>2 DEF IInv, ReplyOK, Key
      <3>3. QED
        BY <3>1, <3>2
    <2>3. QED
      BY <2>1, <2>2
  <1>13. QED
    BY <1>6, <1>7, <1>8, <1>10, <1>11, <1>12 DEF IInv

\* A follower that wakes up and answers keeps IInv.
LEMMA WakeKeeps ==
  ASSUME IInv, NEW r \in Requests, Wake(r)
  PROVE  IInv'
  <1>0. /\ TypeOK /\ LoadAccounted /\ StageOK(r) /\ FlightOK(r)
        /\ pc[r] = "wait" /\ flight[r] \in closed
        /\ Answer(r, Response(flight[r]))
        /\ conns' = [conns EXCEPT ![server[r]] = @ - 1]
        /\ UNCHANGED <<extra, flightVars, cached, ask, outcome>>
    BY DEF IInv, Wake, Over, ReleaseServer, cacheVars
  <1>1. /\ Holding(r)
        /\ server[r] \in Servers
        /\ outcome[r] = "pending"
        /\ flight[r] \in Requests \ {r}
        /\ Kind(r) \in {"chat", "embedding"}
        /\ Key(flight[r]) = Key(r)
        /\ outcome[flight[r]] # "pending"
    BY <1>0, KindType, MarksAreNoRequests
       DEF Holding, StageOK, FlightOK, Undecided, Kinds, IInv
  <1>2. /\ pc' \in [Requests -> Label] /\ pc'[r] = "done"
        /\ server' \in [Requests -> Servers \cup {NoServer}]
        /\ reply' \in [Requests -> Requests \cup {NoRequest, Failed}]
        /\ reply'[r] = Response(flight[r])
        /\ \A q \in Requests : q # r =>
             pc'[q] = pc[q] /\ server'[q] = server[q] /\ reply'[q] = reply[q]
    BY <1>0, <1>1, ResponseType, AnswerFacts
  <1>3. TypeOK' /\ OnlyMover(r)
    BY <1>0, <1>1, <1>2 DEF TypeOK, OnlyMover, flightVars
  <1>4. ~ Holding(r)' /\ StageOK(r)'
    BY <1>0, <1>1, <1>2 DEF Holding, StageOK, Undecided, Decided, Kind, flightVars
  <1>5. ReplyOK(r)'
    <2>1. Response(flight[r])' = Response(flight[r])
      BY <1>0 DEF Response, flightVars
    <2>2. QED
      BY <1>0, <1>1, <1>2, <2>1, MarksAreNoRequests
         DEF ReplyOK, Response, Key, flightVars
  <1>6. LoadAccounted'
    BY <1>0, <1>1, <1>3, <1>4, ReturningIsCounted
  <1>7. QED
    BY <1>0, <1>1, <1>2, <1>3, <1>4, <1>5, <1>6, LocalStep

\* A step of r that only moves it on and may settle its outcome, without a
\* server changing hands, keeps IInv.
LEMMA MovingOnKeeps ==
  ASSUME IInv, NEW r \in Requests, NEW label \in Label, Goto(r, label),
         NEW o \in Outcome, outcome'[r] = o,
         outcome' = outcome \/ outcome' = [outcome EXCEPT ![r] = o],
         outcome[r] # "pending" => o = outcome[r],
         pc[r] \in {"attempt", "calling", "backoff"},
         UNCHANGED <<conns, extra, flightVars, cached, ask, server, reply>>,
         \/ label \in {"attempt", "calling", "backoff"} /\ o = "pending"
         \/ label = "release" /\ o # "pending" /\ Kind(r) # "embedding"
         \/ label = "publish" /\ o # "pending" /\ Kind(r) = "embedding",
         label \in {"attempt", "backoff"} => Kind(r) = "chat",
         Kind(r) = "plain" => label \in {"calling", "release"}
  PROVE  IInv'
  <1>0. TypeOK /\ LoadAccounted /\ StageOK(r) /\ FlightOK(r) /\ Kind(r) \in Kinds
    BY KindType DEF IInv
  <1>1. /\ pc' \in [Requests -> Label] /\ pc'[r] = label
        /\ \A q \in Requests : q # r => pc'[q] = pc[q]
    BY <1>0, GotoFacts
  <1>2. /\ outcome' \in [Requests -> Outcome]
        /\ \A q \in Requests : q # r => outcome'[q] = outcome[q]
    BY <1>0 DEF TypeOK
  <1>3. TypeOK' /\ OnlyMover(r)
    BY <1>0, <1>1, <1>2 DEF TypeOK, OnlyMover, flightVars
  <1>4. Holding(r)' /\ Holding(r) /\ StageOK(r)'
    BY <1>0, <1>1 DEF Holding, StageOK, Undecided, Decided, Kind, Kinds, flightVars
  <1>5. LoadAccounted'
    BY <1>0, <1>3, <1>4, KeepingIsCounted
  <1>6. PastPublish(r)' <=> PastPublish(r)
    BY <1>1 DEF PastPublish, Kind
  <1>7. QED
    BY <1>1, <1>2, <1>3, <1>4, <1>5, <1>6, LocalStep

\* Looking at the context before an attempt, and releasing the server of the
\* attempt before, keeps IInv.
LEMMA AttemptKeeps ==
  ASSUME IInv, NEW r \in Requests, Attempt(r)
  PROVE  IInv'
  <1>0. /\ TypeOK /\ LoadAccounted /\ StageOK(r) /\ FlightOK(r)
        /\ pc[r] = "attempt"
        /\ UNCHANGED <<extra, flightVars, cached, ask, server, reply>>
    BY DEF IInv, Attempt, cacheVars
  <1>1. /\ Holding(r)
        /\ server[r] \in Servers
        /\ outcome[r] = "pending"
        /\ Kind(r) = "chat"
    BY <1>0 DEF Holding, StageOK, Undecided
  <1>2. CASE /\ outcome' = [outcome EXCEPT ![r] = "failed"]
             /\ Goto(r, "release")
             /\ UNCHANGED conns
    <2>1. outcome'[r] = "failed"
      BY <1>0, <1>2 DEF TypeOK
    <2>2. QED
      BY <1>0, <1>1, <1>2, <2>1, MovingOnKeeps DEF Label, Outcome
  <1>3. CASE Goto(r, "calling") /\ UNCHANGED <<conns, outcome>>
    BY <1>0, <1>1, <1>3, MovingOnKeeps DEF Label, Outcome
  <1>4. CASE /\ ReleaseServer(server[r], FALSE)
             /\ Goto(r, "reselect")
             /\ UNCHANGED outcome
    <2>1. /\ pc' \in [Requests -> Label] /\ pc'[r] = "reselect"
          /\ \A q \in Requests : q # r => pc'[q] = pc[q]
          /\ conns' = [conns EXCEPT ![server[r]] = @ - 1]
      BY <1>0, <1>4, GotoFacts DEF Label, ReleaseServer
    <2>2. TypeOK' /\ OnlyMover(r)
      BY <1>0, <1>1, <1>4, <2>1 DEF TypeOK, OnlyMover, flightVars
    <2>3. ~ Holding(r)' /\ StageOK(r)'
      BY <1>0, <1>1, <1>4, <2>1
         DEF Holding, StageOK, Undecided, Decided, Kind, flightVars
    <2>4. LoadAccounted'
      BY <1>0, <1>1, <2>1, <2>2, <2>3, ReturningIsCounted
    <2>5. PastPublish(r)' <=> PastPublish(r)
      BY <1>0, <2>1 DEF PastPublish
    <2>6. QED
      BY <1>0, <1>1, <1>4, <2>1, <2>2, <2>3, <2>4, <2>5, LocalStep
  <1>5. QED
    BY <1>2, <1>3, <1>4 DEF Attempt

\* Giving up without an attempt keeps IInv: the server is handed back, and the
\* flight, if there is one, stays open.
LEMMA NoAttemptKeeps ==
  ASSUME IInv, NEW r \in Requests, NoAttempt(r)
  PROVE  IInv'
  <1>0. /\ TypeOK /\ LoadAccounted /\ StageOK(r) /\ FlightOK(r)
        /\ pc[r] = "attempt" /\ Leave(r, "panicked")
        /\ conns' = [conns EXCEPT ![server[r]] = @ - 1]
        /\ UNCHANGED <<extra, flightVars, cached, ask, outcome, reply>>
    BY DEF IInv, NoAttempt, Panic, ReleaseServer, cacheVars
  <1>1. /\ Holding(r)
        /\ server[r] \in Servers
        /\ outcome[r] = "pending"
        /\ Kind(r) = "chat"
    BY <1>0 DEF Holding, StageOK, Undecided
  <1>2. /\ pc' \in [Requests -> Label] /\ pc'[r] = "panicked"
        /\ server' \in [Requests -> Servers \cup {NoServer}]
        /\ \A q \in Requests : q # r => pc'[q] = pc[q] /\ server'[q] = server[q]
    BY <1>0, LeaveFacts DEF Label
  <1>3. TypeOK' /\ OnlyMover(r)
    BY <1>0, <1>1, <1>2 DEF TypeOK, OnlyMover, flightVars
  <1>4. ~ Holding(r)' /\ StageOK(r)' /\ (PastPublish(r)' <=> PastPublish(r))
    BY <1>0, <1>1, <1>2
       DEF Holding, StageOK, Undecided, Decided, PastPublish, Kind, flightVars
  <1>5. LoadAccounted'
    BY <1>0, <1>1, <1>3, <1>4, ReturningIsCounted
  <1>6. QED
    BY <1>0, <1>2, <1>3, <1>4, <1>5, LocalStep

\* Selecting again for a retry, or failing to, keeps IInv.
LEMMA ReselectKeeps ==
  ASSUME IInv, NEW r \in Requests, Reselect(r)
  PROVE  IInv'
  <1>0. /\ TypeOK /\ LoadAccounted /\ StageOK(r) /\ FlightOK(r)
        /\ pc[r] = "reselect"
        /\ UNCHANGED <<flightVars, cached, ask>>
    BY DEF IInv, Reselect, cacheVars
  <1>1. /\ ~ Holding(r)
        /\ server[r] \in Servers
        /\ outcome[r] = "pending"
        /\ Kind(r) = "chat"
        /\ ~ PastPublish(r)
    BY <1>0 DEF Holding, StageOK, Undecided, PastPublish
  <1>2. CASE /\ extra' = [extra EXCEPT ![server[r]] = @ + 1]
             /\ outcome' = [outcome EXCEPT ![r] = "failed"]
             /\ Goto(r, "release")
             /\ UNCHANGED <<conns, localVars, reply>>
    <2>1. /\ pc' \in [Requests -> Label] /\ pc'[r] = "release"
          /\ \A q \in Requests : q # r => pc'[q] = pc[q]
      BY <1>0, <1>2, GotoFacts DEF Label
    <2>2. /\ outcome' \in [Requests -> Outcome] /\ outcome'[r] = "failed"
          /\ \A q \in Requests : q # r => outcome'[q] = outcome[q]
          /\ extra' \in [Servers -> Int] /\ conns' \in [Servers -> Int]
          /\ extra'[server[r]] = extra[server[r]] + 1
          /\ server' = server /\ conns' = conns
          /\ \A x \in Servers : x # server[r] => extra'[x] = extra[x]
      BY <1>0, <1>1, <1>2 DEF TypeOK, Outcome, localVars
    <2>3. TypeOK' /\ OnlyMover(r)
      BY <1>0, <1>2, <2>1, <2>2 DEF TypeOK, OnlyMover, flightVars
    <2>4. Holding(r)' /\ StageOK(r)' /\ ~ PastPublish(r)'
      BY <1>0, <1>1, <2>1, <2>2
         DEF Holding, StageOK, Undecided, Decided, PastPublish, Kind, flightVars
    <2>5. conns'[server[r]] + extra'[server[r]] = conns[server[r]] + extra[server[r]] + 1
      BY <1>0, <1>1, <2>2 DEF TypeOK
    <2>6. LoadAccounted'
      BY <1>0, <1>1, <2>2, <2>3, <2>4, <2>5, TakingIsCounted
    <2>7. QED
      BY <1>0, <1>1, <1>2, <2>1, <2>2, <2>3, <2>4, <2>6, LocalStep
  <1>3. ASSUME NEW s \in Servers, Pick(r, s), Goto(r, "calling"),
               UNCHANGED <<extra, outcome, reply>>
        PROVE  IInv'
    <2>1. /\ pc' \in [Requests -> Label] /\ pc'[r] = "calling"
          /\ \A q \in Requests : q # r => pc'[q] = pc[q]
      BY <1>0, <1>3, GotoFacts DEF Label
    <2>2. /\ server' \in [Requests -> Servers \cup {NoServer}] /\ server'[r] = s
          /\ \A q \in Requests : q # r => server'[q] = server[q]
          /\ conns' \in [Servers -> Int] /\ conns'[s] = conns[s] + 1
          /\ extra' \in [Servers -> Int]
          /\ \A x \in Servers : x # s => conns'[x] = conns[x] /\ extra'[x] = extra[x]
          /\ conns'[s] + extra'[s] = conns[s] + extra[s] + 1
      BY <1>0, <1>3 DEF Pick, TypeOK
    <2>3. TypeOK' /\ OnlyMover(r)
      BY <1>0, <1>3, <2>1, <2>2 DEF TypeOK, OnlyMover, flightVars
    <2>4. Holding(r)' /\ StageOK(r)' /\ ~ PastPublish(r)'
      BY <1>0, <1>1, <1>3, <2>1, <2>2
         DEF Holding, StageOK, Undecided, Decided, PastPublish, Kind, flightVars
    <2>5. LoadAccounted'
      BY <1>0, <1>1, <2>2, <2>3, <2>4, TakingIsCounted
    <2>6. QED
      BY <1>0, <1>1, <1>3, <2>1, <2>3, <2>4, <2>5, LocalStep
  <1>4. CASE Panic(r) /\ UNCHANGED <<conns, extra, outcome>>
    <2>1. /\ pc' \in [Requests -> Label] /\ pc'[r] = "panicked" /\ reply' = reply
          /\ server' \in [Requests -> Servers \cup {NoServer}]
          /\ \A q \in Requests : q # r => pc'[q] = pc[q] /\ server'[q] = server[q]
      BY <1>0, <1>4, LeaveFacts DEF Label, Panic
    <2>2. TypeOK' /\ OnlyMover(r)
      BY <1>0, <1>4, <2>1 DEF TypeOK, OnlyMover, flightVars
    <2>3. ~ Holding(r)' /\ StageOK(r)' /\ ~ PastPublish(r)'
      BY <1>0, <1>1, <2>1
         DEF Holding, StageOK, Undecided, Decided, PastPublish, Kind, flightVars
    <2>4. LoadAccounted'
      BY <1>0, <1>1, <1>4, <2>2, <2>3, KeepingIsCounted
    <2>5. QED
      BY <1>0, <1>1, <1>4, <2>1, <2>2, <2>3, <2>4, LocalStep
  <1>5. QED
    BY <1>2, <1>3, <1>4 DEF Reselect, Available

\* The end of an upstream call keeps IInv.
LEMMA UpstreamKeeps ==
  ASSUME IInv, NEW r \in Requests, Upstream(r)
  PROVE  IInv'
  <1>0. /\ TypeOK /\ StageOK(r)
        /\ pc[r] = "calling"
        /\ UNCHANGED <<conns, extra, flightVars, cached, ask, server, reply>>
    BY DEF IInv, Upstream, balancerVars, cacheVars
  <1>1. outcome[r] = "pending" /\ Kind(r) \in Kinds
    BY <1>0, KindType DEF StageOK, Undecided
  <1>2. ASSUME NEW result \in {"ok", "failed"},
               outcome' = [outcome EXCEPT ![r] = result], Goto(r, AfterCall(r))
        PROVE  IInv'
    <2>1. outcome'[r] = result
      BY <1>0, <1>2 DEF TypeOK
    <2>2. QED
      BY <1>0, <1>1, <1>2, <2>1, MovingOnKeeps DEF Label, Outcome, AfterCall
  <1>3. CASE Kind(r) = "chat" /\ Goto(r, "backoff") /\ UNCHANGED outcome
    BY <1>0, <1>1, <1>3, MovingOnKeeps DEF Label, Outcome
  <1>4. QED
    BY <1>2, <1>3 DEF Upstream

\* The end of the delay before a retry keeps IInv.
LEMMA BackoffKeeps ==
  ASSUME IInv, NEW r \in Requests, Backoff(r)
  PROVE  IInv'
  <1>0. /\ TypeOK /\ StageOK(r)
        /\ pc[r] = "backoff"
        /\ UNCHANGED <<conns, extra, flightVars, cached, ask, server, reply>>
    BY DEF IInv, Backoff, balancerVars, cacheVars
  <1>1. outcome[r] = "pending" /\ Kind(r) = "chat"
    BY <1>0 DEF StageOK, Undecided
  <1>2. CASE outcome' = [outcome EXCEPT ![r] = "failed"] /\ Goto(r, "release")
    <2>1. outcome'[r] = "failed"
      BY <1>0, <1>2 DEF TypeOK
    <2>2. QED
      BY <1>0, <1>1, <1>2, <2>1, MovingOnKeeps DEF Label, Outcome
  <1>3. CASE Goto(r, "attempt") /\ UNCHANGED outcome
    BY <1>0, <1>1, <1>3, MovingOnKeeps DEF Label, Outcome
  <1>4. QED
    BY <1>2, <1>3 DEF Backoff

\* Handing back the server at the end keeps IInv.
LEMMA ReleaseKeeps ==
  ASSUME IInv, NEW r \in Requests, Release(r)
  PROVE  IInv'
  <1>0. /\ TypeOK /\ LoadAccounted /\ StageOK(r) /\ FlightOK(r)
        /\ pc[r] = "release"
        /\ conns' = [conns EXCEPT ![server[r]] = @ - 1]
        /\ UNCHANGED <<extra, flightVars, cached, ask, outcome>>
    BY DEF IInv, Release, ReleaseServer, cacheVars
  <1>1. /\ Holding(r)
        /\ server[r] \in Servers
        /\ outcome[r] # "pending"
        /\ conns' \in [Servers -> Int]
    BY <1>0 DEF Holding, StageOK, Decided, TypeOK
  <1>2. CASE Kind(r) = "plain" /\ Answer(r, Response(r))
    <2>1. /\ pc' \in [Requests -> Label] /\ pc'[r] = "done"
          /\ server' \in [Requests -> Servers \cup {NoServer}]
          /\ reply' \in [Requests -> Requests \cup {NoRequest, Failed}]
          /\ reply'[r] = Response(r)
          /\ \A q \in Requests : q # r =>
               pc'[q] = pc[q] /\ server'[q] = server[q] /\ reply'[q] = reply[q]
      BY <1>0, <1>2, ResponseType, AnswerFacts
    <2>2. TypeOK' /\ OnlyMover(r)
      BY <1>0, <1>1, <2>1 DEF TypeOK, OnlyMover, flightVars
    <2>3. flight[r] = NoRequest /\ flight[r] # r
      BY <1>0, <1>2, MarksAreNoRequests DEF StageOK
    <2>4. ~ Holding(r)' /\ StageOK(r)' /\ ReplyOK(r)'
      BY <1>0, <1>2, <2>1, <2>3, MarksAreNoRequests
         DEF Holding, StageOK, ReplyOK, Response, Undecided, Decided, Kind, flightVars
    <2>5. LoadAccounted'
      BY <1>0, <1>1, <2>2, <2>4, ReturningIsCounted
    <2>6. QED
      BY <1>0, <2>1, <2>2, <2>3, <2>4, <2>5, LocalStep
  <1>3. ASSUME NEW label \in {"publish", "store"}, Goto(r, label),
               label = "publish" => Kind(r) = "chat",
               label = "store" => Kind(r) = "embedding",
               UNCHANGED <<localVars, reply>>
        PROVE  IInv'
    <2>1. /\ pc' \in [Requests -> Label] /\ pc'[r] = label
          /\ \A q \in Requests : q # r => pc'[q] = pc[q]
      BY <1>0, <1>3, GotoFacts DEF Label
    <2>2. TypeOK' /\ OnlyMover(r) /\ server' = server
      BY <1>0, <1>1, <1>3, <2>1 DEF TypeOK, OnlyMover, flightVars, localVars
    <2>3. /\ ~ Holding(r)' /\ StageOK(r)'
          /\ (PastPublish(r)' <=> PastPublish(r))
      BY <1>0, <1>1, <1>3, <2>1, <2>2
         DEF Holding, StageOK, Undecided, Decided, PastPublish, Kind, flightVars
    <2>4. LoadAccounted'
      BY <1>0, <1>1, <2>2, <2>3, ReturningIsCounted
    <2>5. QED
      BY <1>0, <1>3, <2>1, <2>2, <2>3, <2>4, LocalStep
  <1>4. QED
    BY <1>2, <1>3 DEF Release

\* Closing the flight keeps IInv.
LEMMA PublishKeeps ==
  ASSUME IInv, NEW r \in Requests, Publish(r)
  PROVE  IInv'
  <1> DEFINE label == IF Kind(r) = "chat" THEN "store" ELSE "release"
  <1>0. /\ TypeOK /\ LoadAccounted /\ StageOK(r) /\ FlightOK(r)
        /\ pc[r] = "publish" /\ Goto(r, label)
        /\ closed' = IF flight[r] = r THEN closed \cup {r} ELSE closed
        /\ UNCHANGED <<conns, extra, inflight, flight, cached, ask, server,
                       outcome, reply>>
    BY DEF IInv, Publish, ClosedBy, balancerVars, cacheVars
  <1>1. /\ Kind(r) \in {"chat", "embedding"}
        /\ Kind(r) = "embedding" => server[r] \in Servers
        /\ outcome[r] # "pending"
        /\ closed \subseteq closed'
        /\ flight[r] # NoRequest => flight[r] = r
    BY <1>0, KindType DEF Holding, StageOK, FlightOK, Decided, Kinds
  <1>2. /\ pc' \in [Requests -> Label] /\ pc'[r] = label
        /\ \A q \in Requests : q # r => pc'[q] = pc[q]
    BY <1>0, GotoFacts DEF Label
  <1>3. TypeOK' /\ OnlyMover(r)
    BY <1>0, <1>2 DEF TypeOK, OnlyMover
  <1>4. \A p \in Requests : Key(p)' = Key(p) /\ Kind(p)' = Kind(p)
    BY <1>0 DEF Key, Kind
  <1>5. LoadAccounted'
    <2>1. Holding(r)' <=> Holding(r)
      BY <1>0, <1>1, <1>2, <1>4 DEF Holding
    <2>2. QED
      BY <1>0, <1>3, <2>1, KeepingIsCounted
  <1>6. ASSUME NEW q \in Requests
        PROVE  StageOK(q)' /\ FlightOK(q)' /\ ReplyOK(q)'
    <2>1. StageOK(q) /\ FlightOK(q)
      BY DEF IInv
    <2>2. StageOK(q)'
      <3>1. CASE q = r
        BY <1>0, <1>1, <1>2, <1>4, <3>1
           DEF StageOK, Holding, Undecided, Decided
      <3>2. CASE q # r
        BY <1>0, <1>2, <1>4, <2>1, <3>2
           DEF StageOK, Holding, Undecided, Decided
      <3>3. QED
        BY <3>1, <3>2
    <2>3. FlightOK(q)'
      <3>1. CASE q = r
        <4>1. PastPublish(r)'
          BY <1>1, <1>2, <1>4 DEF PastPublish
        <4>2. flight[r] = r => r \in closed'
          BY <1>0
        <4>3. r \in closed' => flight[r] = r
          BY <1>0 DEF FlightOK
        <4>4. QED
          BY <1>0, <1>1, <1>2, <1>4, <2>1, <3>1, <4>1, <4>2, <4>3
             DEF FlightOK, TypeOK
      <3>2. CASE q # r
        <4>1. (q \in closed' <=> q \in closed) /\ (PastPublish(q)' <=> PastPublish(q))
          BY <1>0, <1>2, <1>4, <3>2 DEF PastPublish
        <4>2. QED
          BY <1>0, <1>2, <1>4, <2>1, <3>2, <4>1 DEF FlightOK, TypeOK
      <3>3. QED
        BY <3>1, <3>2
    <2>4. ReplyOK(q)'
      <3>1. pc'[q] = "done" => pc[q] = "done"
        BY <1>0, <1>2
      <3>2. QED
        BY <1>0, <1>1, <3>1, SettledFrame
    <2>5. QED
      BY <2>2, <2>3, <2>4
  <1>7. \A j \in Keys : MapOK(j)' /\ CachedOK(j)'
    <2>1. \A j \in Keys : CachedOK(j)'
      BY <1>0, SettledFrame
    <2>2. \A j \in Keys : MapOK(j)'
      BY <1>0 DEF IInv, MapOK, Key
    <2>3. QED
      BY <2>1, <2>2
  <1>8. QED
    BY <1>3, <1>5, <1>6, <1>7 DEF IInv

\* Storing the response and answering keeps IInv.
LEMMA StoreKeeps ==
  ASSUME IInv, NEW r \in Requests, Store(r)
  PROVE  IInv'
  <1>0. /\ TypeOK /\ LoadAccounted /\ StageOK(r) /\ FlightOK(r) /\ Key(r) \in Keys
        /\ pc[r] = "store" /\ Answer(r, Response(r))
        /\ cached' = IF Storable(r) THEN [cached EXCEPT ![Key(r)] = r] ELSE cached
        /\ UNCHANGED <<conns, extra, flightVars, ask, outcome>>
    BY KindType DEF IInv, Store, balancerVars
  <1>1. /\ ~ Holding(r)
        /\ outcome[r] # "pending"
        /\ flight[r] # NoRequest => flight[r] = r /\ r \in closed
    BY <1>0 DEF Holding, StageOK, FlightOK, PastPublish, Decided
  <1>2. /\ pc' \in [Requests -> Label] /\ pc'[r] = "done"
        /\ server' \in [Requests -> Servers \cup {NoServer}]
        /\ reply' \in [Requests -> Requests \cup {NoRequest, Failed}]
        /\ reply'[r] = Response(r)
        /\ \A q \in Requests : q # r =>
             pc'[q] = pc[q] /\ server'[q] = server[q] /\ reply'[q] = reply[q]
    BY <1>0, ResponseType, AnswerFacts
  <1>3. cached' \in [Keys -> Requests \cup {NoRequest}]
    BY <1>0 DEF TypeOK
  <1>4. TypeOK' /\ OnlyMover(r)
    BY <1>0, <1>2, <1>3 DEF TypeOK, OnlyMover, flightVars
  <1>5. /\ ~ Holding(r)' /\ StageOK(r)'
        /\ (PastPublish(r)' <=> PastPublish(r))
    BY <1>0, <1>1, <1>2
       DEF Holding, StageOK, Undecided, Decided, PastPublish, Kind, flightVars
  <1>6. ReplyOK(r)'
    BY <1>0, <1>1, <1>2, MarksAreNoRequests DEF ReplyOK, Response, Key, flightVars
  <1>7. ASSUME NEW k \in Keys
        PROVE  cached'[k] = cached[k] \/ CachedOK(k)'
    <2>1. CASE Storable(r) /\ k = Key(r)
      <3>1. cached'[k] = r
        BY <1>0, <2>1 DEF TypeOK
      <3>2. QED
        BY <1>0, <2>1, <3>1 DEF CachedOK, Storable, Cacheable, Key, Kind
    <2>2. CASE ~ (Storable(r) /\ k = Key(r))
      BY <1>0, <2>2 DEF TypeOK
    <2>3. QED
      BY <2>1, <2>2
  <1>8. LoadAccounted'
    BY <1>0, <1>1, <1>4, <1>5, KeepingIsCounted
  <1>9. QED
    BY <1>0, <1>1, <1>2, <1>4, <1>5, <1>6, <1>7, <1>8, LocalStep

\* Taking a closed flight out of the map keeps IInv.
LEMMA ForgetKeeps ==
  ASSUME IInv, NEW k \in Keys, Forget(k)
  PROVE  IInv'
  <1>0. /\ TypeOK
        /\ inflight[k] \in closed
        /\ inflight' = [inflight EXCEPT ![k] = NoRequest]
        /\ UNCHANGED <<conns, extra, flight, closed, cached, ask, pc, server,
                       outcome, reply>>
    BY DEF IInv, Forget, Over, balancerVars, cacheVars
  <1>1. /\ TypeOK'
        /\ inflight'[k] = NoRequest
        /\ \A j \in Keys : j # k => inflight'[j] = inflight[j]
    BY <1>0 DEF TypeOK
  <1>2. /\ \A q : Holding(q)' <=> Holding(q)
        /\ \A q : Key(q)' = Key(q) /\ Kind(q)' = Kind(q)
        /\ \A q : Response(q)' = Response(q)
        /\ \A q : Cacheable(q)' <=> Cacheable(q)
        /\ \A q : PastPublish(q)' <=> PastPublish(q)
    BY <1>0 DEF Holding, Key, Kind, Response, Cacheable, PastPublish
  <1>3. \A q \in Requests : StageOK(q)' /\ ReplyOK(q)'
    BY <1>0, <1>2 DEF IInv, StageOK, ReplyOK
  <1>4. ASSUME NEW q \in Requests
        PROVE  FlightOK(q)'
    <2>1. FlightOK(q) /\ Key(q) \in Keys
      BY <1>0, KindType DEF IInv
    <2>2. flight[q] = q /\ q \notin closed => Key(q) # k
      BY <1>0, <2>1 DEF FlightOK
    <2>3. QED
      BY <1>0, <1>1, <1>2, <2>1, <2>2 DEF FlightOK
  <1>5. \A j \in Keys : MapOK(j)' /\ CachedOK(j)'
    BY <1>0, <1>1, <1>2 DEF IInv, MapOK, CachedOK
  <1>6. LoadAccounted'
    BY <1>0, <1>2 DEF IInv, LoadAccounted, Holders
  <1>7. QED
    BY <1>1, <1>3, <1>4, <1>5, <1>6 DEF IInv

\* The loss of a stored response keeps IInv.
LEMMA ExpireKeeps ==
  ASSUME IInv, NEW k \in Keys, Expire(k)
  PROVE  IInv'
  <1>0. /\ TypeOK
        /\ cached' = [cached EXCEPT ![k] = NoRequest]
        /\ UNCHANGED <<conns, extra, flightVars, ask, pc, server, outcome, reply>>
    BY DEF IInv, Expire, balancerVars
  <1>1. /\ TypeOK'
        /\ cached'[k] = NoRequest
        /\ \A j \in Keys : j # k => cached'[j] = cached[j]
    BY <1>0 DEF TypeOK, flightVars
  <1>2. /\ \A q : Holding(q)' <=> Holding(q)
        /\ \A q : Key(q)' = Key(q) /\ Kind(q)' = Kind(q)
        /\ \A q : Response(q)' = Response(q)
        /\ \A q : Cacheable(q)' <=> Cacheable(q)
        /\ \A q : PastPublish(q)' <=> PastPublish(q)
    BY <1>0 DEF Holding, Key, Kind, Response, Cacheable, PastPublish
  <1>3. \A q \in Requests : StageOK(q)' /\ FlightOK(q)' /\ ReplyOK(q)'
    BY <1>0, <1>2 DEF IInv, StageOK, FlightOK, ReplyOK, flightVars
  <1>4. \A j \in Keys : MapOK(j)' /\ CachedOK(j)'
    BY <1>0, <1>1, <1>2 DEF IInv, MapOK, CachedOK, flightVars
  <1>5. LoadAccounted'
    BY <1>0, <1>2 DEF IInv, LoadAccounted, Holders
  <1>6. QED
    BY <1>1, <1>3, <1>4, <1>5 DEF IInv

-----------------------------------------------------------------------------
(* The theorems                                                            *)

\* Every program start satisfies IInv.
LEMMA InitEstablishes == Init => IInv
  <1> SUFFICES ASSUME Init
               PROVE  IInv
    OBVIOUS
  <1>1. TypeOK
    BY DEF Init, TypeOK, Label, Outcome
  <1>2. ASSUME NEW r \in Requests
        PROVE  /\ StageOK(r) /\ FlightOK(r) /\ ReplyOK(r)
               /\ ~ Holding(r)
    <2>1. /\ pc[r] \in {"lookup", "select"}
          /\ pc[r] = "lookup" <=> Kind(r) = "embedding"
          /\ outcome[r] = "pending" /\ flight[r] = NoRequest
          /\ closed = {} /\ reply[r] = NoRequest
      BY DEF Init, Kind
    <2>2. ~ Holding(r) /\ StageOK(r)
      BY <2>1 DEF Holding, StageOK, Undecided, Decided
    <2>3. FlightOK(r) /\ ReplyOK(r)
      BY <2>1, MarksAreNoRequests DEF FlightOK, ReplyOK
    <2>4. QED
      BY <2>2, <2>3
  <1>3. \A k \in Keys : MapOK(k) /\ CachedOK(k)
    BY DEF Init, MapOK, CachedOK
  <1>4. LoadAccounted
    <2>1. ASSUME NEW s \in Servers
          PROVE  conns[s] = Cardinality(Holders(s)) - extra[s]
      <3>1. Holders(s) = {}
        BY <1>2 DEF Holders
      <3>2. Cardinality(Holders(s)) = 0
        BY <3>1, FS_EmptySet
      <3>3. conns[s] = 0 /\ extra[s] = 0
        BY DEF Init
      <3>4. QED
        BY <3>2, <3>3
    <2>2. QED
      BY <2>1 DEF LoadAccounted
  <1>5. QED
    BY <1>1, <1>2, <1>3, <1>4 DEF IInv

\* No step, of whichever process, breaks IInv.
LEMMA IInvPreserved == IInv /\ [Next]_vars => IInv'
  <1> SUFFICES ASSUME IInv, [Next]_vars
               PROVE  IInv'
    OBVIOUS
  <1>1. ASSUME NEW r \in Requests, Step(r)
        PROVE  IInv'
    BY <1>1, SelectKeeps, LookupKeeps, JoinKeeps, WakeKeeps, AttemptKeeps,
       NoAttemptKeeps, ReselectKeeps, UpstreamKeeps, BackoffKeeps, ReleaseKeeps,
       PublishKeeps, StoreKeeps DEF Step
  <1>2. ASSUME NEW r \in Requests, Disconnect(r)
        PROVE  IInv'
    BY <1>2, FrameStep DEF Disconnect, balancerVars, cacheVars
  <1>3. ASSUME NEW s \in Servers, Timeout(s)
        PROVE  IInv'
    BY <1>3, FrameStep DEF Timeout, cacheVars
  <1>4. CASE SetEnabled
    BY <1>4, FrameStep DEF SetEnabled, balancerVars
  <1>5. CASE UNCHANGED vars
    BY <1>5, FrameStep DEF vars, balancerVars, cacheVars, localVars
  <1>6. QED
    BY <1>1, <1>2, <1>3, <1>4, <1>5, ForgetKeeps, ExpireKeeps DEF Next

\* IInv holds throughout.
LEMMA Inductive == Spec => []IInv
  BY InitEstablishes, IInvPreserved, PTL DEF Spec

\* A leader whose flight is open is the one the map names for its key.
LEMMA LeadersAreInTheMap ==
  ASSUME IInv, NEW r \in Requests, Leading(r)
  PROVE  inflight[Key(r)] = r
  BY DEF IInv, FlightOK, Leading, PastPublish

\* What a server counts is its holders, less its releases by non-holders, however
\* requests end: hits, shared calls, errors, retries, panics, disconnects.
THEOREM LoadIsAccounted == Spec => []LoadAccounted
  <1>1. IInv => LoadAccounted
    BY DEF IInv
  <1>2. QED
    BY <1>1, Inductive, PTL

\* DeduplicatedCall never has two calls under way for a key.
THEOREM FlightsAreLedByOne == Spec => []OneCallPerKey
  <1>1. IInv => OneCallPerKey
    BY LeadersAreInTheMap DEF OneCallPerKey
  <1>2. QED
    BY <1>1, Inductive, PTL

\* All that were in a flight and have answered have answered what its leader's
\* call gave.
THEOREM FlightsShareOneResult == Spec => []SameResult
  <1>1. IInv => SameResult
    BY DEF IInv, ReplyOK, FlightOK, SameResult, TypeOK
  <1>2. QED
    BY <1>1, Inductive, PTL

\* Every response sent or stored comes from a call that succeeded, for the same
\* key, and what is stored was allowed to be.
THEOREM ResponsesAreEarned == Spec => []AnswersAreEarned
  <1>1. IInv => AnswersAreEarned
    BY DEF IInv, ReplyOK, CachedOK, AnswersAreEarned
  <1>2. QED
    BY <1>1, Inductive, PTL

-----------------------------------------------------------------------------
(* Proxy implements SingleFlight                                           *)

View == <<KeyOf, flight, Joinable, ResultOf, Given>>

\* One request moves on and leaves the flights as they are; if it is in one,
\* this is not its answer.
MovesOn(r) ==
  /\ ask' = ask /\ inflight' = inflight /\ flight' = flight /\ closed' = closed
  /\ \A q \in Requests : q # r => pc'[q] = pc[q] /\ reply'[q] = reply[q]
  /\ \A q \in Requests : outcome[q] # "pending" => outcome'[q] = outcome[q]
  /\ flight[r] = NoRequest \/ (pc[r] # "done" /\ pc'[r] # "done")

\* Results stay what they were.
LEMMA ResultsStay ==
  ASSUME IInv, ask' = ask, closed' = closed,
         \A q \in Requests : outcome[q] # "pending" => outcome'[q] = outcome[q]
  PROVE  ResultOf' = ResultOf
  <1>1. \A q \in closed : Response(q)' = Response(q)
    BY SettledFrame
  <1>2. QED
    BY <1>1 DEF ResultOf

\* Such a step changes nothing that SingleFlight speaks of.
LEMMA MovingOnStutters ==
  ASSUME IInv, NEW r \in Requests, MovesOn(r)
  PROVE  UNCHANGED View
  <1>1. ResultOf' = ResultOf
    BY ResultsStay DEF MovesOn
  <1>2. KeyOf' = KeyOf /\ Joinable' = Joinable
    BY DEF MovesOn, KeyOf, Key, Joinable
  <1>3. Given' = Given
    BY DEF MovesOn, Given
  <1>4. QED
    BY <1>1, <1>2, <1>3 DEF View, MovesOn

\* Where a request goes, and that the others stay.
LEMMA GotoMoves ==
  ASSUME TypeOK, NEW r \in Requests, NEW label, Goto(r, label)
  PROVE  pc'[r] = label /\ \A q \in Requests : q # r => pc'[q] = pc[q]
  BY DEF TypeOK, Goto

LEMMA AnswerMoves ==
  ASSUME TypeOK, NEW r \in Requests, NEW response, Answer(r, response)
  PROVE  /\ pc'[r] = "done" /\ reply'[r] = response
         /\ \A q \in Requests : q # r => pc'[q] = pc[q] /\ reply'[q] = reply[q]
  BY GotoMoves DEF TypeOK, Answer, Leave

\* Of the actions of a request, all but these leave the flights alone.
LEMMA OthersMoveOn ==
  ASSUME IInv, NEW r \in Requests,
         Step(r), ~ (Join(r) \/ Wake(r) \/ Publish(r) \/ Store(r))
  PROVE  MovesOn(r)
  <1>0. TypeOK /\ StageOK(r)
    BY DEF IInv
  <1>1. CASE Select(r)
    <2>1. /\ flight[r] = NoRequest /\ outcome[r] = "pending"
          /\ UNCHANGED <<flightVars, ask>>
          /\ outcome' \in {outcome, [outcome EXCEPT ![r] = "failed"]}
      BY <1>0, <1>1 DEF Select, StageOK, Undecided
    <2>2. \A q \in Requests : q # r => pc'[q] = pc[q] /\ reply'[q] = reply[q]
      BY <1>0, <1>1, AnswerMoves, GotoMoves DEF Select, Panic, Leave
    <2>3. \A q \in Requests : outcome[q] # "pending" => outcome'[q] = outcome[q]
      BY <1>0, <2>1 DEF TypeOK
    <2>4. QED
      BY <2>1, <2>2, <2>3 DEF MovesOn, flightVars
  <1>2. CASE Lookup(r)
    <2>1. flight[r] = NoRequest /\ UNCHANGED <<flightVars, ask, outcome>>
      BY <1>0, <1>2 DEF Lookup, StageOK
    <2>2. \A q \in Requests : q # r => pc'[q] = pc[q] /\ reply'[q] = reply[q]
      BY <1>0, <1>2, AnswerMoves, GotoMoves DEF Lookup
    <2>3. QED
      BY <2>1, <2>2 DEF MovesOn, flightVars
  <1>3. CASE Attempt(r) \/ NoAttempt(r) \/ Reselect(r) \/ Upstream(r) \/ Backoff(r)
    <2>1. /\ pc[r] \in {"attempt", "reselect", "calling", "backoff"}
          /\ UNCHANGED <<flightVars, ask, reply>>
      BY <1>3 DEF Attempt, NoAttempt, Reselect, Upstream, Backoff, Panic
    <2>2. \E label \in Label \ {"done"} : Goto(r, label)
      BY <1>3 DEF Attempt, NoAttempt, Reselect, Upstream, Backoff, Panic, Leave,
                  AfterCall, Label
    <2>3. \E o : outcome' = outcome \/ outcome' = [outcome EXCEPT ![r] = o]
      BY <1>3 DEF Attempt, NoAttempt, Reselect, Upstream, Backoff
    <2>4. outcome[r] = "pending"
      BY <1>0, <2>1 DEF StageOK, Undecided
    <2>5. \A q \in Requests : outcome[q] # "pending" => outcome'[q] = outcome[q]
      BY <1>0, <2>3, <2>4 DEF TypeOK
    <2>6. pc'[r] # "done" /\ \A q \in Requests : q # r => pc'[q] = pc[q]
      BY <1>0, <2>2, GotoMoves
    <2>7. QED
      BY <2>1, <2>5, <2>6 DEF MovesOn, flightVars
  <1>4. CASE Release(r)
    <2>1. pc[r] = "release" /\ UNCHANGED <<flightVars, ask, outcome>>
      BY <1>4 DEF Release
    <2>2. CASE Kind(r) = "plain" /\ Answer(r, Response(r))
      <3>1. flight[r] = NoRequest
        BY <1>0, <2>2 DEF StageOK
      <3>2. QED
        BY <1>0, <2>1, <2>2, <3>1, AnswerMoves DEF MovesOn, flightVars
    <2>3. CASE UNCHANGED <<localVars, reply>> /\ (Goto(r, "publish") \/ Goto(r, "store"))
      <3>1. pc'[r] # "done" /\ \A q \in Requests : q # r => pc'[q] = pc[q]
        BY <1>0, <2>3, GotoMoves
      <3>2. QED
        BY <2>1, <2>3, <3>1 DEF MovesOn, flightVars
    <2>4. QED
      BY <1>4, <2>2, <2>3 DEF Release
  <1>5. QED
    BY <1>1, <1>2, <1>3, <1>4 DEF Step

Shares == [Sharing!Next]_View

\* DeduplicatedCall begins: alone, leading a flight, or sharing the one in the
\* map.
LEMMA JoinShares ==
  ASSUME IInv, NEW r \in Requests, Join(r)
  PROVE  Shares
  <1> DEFINE k == Key(r)
             l == inflight[k]
  <1>0. /\ TypeOK /\ StageOK(r) /\ k \in Keys /\ \A j \in Keys : MapOK(j)
        /\ UNCHANGED <<closed, ask, outcome, reply>>
        /\ pc[r] = "join" /\ flight[r] = NoRequest
    BY KindType DEF IInv, Join, StageOK
  <1>1. /\ pc'[r] # "done"
        /\ \A q \in Requests : q # r => pc'[q] = pc[q]
    BY <1>0, GotoMoves DEF Join
  <1>2. KeyOf' = KeyOf /\ ResultOf' = ResultOf
    BY <1>0, ResultsStay DEF KeyOf, Key
  <1>3. \A q \in Joinable : q \in Requests /\ q # NoRequest /\ KeyOf[q] \in Keys /\ inflight[KeyOf[q]] = q
    <2>1. TAKE q \in Joinable
    <2>2. PICK j \in Keys : q = inflight[j] /\ q # NoRequest
      BY DEF Joinable
    <2>3. q \in Requests /\ Key(q) = j
      BY <1>0, <2>2 DEF MapOK, TypeOK
    <2>4. QED
      BY <2>2, <2>3 DEF KeyOf
  <1>4. KeyOf[r] = k
    BY DEF KeyOf
  <1>5. CASE inflight' = inflight /\ flight' = flight
    <2>1. MovesOn(r)
      BY <1>0, <1>1, <1>5 DEF MovesOn
    <2>2. QED
      BY <2>1, MovingOnStutters DEF Shares
  <1>6. CASE /\ l = NoRequest
             /\ inflight' = [inflight EXCEPT ![k] = r]
             /\ flight' = [flight EXCEPT ![r] = r]
    <2>1. \A d \in Joinable : KeyOf[d] # KeyOf[r]
      BY <1>3, <1>4, <1>6
    <2>2. Joinable' = Joinable \cup {r}
      <3>1. inflight'[k] = r /\ \A j \in Keys : j # k => inflight'[j] = inflight[j]
        BY <1>0, <1>6 DEF TypeOK
      <3>2. r # NoRequest
        BY MarksAreNoRequests
      <3>3. QED
        BY <1>0, <1>6, <3>1, <3>2 DEF Joinable
    <2>3. Given' = Given
      BY <1>0, <1>1, <1>6 DEF Given, TypeOK
    <2>4. Sharing!Lead(r)
      BY <1>0, <1>2, <1>6, <2>1, <2>2, <2>3 DEF Sharing!Lead
    <2>5. QED
      BY <1>2, <2>4 DEF Shares, Sharing!Next
  <1>7. CASE /\ l # NoRequest
             /\ flight' = [flight EXCEPT ![r] = l]
             /\ inflight' = inflight
    <2>1. l \in Joinable
      BY <1>0, <1>7 DEF Joinable
    <2>2. KeyOf[l] = KeyOf[r]
      <3>1. l \in Requests /\ Key(l) = k
        BY <1>0, <1>7 DEF MapOK, TypeOK
      <3>2. QED
        BY <1>4, <3>1 DEF KeyOf
    <2>3. Joinable' = Joinable
      BY <1>7 DEF Joinable
    <2>4. Given' = Given
      BY <1>0, <1>1, <1>7 DEF Given, TypeOK
    <2>5. Sharing!Share(r)
      BY <1>0, <1>2, <1>7, <2>1, <2>2, <2>3, <2>4 DEF Sharing!Share
    <2>6. QED
      BY <1>2, <2>5 DEF Shares, Sharing!Next
  <1>8. QED
    BY <1>5, <1>6, <1>7 DEF Join

\* Somebody in a flight that is over is answered with its result.
LEMMA AnswerDelivers ==
  ASSUME IInv, NEW r \in Requests, pc[r] # "done",
         flight[r] \in closed, Answer(r, Response(flight[r])),
         UNCHANGED <<flightVars, ask, outcome>>
  PROVE  Shares
  <1> DEFINE l == flight[r]
  <1>0. TypeOK /\ l \in Requests /\ l # NoRequest
    BY MarksAreNoRequests DEF IInv, TypeOK
  <1>1. /\ pc'[r] = "done" /\ reply'[r] = Response(l)
        /\ \A q \in Requests : q # r => pc'[q] = pc[q] /\ reply'[q] = reply[q]
    BY <1>0, AnswerMoves
  <1>2. KeyOf' = KeyOf /\ Joinable' = Joinable
    BY DEF KeyOf, Key, Joinable, flightVars
  <1>3. ResultOf' = ResultOf
    BY ResultsStay DEF flightVars
  <1>4. ResultOf[l] = Response(l) /\ Response(l) # NoRequest
    BY <1>0, SentinelsAssumption DEF ResultOf, Response
  <1>5. Given[r] = NoRequest
    BY DEF Given
  <1>6. Given' = [Given EXCEPT ![r] = ResultOf[l]]
    BY <1>0, <1>1, <1>4 DEF Given, flightVars
  <1>7. Sharing!Deliver(r)
    BY <1>0, <1>2, <1>3, <1>4, <1>5, <1>6 DEF Sharing!Deliver, flightVars
  <1>8. QED
    BY <1>2, <1>7 DEF Shares, Sharing!Next

LEMMA WakeShares ==
  ASSUME IInv, NEW r \in Requests, Wake(r)
  PROVE  Shares
  BY AnswerDelivers DEF Wake, Over

\* A leader answers once its flight is over; who called alone is in none.
LEMMA StoreShares ==
  ASSUME IInv, NEW r \in Requests, Store(r)
  PROVE  Shares
  <1>0. /\ TypeOK /\ FlightOK(r) /\ pc[r] = "store" /\ Answer(r, Response(r))
        /\ UNCHANGED <<flightVars, ask, outcome>>
    BY DEF IInv, Store
  <1>1. CASE flight[r] = NoRequest
    <2>1. MovesOn(r)
      BY <1>0, <1>1, AnswerMoves DEF MovesOn, flightVars
    <2>2. QED
      BY <2>1, MovingOnStutters DEF Shares
  <1>2. CASE flight[r] # NoRequest
    <2>1. flight[r] = r /\ r \in closed
      BY <1>0, <1>2 DEF FlightOK, PastPublish
    <2>2. QED
      BY <1>0, <2>1, AnswerDelivers
  <1>3. QED
    BY <1>1, <1>2

\* The end of the leader's call.
LEMMA PublishShares ==
  ASSUME IInv, NEW r \in Requests, Publish(r)
  PROVE  Shares
  <1>0. /\ TypeOK /\ FlightOK(r) /\ pc[r] = "publish" /\ Key(r) \in Keys
        /\ UNCHANGED <<inflight, flight, ask, outcome, reply>>
        /\ closed' = ClosedBy(r)
    BY KindType DEF IInv, Publish
  <1>1. pc'[r] # "done" /\ \A q \in Requests : q # r => pc'[q] = pc[q]
    BY <1>0, GotoMoves DEF Publish
  <1>2. CASE flight[r] # r
    <2>1. closed' = closed /\ flight[r] = NoRequest
      BY <1>0, <1>2 DEF ClosedBy, FlightOK
    <2>2. MovesOn(r)
      BY <1>0, <1>1, <2>1 DEF MovesOn
    <2>3. QED
      BY <2>2, MovingOnStutters DEF Shares
  <1>3. CASE flight[r] = r
    <2>1. closed' = closed \cup {r} /\ r \notin closed /\ inflight[Key(r)] = r
      BY <1>0, <1>3 DEF ClosedBy, FlightOK, PastPublish
    <2>2. r \in Joinable /\ Joinable' = Joinable /\ KeyOf' = KeyOf
      BY <1>0, <2>1, MarksAreNoRequests DEF Joinable, KeyOf, Key
    <2>3. ResultOf[r] = NoRequest /\ Response(r) \in Requests \cup {Failed}
      BY <2>1 DEF ResultOf, Response
    <2>4. \A q : Response(q)' = Response(q)
      BY <1>0 DEF Response
    <2>5. ResultOf' = [ResultOf EXCEPT ![r] = Response(r)]
      BY <2>1, <2>4 DEF ResultOf
    <2>6. Given' = Given
      BY <1>0, <1>1 DEF Given
    <2>7. Sharing!Finish(r)
      BY <1>0, <2>2, <2>3, <2>5, <2>6 DEF Sharing!Finish
    <2>8. QED
      BY <2>2, <2>7 DEF Shares, Sharing!Next
  <1>4. QED
    BY <1>2, <1>3

\* The removal of a flight from the map.
LEMMA ForgetShares ==
  ASSUME IInv, NEW k \in Keys, Forget(k)
  PROVE  Shares
  <1> DEFINE l == inflight[k]
  <1>0. /\ TypeOK /\ l \in closed /\ l \in Requests
        /\ inflight' = [inflight EXCEPT ![k] = NoRequest]
        /\ UNCHANGED <<flight, closed, ask, pc, outcome, reply>>
    BY DEF IInv, TypeOK, Forget, Over
  <1>1. l # NoRequest /\ \A j \in Keys : inflight[j] = l => j = k
    BY <1>0, MarksAreNoRequests DEF IInv, MapOK
  <1>2. l \in Joinable /\ Joinable' = Joinable \ {l}
    <2>1. inflight'[k] = NoRequest /\ \A j \in Keys : j # k => inflight'[j] = inflight[j]
      BY <1>0 DEF TypeOK
    <2>2. QED
      BY <1>1, <2>1 DEF Joinable
  <1>3. KeyOf' = KeyOf /\ Given' = Given
    BY <1>0 DEF KeyOf, Key, Given
  <1>4. ResultOf' = ResultOf
    BY <1>0, ResultsStay
  <1>5. ResultOf[l] # NoRequest
    BY <1>0, SentinelsAssumption DEF ResultOf, Response
  <1>6. Sharing!Forget(l)
    BY <1>0, <1>2, <1>3, <1>4, <1>5 DEF Sharing!Forget
  <1>7. QED
    BY <1>0, <1>3, <1>6 DEF Shares, Sharing!Next

LEMMA NextShares ==
  ASSUME IInv, [Next]_vars
  PROVE  Shares
  <1>1. ASSUME NEW r \in Requests, Step(r)
        PROVE  Shares
    <2>1. CASE Join(r) \/ Wake(r) \/ Publish(r) \/ Store(r)
      BY <2>1, JoinShares, WakeShares, PublishShares, StoreShares
    <2>2. CASE ~ (Join(r) \/ Wake(r) \/ Publish(r) \/ Store(r))
      BY <1>1, <2>2, OthersMoveOn, MovingOnStutters DEF Shares
    <2>3. QED
      BY <2>1, <2>2
  <1>2. ASSUME UNCHANGED <<flightVars, ask, pc, outcome, reply>>
        PROVE  Shares
    BY <1>2 DEF Shares, View, KeyOf, Key, Joinable, ResultOf, Response, Given, flightVars
  <1>3. CASE \/ \E r \in Requests : Disconnect(r)
             \/ \E k \in Keys : Expire(k)
             \/ SetEnabled
             \/ \E s \in Servers : Timeout(s)
             \/ UNCHANGED vars
    BY <1>2, <1>3 DEF Disconnect, Expire, SetEnabled, Timeout, vars
  <1>4. QED
    BY <1>1, <1>3, ForgetShares DEF Next

LEMMA InitShares == Init => Sharing!Init
  <1> SUFFICES ASSUME Init
               PROVE  Sharing!Init
    OBVIOUS
  <1>1. Joinable = {} /\ ResultOf = [q \in Requests |-> NoRequest]
    BY DEF Init, Joinable, ResultOf
  <1>2. Given = [r \in Requests |-> NoRequest]
    BY DEF Init, Given
  <1>3. QED
    BY <1>1, <1>2 DEF Init, Sharing!Init

\* Flights (DeduplicatedCall) implement SingleFlight under everything the handlers
\* do with them.
THEOREM FlightsAreSingle == Spec => ImplementsSingleFlight
  <1>1. IInv /\ [Next]_vars => [Sharing!Next]_<<KeyOf, flight, Joinable, ResultOf, Given>>
    BY NextShares DEF Shares, View
  <1>2. QED
    BY <1>1, InitShares, Inductive, PTL DEF Spec, ImplementsSingleFlight, Sharing!Spec
=============================================================================
