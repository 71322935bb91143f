------------------------------ MODULE Balancer ------------------------------
(***************************************************************************)
(* internal/balancer/balancer.go: concurrent requests select and release   *)
(* servers while administrators edit the server table and reload it, the   *)
(* health checker changes its mind and circuit breakers trip and cool.     *)
(*                                                                         *)
(* The balancer's lock is a read-write lock.  A selection holds it for     *)
(* reading from BeginSelect to Count, so LoadServers, which replaces the   *)
(* whole table, waits for it; but selections interleave with each other,   *)
(* with releases, and with everything that takes other locks.              *)
(***************************************************************************)
EXTENDS CircuitBreaker, Selection, Sequences

CONSTANTS Servers,     \* server names
          Hostgroups,
          Default,     \* hostgroup 0
          Requests,    \* each selects once and releases once
          Loaders,     \* LoadServers calls, one each
          Tables,      \* the successive contents of ai_servers
          NoServer,
          NoTable

\* ServerStatus of internal/storage/storage.go.
Status == {"ONLINE", "SHUNNED", "OFFLINE"}

Row == [name : Servers, weight : Nat, status : Status]

ASSUME DefaultAssumption == Default \in Hostgroups
ASSUME RequestsAssumption == IsFiniteSet(Requests)
ASSUME ProcessesAssumption == Requests \cap Loaders = {}
ASSUME NoServerAssumption == NoServer \notin Servers
ASSUME NoTableAssumption == NoTable \notin Nat
\* A table lists, per hostgroup, the rows in the order the query returns them.
ASSUME TablesAssumption ==
  Tables \in Seq([Hostgroups -> Seq(Row)]) /\ Len(Tables) >= 1

VARIABLES
  stored,      \* index in Tables of the content of the database
  runtime,     \* index in Tables of the content LoadServers last installed
  fetched,     \* what each LoadServers call has read and not yet installed
  reloaded,    \* whether any LoadServers has replaced the initial table
  rrCounters,  \* round-robin counters of the hostgroups that ever had servers
  conns,       \* Connections of the current ServerState of each name
  breakers,    \* the circuit manager's map
  healthy,     \* names the health checker would call healthy
  algorithm,
  pc,          \* where each request is
  group,       \* the hostgroup each request asked for
  list,        \* the hostgroup list each selection works on: table and group
  left,        \* positions of that list a selection has still to filter
  available,   \* positions that passed
  chosen,      \* the server a selection settled on and has not counted yet
  server,      \* the server a request uses
  current      \* whether the ServerState a release looked up is in the table

scanVars == <<group, list, left, available, chosen>>
tableVars == <<stored, runtime, fetched, reloaded, rrCounters>>
vars == <<tableVars, conns, breakers, healthy, algorithm, pc, scanVars, server,
          current>>

Algorithms ==
  {"weighted_round_robin", "least_connections", "random", "latency_based"}

\* What LoadServers keeps of a hostgroup of table v: the positions of every
\* server that is not OFFLINE.
Enrolled(v, g) ==
  {i \in DOMAIN Tables[v][g] : Tables[v][g][i].status # "OFFLINE"}

Names(v) ==
  UNION {{Tables[v][g][i].name : i \in Enrolled(v, g)} : g \in Hostgroups}

Populated(v) == {g \in Hostgroups : Enrolled(v, g) # {}}

\* Requests that hold the lock for reading, across more than one step.
Selecting == {r \in Requests : pc[r] \in {"filter", "allow", "chosen"}}

-----------------------------------------------------------------------------
Init ==
  /\ stored = 1
  /\ runtime = 1
  /\ fetched = [l \in Loaders |-> NoTable]
  /\ reloaded = FALSE
  /\ rrCounters = [g \in Populated(1) |-> 0]
  /\ conns = [s \in Servers |-> 0]
  /\ breakers = [s \in {} |-> NewBreaker]
  /\ healthy = Servers
  /\ algorithm = "weighted_round_robin"
  /\ pc = [x \in Requests \cup Loaders |-> "idle"]
  /\ group = [r \in Requests |-> Default]
  /\ list = [r \in Requests |-> [table |-> 1, group |-> Default]]
  /\ left = [r \in Requests |-> {}]
  /\ available = [r \in Requests |-> {}]
  /\ chosen = [r \in Requests |-> NoServer]
  /\ server = [r \in Requests |-> NoServer]
  /\ current = [r \in Requests |-> FALSE]

Goto(x, label) == pc' = [pc EXCEPT ![x] = label]

-----------------------------------------------------------------------------
(* Faulty variants of operators below, used by none of them.               *)

\* The position is remembered in place of the name.
ChoosePosition(r, i) ==
  /\ chosen' = [chosen EXCEPT ![r] = i]
  /\ Goto(r, "chosen")

\* The release looks the name up again to take the connection back.
ReleasedAnew(r) == [conns EXCEPT ![server[r]] = @ - 1]

\* LoadServers does not wait for selections under way.
WriteLockIgnored == TRUE

\* LoadServers keeps the old connection counts.
KeptConnections == conns

\* LoadServers adds no counter.
KeptCounters(v) == rrCounters

-----------------------------------------------------------------------------
(* SelectServer                                                            *)

\* The hostgroup asked for, or the default one when it has no server.
Serving(v, g) == IF g \in Populated(v) THEN g ELSE Default

BeginSelect(r, g) ==
  LET h == Serving(runtime, g) IN
  /\ pc[r] = "idle"
  /\ group' = [group EXCEPT ![r] = g]
  /\ list' = [list EXCEPT ![r] = [table |-> runtime, group |-> h]]
  /\ left' = [left EXCEPT ![r] = Enrolled(runtime, h)]
  /\ available' = [available EXCEPT ![r] = {}]
  /\ Goto(r, IF Enrolled(runtime, h) = {} THEN "refused" ELSE "filter")
  /\ UNCHANGED <<tableVars, conns, breakers, healthy, algorithm, chosen, server,
                 current>>

RowAt(r, i) == Tables[list[r].table][list[r].group][i]

First(S, i) == i \in S /\ \A j \in S : i <= j

\* The next candidate's health is checked; an unhealthy one is dropped.
CheckHealth(r) ==
  /\ pc[r] = "filter"
  /\ \E i \in left[r] :
       /\ First(left[r], i)
       /\ \/ /\ RowAt(r, i).name \in healthy
             /\ Goto(r, "allow")
             /\ UNCHANGED left
          \/ /\ RowAt(r, i).name \notin healthy
             /\ left' = [left EXCEPT ![r] = @ \ {i}]
             /\ UNCHANGED pc
  /\ UNCHANGED <<tableVars, conns, breakers, healthy, algorithm, group, list,
                 available, chosen, server, current>>

\* Its breaker is asked, which may turn it half-open, before its status is
\* looked at and whether or not it will be chosen.
CheckCircuit(r) ==
  /\ pc[r] = "allow"
  /\ \E i \in left[r] :
       LET row == RowAt(r, i)
           b   == Get(breakers, row.name)
       IN /\ First(left[r], i)
          /\ breakers' = Update(breakers, row.name, AfterAllow(b))
          /\ available' = [available EXCEPT ![r] =
                             IF Allows(b) /\ row.status = "ONLINE"
                             THEN @ \cup {i} ELSE @]
          /\ left' = [left EXCEPT ![r] = @ \ {i}]
  /\ Goto(r, "filter")
  /\ UNCHANGED <<tableVars, conns, healthy, algorithm, group, list, chosen,
                 server, current>>

FoundNone(r) ==
  /\ pc[r] = "filter"
  /\ left[r] = {}
  /\ available[r] = {}
  /\ Goto(r, "refused")
  /\ UNCHANGED <<tableVars, conns, breakers, healthy, algorithm, scanVars,
                 server, current>>

AvailableRows(r) == [i \in available[r] |-> RowAt(r, i)]

Choose(r, i) ==
  /\ chosen' = [chosen EXCEPT ![r] = RowAt(r, i).name]
  /\ Goto(r, "chosen")

\* Round robin uses the counter of the hostgroup that was ASKED for, also
\* when the candidates are the default hostgroup's; one that never had a
\* server has no counter, and dereferencing it panics.
PickRoundRobin(r) ==
  /\ pc[r] = "filter"
  /\ left[r] = {}
  /\ available[r] # {}
  /\ algorithm = "weighted_round_robin"
  /\ \/ /\ group[r] \in DOMAIN rrCounters
        /\ rrCounters' = [rrCounters EXCEPT ![group[r]] = @ + 1]
        /\ \E i \in WeightedRoundRobin(AvailableRows(r),
                                      rrCounters[group[r]] + 1) : Choose(r, i)
     \/ /\ group[r] \notin DOMAIN rrCounters
        /\ Goto(r, "panicked")
        /\ UNCHANGED <<rrCounters, chosen>>
  /\ UNCHANGED <<stored, runtime, fetched, reloaded, conns, breakers, healthy,
                 algorithm, group, list, left, available, server, current>>

\* Least connections reads the counts one by one while other requests change
\* them, and latencies are measured values: either may settle on any
\* candidate.
PickOther(r) ==
  /\ pc[r] = "filter"
  /\ left[r] = {}
  /\ available[r] # {}
  /\ algorithm # "weighted_round_robin"
  /\ \E i \in IF algorithm = "random" THEN WeightedRandom(AvailableRows(r))
                                      ELSE available[r] : Choose(r, i)
  /\ UNCHANGED <<tableVars, conns, breakers, healthy, algorithm, group, list,
                 left, available, server, current>>

\* The connection is counted and the lock released.
Count(r) ==
  /\ pc[r] = "chosen"
  /\ conns' = [conns EXCEPT ![chosen[r]] = @ + 1]
  /\ server' = [server EXCEPT ![r] = chosen[r]]
  /\ Goto(r, "using")
  /\ UNCHANGED <<tableVars, breakers, healthy, algorithm, scanVars, current>>

SelectStep(r) ==
  \/ \E g \in Hostgroups : BeginSelect(r, g)
  \/ CheckHealth(r)
  \/ CheckCircuit(r)
  \/ FoundNone(r)
  \/ PickRoundRobin(r)
  \/ PickOther(r)
  \/ Count(r)

-----------------------------------------------------------------------------
(* ReleaseServer                                                           *)

\* The name is looked up in the table of the moment, under the lock; a name
\* that has left the table ends the release there.
BeginRelease(r) ==
  /\ pc[r] = "using"
  /\ IF server[r] \in Names(runtime)
     THEN /\ Goto(r, "releasing")
          /\ current' = [current EXCEPT ![r] = TRUE]
     ELSE /\ Goto(r, "done")
          /\ UNCHANGED current
  /\ UNCHANGED <<tableVars, conns, breakers, healthy, algorithm, scanVars,
                 server>>

\* The count goes down on the state that was looked up, even if a reload has
\* dropped it since.
Released(r) == IF current[r] THEN [conns EXCEPT ![server[r]] = @ - 1] ELSE conns

\* The outcome goes to the breaker of that name.
FinishRelease(r, ok) ==
  LET s == server[r] IN
  /\ pc[r] = "releasing"
  /\ conns' = Released(r)
  /\ breakers' = Update(breakers, s, IF ok THEN AfterSuccess(Get(breakers, s))
                                           ELSE AfterFailure(Get(breakers, s)))
  /\ Goto(r, "done")
  /\ UNCHANGED <<tableVars, healthy, algorithm, scanVars, server, current>>

ReleaseStep(r) ==
  BeginRelease(r) \/ \E ok \in BOOLEAN : FinishRelease(r, ok)

-----------------------------------------------------------------------------
(* LoadServers, SetAlgorithm and the environment                           *)

\* The table is read from storage before the lock is taken.
Fetch(l) ==
  /\ pc[l] = "idle"
  /\ fetched' = [fetched EXCEPT ![l] = stored]
  /\ Goto(l, "loading")
  /\ UNCHANGED <<stored, runtime, reloaded, rrCounters, conns, breakers,
                 healthy, algorithm, scanVars, server, current>>

\* The write lock is free for whoever wants it.
WriteLock == Selecting = {}

\* Every ServerState is replaced by a fresh one; counters of hostgroups that
\* were known stay.
FreshConnections == [s \in Servers |-> 0]

CountersWith(v) ==
  [g \in DOMAIN rrCounters \cup Populated(v) |->
     IF g \in DOMAIN rrCounters THEN rrCounters[g] ELSE 0]

Install(l) ==
  LET v == fetched[l] IN
  /\ pc[l] = "loading"
  /\ WriteLock
  /\ runtime' = v
  /\ reloaded' = TRUE
  /\ conns' = FreshConnections
  /\ rrCounters' = CountersWith(v)
  /\ current' = [r \in Requests |-> FALSE]
  /\ fetched' = [fetched EXCEPT ![l] = NoTable]
  /\ Goto(l, "done")
  /\ UNCHANGED <<stored, breakers, healthy, algorithm, scanVars, server>>

SetAlgorithm(alg) ==
  /\ WriteLock
  /\ algorithm' = alg
  /\ UNCHANGED <<tableVars, conns, breakers, healthy, pc, scanVars, server,
                 current>>

\* An administrator changes the servers in the database.
Edit ==
  /\ stored < Len(Tables)
  /\ stored' = stored + 1
  /\ UNCHANGED <<runtime, fetched, reloaded, rrCounters, conns, breakers,
                 healthy, algorithm, pc, scanVars, server, current>>

HealthChange(s) ==
  /\ healthy' = IF s \in healthy THEN healthy \ {s} ELSE healthy \cup {s}
  /\ UNCHANGED <<tableVars, conns, breakers, algorithm, pc, scanVars, server,
                 current>>

Timeout(s) ==
  /\ s \in DOMAIN breakers
  /\ ~ breakers[s].cooled
  /\ breakers' = Update(breakers, s, AfterTimeout(breakers[s]))
  /\ UNCHANGED <<tableVars, conns, healthy, algorithm, pc, scanVars, server,
                 current>>

Next ==
  \/ \E r \in Requests : SelectStep(r) \/ ReleaseStep(r)
  \/ \E l \in Loaders : Fetch(l) \/ Install(l)
  \/ \E alg \in Algorithms : SetAlgorithm(alg)
  \/ Edit
  \/ \E s \in Servers : HealthChange(s) \/ Timeout(s)

Spec == Init /\ [][Next]_vars

-----------------------------------------------------------------------------
(* Properties                                                              *)

TypeOK ==
  /\ stored \in 1 .. Len(Tables)
  /\ runtime \in 1 .. Len(Tables)
  /\ fetched \in [Loaders -> (1 .. Len(Tables)) \cup {NoTable}]
  /\ reloaded \in BOOLEAN
  /\ DOMAIN rrCounters \subseteq Hostgroups
  /\ \A g \in DOMAIN rrCounters : rrCounters[g] \in Nat
  /\ conns \in [Servers -> Int]
  /\ DOMAIN breakers \subseteq Servers
  /\ \A s \in DOMAIN breakers : breakers[s] \in Breaker
  /\ healthy \subseteq Servers
  /\ algorithm \in Algorithms
  /\ pc \in [Requests \cup Loaders ->
               {"idle", "filter", "allow", "chosen", "using", "releasing",
                "done", "refused", "panicked", "loading"}]
  /\ group \in [Requests -> Hostgroups]
  /\ list \in [Requests -> [table : 1 .. Len(Tables), group : Hostgroups]]
  /\ left \in [Requests -> SUBSET Nat]
  /\ available \in [Requests -> SUBSET Nat]
  /\ chosen \in [Requests -> Servers \cup {NoServer}]
  /\ server \in [Requests -> Servers \cup {NoServer}]
  /\ current \in [Requests -> BOOLEAN]

\* The requests that Connections of s ought to count: they use s, or are
\* releasing it and have looked up the state that is in the table.
Users(s) ==
  {r \in Requests : /\ server[r] = s
                    /\ \/ pc[r] = "using"
                       \/ pc[r] = "releasing" /\ current[r]}

\* No phantom load: whatever reloads and releases overlap, a server's
\* connection count never exceeds the requests that use it, so least
\* connections never avoids a server for work that has gone.
NoPhantomLoad == \A s \in Servers : conns[s] <= Cardinality(Users(s))

\* Until the first reload the count is exact, with any number of concurrent
\* selections and releases.
ExactUntilReload ==
  ~ reloaded => \A s \in Servers : conns[s] = Cardinality(Users(s))

\* A selection works on one table from beginning to end: the list it filters
\* is the one in effect, whatever it accepts is ONLINE there, and the server
\* it counts a connection for is still enrolled.  No reload slips in between.
SelectionSeesOneTable ==
  \A r \in Selecting :
    /\ list[r] = [table |-> runtime, group |-> Serving(runtime, group[r])]
    /\ \A i \in available[r] : RowAt(r, i).status = "ONLINE"
    /\ pc[r] = "chosen" =>
         \E i \in available[r] :
           RowAt(r, i).name = chosen[r] /\ chosen[r] \in Names(runtime)

\* Every hostgroup that has servers has a counter, so round robin can only
\* fail on a hostgroup that never had one.
PopulatedHaveCounters == Populated(runtime) \subseteq DOMAIN rrCounters

\* A selection that has found available servers can settle on one, so it never
\* holds the lock for good: whichever positions of the list are left, with
\* whatever gaps and weights, round robin names exactly one of them and the
\* random choice at least one.  The code's fallback to the first is never used.
SomebodyIsChosen ==
  \A r \in Requests :
    pc[r] = "filter" /\ left[r] = {} /\ available[r] # {} =>
      /\ group[r] \in DOMAIN rrCounters =>
           \E i \in available[r] :
             WeightedRoundRobin(AvailableRows(r), rrCounters[group[r]] + 1) = {i}
      /\ WeightedRandom(AvailableRows(r)) # {}

\* The balancer as its callers see it: the names of each table, those ONLINE
\* somewhere in it, and who holds a server of the table in effect.
ListedNames == [v \in DOMAIN Tables |-> Names(v)]

OnlineNames ==
  [v \in DOMAIN Tables |->
     {s \in Names(v) :
        \E g \in Hostgroups : \E i \in DOMAIN Tables[v][g] :
          Tables[v][g][i].name = s /\ Tables[v][g][i].status = "ONLINE"}]

Held ==
  [r \in Requests |-> IF pc[r] = "using" \/ (pc[r] = "releasing" /\ current[r])
                      THEN server[r] ELSE NoServer]

Atomic == INSTANCE AtomicBalancer WITH
  Callers <- Requests, None <- NoServer,
  Listed <- ListedNames, Online <- OnlineNames,
  table <- runtime, held <- Held, count <- conns

\* Selections and releases look atomic, although each takes several steps among
\* other selections, releases and reloads: whoever gets a server gets one that
\* is ONLINE in the table in effect when its connection is counted, and every
\* release takes back one connection, of the table it belongs to, or none.
ImplementsAtomicBalancer == Atomic!Spec
=============================================================================
