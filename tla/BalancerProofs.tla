--------------------------- MODULE BalancerProofs ---------------------------
(***************************************************************************)
(* Proofs about Balancer, for any finite set of requests, any number of    *)
(* loaders, servers and hostgroups, and any sequence of tables; about the  *)
(* operators of Selection, for any finite list of candidates; and about    *)
(* SelectionRuns, for runs of any length.                                  *)
(*                                                                         *)
(* The first part is the invariant of Balancer and that it implements      *)
(* AtomicBalancer, the second what one choice returns, the third the       *)
(* invariant of SelectionRuns.                                             *)
(***************************************************************************)
EXTENDS Balancer, SelectionRuns, FiniteSetTheorems, WellFoundedInduction, TLAPS

\* What holds of a request in the middle of a selection.
SelectOK(r) ==
  pc[r] \in {"filter", "allow", "chosen"} =>
    /\ list[r] = [table |-> runtime, group |-> Serving(runtime, group[r])]
    /\ left[r] \subseteq Enrolled(runtime, Serving(runtime, group[r]))
    /\ available[r] \subseteq Enrolled(runtime, Serving(runtime, group[r]))
    /\ \A i \in available[r] : RowAt(r, i).status = "ONLINE"
    /\ pc[r] = "chosen" =>
         \E i \in available[r] :
           RowAt(r, i).name = chosen[r] /\ chosen[r] \in Names(runtime)

\* What holds of a request that uses or releases a server.
UseOK(r) ==
  /\ pc[r] \in {"using", "releasing"} => server[r] \in Servers
  /\ pc[r] = "releasing" /\ current[r] => server[r] \in Names(runtime)
  /\ pc[r] = "using" /\ ~ reloaded => server[r] \in Names(runtime)

\* The count of a server: none if it has left the table, never more than its
\* users, and exactly those until the first reload.
CountOK(s) ==
  /\ s \notin Names(runtime) => conns[s] = 0
  /\ conns[s] <= Cardinality(Users(s))
  /\ ~ reloaded => conns[s] = Cardinality(Users(s))

LoadOK ==
  /\ \A l \in Loaders : pc[l] = "loading" => fetched[l] \in 1 .. Len(Tables)
  /\ Populated(runtime) \subseteq DOMAIN rrCounters

IInv ==
  /\ TypeOK
  /\ LoadOK
  /\ \A r \in Requests : SelectOK(r) /\ UseOK(r)
  /\ \A s \in Servers : CountOK(s)

-----------------------------------------------------------------------------
(* Operators                                                               *)

\* The rows of a table are rows, and the names enrolled from it are servers.
LEMMA RowsAreRows ==
  ASSUME NEW v \in 1 .. Len(Tables), NEW g \in Hostgroups,
         NEW i \in Enrolled(v, g)
  PROVE  /\ Tables[v][g][i] \in Row
         /\ Tables[v][g][i].name \in Servers
         /\ Tables[v][g][i].name \in Names(v)
         /\ i \in Nat
  <1>1. Tables[v][g] \in Seq(Row)
    BY TablesAssumption
  <1>2. i \in 1 .. Len(Tables[v][g])
    BY <1>1 DEF Enrolled
  <1>3. Tables[v][g][i] \in Row
    BY <1>1, <1>2
  <1>4. QED
    BY <1>2, <1>3 DEF Row, Names

\* Every enrolled name is a server.
LEMMA NamesAreServers ==
  ASSUME NEW v \in 1 .. Len(Tables)
  PROVE  Names(v) \subseteq Servers
  BY RowsAreRows DEF Names

\* Positions in a list are naturals.
LEMMA EnrolledIsNat ==
  ASSUME NEW v \in 1 .. Len(Tables), NEW g \in Hostgroups
  PROVE  Enrolled(v, g) \in SUBSET Nat
  BY RowsAreRows

\* The fallback of a hostgroup is a hostgroup.
LEMMA ServingIsHostgroup ==
  ASSUME NEW v \in 1 .. Len(Tables), NEW g \in Hostgroups
  PROVE  Serving(v, g) \in Hostgroups
  BY DefaultAssumption DEF Serving

\* Every algorithm picks one of its candidates.
LEMMA PicksAreCandidates ==
  ASSUME NEW c, NEW n
  PROVE  /\ WeightedRoundRobin(c, n) \subseteq DOMAIN c
         /\ WeightedRandom(c) \subseteq DOMAIN c
  BY DEF WeightedRoundRobin, WeightedRandom, AtPosition

\* A breaker's methods, and time, give a breaker.
LEMMA BreakerTypes ==
  ASSUME NEW b \in Breaker
  PROVE  /\ AfterAllow(b) \in Breaker
         /\ AfterSuccess(b) \in Breaker
         /\ AfterFailure(b) \in Breaker
         /\ AfterTimeout(b) \in Breaker
  <1> USE ThresholdAssumption, SuccessThresholdAssumption
  <1>1. AfterAllow(b) \in Breaker
    BY DEF Breaker, State, AfterAllow
  <1>2. AfterTimeout(b) \in Breaker
    BY DEF Breaker, AfterTimeout
  <1>3. AfterFailure(b) \in Breaker
    <2> DEFINE st == IF b.state = "CLOSED" /\ b.failures + 1 < Threshold
                     THEN "CLOSED" ELSE "OPEN"
    <2>1. st \in State /\ b.failures + 1 \in Nat
      BY DEF State, Breaker
    <2>2. [b EXCEPT !.failures = b.failures + 1] \in Breaker
      BY <2>1 DEF Breaker
    <2>3. [b EXCEPT !.failures = b.failures + 1, !.cooled = FALSE] \in Breaker
      BY <2>2 DEF Breaker
    <2>4. [b EXCEPT !.failures = b.failures + 1, !.cooled = FALSE, !.state = st]
            \in Breaker
      BY <2>1, <2>3 DEF Breaker
    <2>5. QED
      BY <2>4 DEF AfterFailure
  <1>4. AfterSuccess(b) \in Breaker
    <2>1. CASE b.state = "CLOSED"
      BY <2>1 DEF Breaker, AfterSuccess
    <2>2. CASE b.state = "OPEN"
      BY <2>2 DEF Breaker, AfterSuccess
    <2>3. CASE b.state = "HALF_OPEN" /\ b.successes + 1 < SuccessThreshold
      BY <2>3 DEF Breaker, AfterSuccess
    <2>4. CASE b.state = "HALF_OPEN" /\ ~ (b.successes + 1 < SuccessThreshold)
      <3>1. b.successes \in Nat
        BY DEF Breaker
      <3>2. AfterSuccess(b) = [b EXCEPT !.state = "CLOSED", !.failures = 0,
                                        !.successes = 0]
        BY <2>4, <3>1 DEF AfterSuccess
      <3>3. [b EXCEPT !.state = "CLOSED"] \in Breaker
        BY DEF Breaker, State
      <3>4. [b EXCEPT !.state = "CLOSED", !.failures = 0] \in Breaker
        BY <3>3 DEF Breaker
      <3>5. [b EXCEPT !.state = "CLOSED", !.failures = 0, !.successes = 0]
              \in Breaker
        BY <3>4 DEF Breaker
      <3>6. QED
        BY <3>2, <3>5
    <2>5. QED
      BY <2>1, <2>2, <2>3, <2>4 DEF Breaker, State
  <1>5. QED
    BY <1>1, <1>2, <1>3, <1>4

\* The breaker map as a type of its own.
BreakersOK ==
  DOMAIN breakers \subseteq Servers /\ \A s \in DOMAIN breakers : breakers[s] \in Breaker

\* The manager hands out breakers.
LEMMA GetIsBreaker ==
  ASSUME BreakersOK, NEW s
  PROVE  Get(breakers, s) \in Breaker
  BY DEF BreakersOK, Get, NewBreaker, Breaker, State

\* Storing a breaker keeps the map well typed.
LEMMA UpdateKeepsBreakers ==
  ASSUME BreakersOK, NEW s \in Servers, NEW b \in Breaker,
         breakers' = Update(breakers, s, b)
  PROVE  BreakersOK'
  BY DEF BreakersOK, Update

-----------------------------------------------------------------------------
(* Frames: what a step keeps by leaving other variables alone              *)

\* The requests that use a server can be counted.
LEMMA UsersAreFinite ==
  ASSUME NEW s
  PROVE  IsFiniteSet(Users(s)) /\ Cardinality(Users(s)) \in Nat
  BY RequestsAssumption, FS_Subset, FS_CardinalityType DEF Users

\* A step that moves no request into or out of the use of a server keeps the
\* counts right.
LEMMA CountFrame ==
  ASSUME IInv,
         conns' = conns, runtime' = runtime, reloaded' = reloaded,
         server' = server, current' = current,
         \A r \in Requests : /\ pc'[r] = "using" <=> pc[r] = "using"
                             /\ pc'[r] = "releasing" <=> pc[r] = "releasing"
  PROVE  /\ \A r \in Requests : UseOK(r)'
         /\ \A s \in Servers : CountOK(s)'
  <1>1. \A s : Users(s)' = Users(s)
    BY DEF Users
  <1>2. \A r \in Requests : UseOK(r)'
    BY DEF IInv, UseOK, Names, Enrolled
  <1>3. \A s \in Servers : CountOK(s)'
    BY <1>1 DEF IInv, CountOK, Names, Enrolled
  <1>4. QED
    BY <1>2, <1>3

\* The table in effect decides the names, the lists and the hostgroup served.
LEMMA SameTable ==
  ASSUME runtime' = runtime
  PROVE  /\ Names(runtime)' = Names(runtime)
         /\ \A g : /\ Enrolled(runtime', g) = Enrolled(runtime, g)
                   /\ Serving(runtime', g) = Serving(runtime, g)
  BY DEF Names, Enrolled, Serving, Populated

\* A step that leaves the table and what a selection works on alone, or drops
\* positions still to be filtered, keeps the selection right.
LEMMA SelectFrame ==
  ASSUME IInv, NEW r \in Requests,
         runtime' = runtime, group'[r] = group[r], list'[r] = list[r],
         left'[r] \subseteq left[r], available'[r] = available[r],
         chosen'[r] = chosen[r],
         pc'[r] \in {"filter", "allow", "chosen"} =>
           pc[r] \in {"filter", "allow", "chosen"},
         pc'[r] = "chosen" => pc[r] = "chosen"
  PROVE  SelectOK(r)'
  <1>1. /\ Names(runtime)' = Names(runtime)
        /\ Serving(runtime, group[r])' = Serving(runtime, group[r])
        /\ Enrolled(runtime, Serving(runtime, group[r]))'
             = Enrolled(runtime, Serving(runtime, group[r]))
    BY SameTable
  <1>2. \A i : RowAt(r, i)' = RowAt(r, i)
    BY DEF RowAt
  <1>3. SUFFICES ASSUME pc'[r] \in {"filter", "allow", "chosen"}
                 PROVE  SelectOK(r)'
    BY DEF SelectOK
  <1>4. /\ list[r] = [table |-> runtime, group |-> Serving(runtime, group[r])]
        /\ left[r] \subseteq Enrolled(runtime, Serving(runtime, group[r]))
        /\ available[r] \subseteq Enrolled(runtime, Serving(runtime, group[r]))
        /\ \A i \in available[r] : RowAt(r, i).status = "ONLINE"
    BY <1>3 DEF IInv, SelectOK
  <1>5. list'[r] = [table |-> runtime', group |-> Serving(runtime, group[r])']
    BY <1>1, <1>4
  <1>6. /\ left'[r] \subseteq Enrolled(runtime, Serving(runtime, group[r]))'
        /\ available'[r] \subseteq Enrolled(runtime, Serving(runtime, group[r]))'
    BY <1>1, <1>4
  <1>7. \A i \in available'[r] : RowAt(r, i)'.status = "ONLINE"
    BY <1>2, <1>4
  <1>8. pc'[r] = "chosen" =>
          \E i \in available'[r] :
            RowAt(r, i)'.name = chosen'[r] /\ chosen'[r] \in Names(runtime)'
    BY <1>1, <1>2 DEF IInv, SelectOK
  <1>9. QED
    BY <1>5, <1>6, <1>7, <1>8 DEF SelectOK

\* A step that leaves the tables and loaders alone keeps LoadOK.
LEMMA LoadFrame ==
  ASSUME IInv, runtime' = runtime, fetched' = fetched,
         rrCounters' = rrCounters,
         \A l \in Loaders : pc'[l] = "loading" => pc[l] = "loading"
  PROVE  LoadOK'
  BY DEF IInv, LoadOK, Populated, Enrolled

\* A request's move leaves every other process where it is.
LEMMA GotoOthers ==
  ASSUME TypeOK, NEW x \in Requests \cup Loaders, NEW label, Goto(x, label)
  PROVE  /\ pc'[x] = label
         /\ \A y \in Requests \cup Loaders : y # x => pc'[y] = pc[y]
  BY DEF TypeOK, Goto

\* A move to a known label keeps pc well typed.
LEMMA GotoType ==
  ASSUME TypeOK, NEW x \in Requests \cup Loaders, NEW label, Goto(x, label),
         label \in {"idle", "filter", "allow", "chosen", "using", "releasing",
                    "done", "refused", "panicked", "loading"}
  PROVE  pc' \in [Requests \cup Loaders ->
               {"idle", "filter", "allow", "chosen", "using", "releasing",
                "done", "refused", "panicked", "loading"}]
  BY DEF TypeOK, Goto

-----------------------------------------------------------------------------
(* One lemma per action                                                    *)

\* Taking the lock and finding the list to filter keeps IInv.
LEMMA BeginSelectKeeps ==
  ASSUME IInv, NEW r \in Requests, NEW g \in Hostgroups, BeginSelect(r, g)
  PROVE  IInv'
  <1> DEFINE h == Serving(runtime, g)
             to == IF Enrolled(runtime, h) = {} THEN "refused" ELSE "filter"
  <1>0. TypeOK /\ runtime \in 1 .. Len(Tables) /\ h \in Hostgroups /\ pc[r] = "idle"
    BY ServingIsHostgroup DEF IInv, TypeOK, BeginSelect
  <1>1. Goto(r, to) /\ to \in {"refused", "filter"}
    BY DEF BeginSelect
  <1>2. TypeOK'
    <2>1. /\ group' \in [Requests -> Hostgroups]
          /\ list' \in [Requests -> [table : 1 .. Len(Tables), group : Hostgroups]]
          /\ left' \in [Requests -> SUBSET Nat]
          /\ available' \in [Requests -> SUBSET Nat]
      BY <1>0, EnrolledIsNat DEF BeginSelect, TypeOK
    <2>2. QED
      BY <1>0, <1>1, <2>1, GotoType DEF BeginSelect, TypeOK, tableVars
  <1>3. pc'[r] = to /\ \A y \in Requests \cup Loaders : y # r => pc'[y] = pc[y]
    BY <1>0, <1>1, GotoOthers
  <1>4. SelectOK(r)'
    <2>1. /\ list'[r] = [table |-> runtime, group |-> h]
          /\ left'[r] = Enrolled(runtime, h)
          /\ available'[r] = {}
          /\ group'[r] = g
          /\ runtime' = runtime
      BY <1>0 DEF BeginSelect, TypeOK, tableVars
    <2>2. /\ Serving(runtime, group[r])' = h
          /\ Enrolled(runtime, Serving(runtime, group[r]))' = Enrolled(runtime, h)
      BY <2>1 DEF Serving, Enrolled, Populated
    <2>3. QED
      BY <1>1, <1>3, <2>1, <2>2 DEF SelectOK
  <1>5. ASSUME NEW q \in Requests, q # r
        PROVE  SelectOK(q)'
    BY <1>0, <1>3, <1>5, SelectFrame DEF BeginSelect, TypeOK, tableVars
  <1>6. /\ \A q \in Requests : UseOK(q)'
        /\ \A s \in Servers : CountOK(s)'
    <2>1. \A q \in Requests : /\ pc'[q] = "using" <=> pc[q] = "using"
                              /\ pc'[q] = "releasing" <=> pc[q] = "releasing"
      BY <1>0, <1>1, <1>3
    <2>2. QED
      BY <2>1, CountFrame DEF BeginSelect, tableVars
  <1>7. LoadOK'
    BY <1>3, LoadFrame, ProcessesAssumption DEF BeginSelect, tableVars
  <1>8. QED
    BY <1>2, <1>4, <1>5, <1>6, <1>7 DEF IInv

\* Looking at a candidate's health keeps IInv.
LEMMA CheckHealthKeeps ==
  ASSUME IInv, NEW r \in Requests, CheckHealth(r)
  PROVE  IInv'
  <1>0. TypeOK /\ pc[r] = "filter"
    BY DEF IInv, CheckHealth
  <1>1. /\ pc'[r] \in {"filter", "allow"}
        /\ \A y \in Requests \cup Loaders : y # r => pc'[y] = pc[y]
        /\ pc' \in [Requests \cup Loaders ->
               {"idle", "filter", "allow", "chosen", "using", "releasing",
                "done", "refused", "panicked", "loading"}]
    <2>1. CASE Goto(r, "allow")
      BY <1>0, <2>1, GotoOthers, GotoType
    <2>2. CASE UNCHANGED pc
      BY <1>0, <2>2 DEF TypeOK
    <2>3. QED
      BY <2>1, <2>2 DEF CheckHealth
  <1>2. /\ left'[r] \subseteq left[r]
        /\ \A q \in Requests : q # r => left'[q] = left[q]
        /\ left' \in [Requests -> SUBSET Nat]
    BY <1>0 DEF CheckHealth, TypeOK
  <1>3. TypeOK'
    BY <1>0, <1>1, <1>2 DEF CheckHealth, TypeOK, tableVars
  <1>4. ASSUME NEW q \in Requests
        PROVE  SelectOK(q)'
    <2>1. left'[q] \subseteq left[q]
      BY <1>2
    <2>2. /\ pc'[q] \in {"filter", "allow", "chosen"} =>
               pc[q] \in {"filter", "allow", "chosen"}
          /\ pc'[q] = "chosen" => pc[q] = "chosen"
      BY <1>0, <1>1
    <2>3. QED
      BY <2>1, <2>2, SelectFrame DEF CheckHealth, tableVars
  <1>5. /\ \A q \in Requests : UseOK(q)'
        /\ \A s \in Servers : CountOK(s)'
    <2>1. \A q \in Requests : /\ pc'[q] = "using" <=> pc[q] = "using"
                              /\ pc'[q] = "releasing" <=> pc[q] = "releasing"
      BY <1>0, <1>1
    <2>2. QED
      BY <2>1, CountFrame DEF CheckHealth, tableVars
  <1>6. LoadOK'
    BY <1>1, LoadFrame, ProcessesAssumption DEF CheckHealth, tableVars
  <1>7. QED
    BY <1>3, <1>4, <1>5, <1>6 DEF IInv

\* A candidate's row, during a selection.
LEMMA CandidateRow ==
  ASSUME IInv, NEW r \in Requests, NEW i \in left[r] \cup available[r],
         pc[r] \in {"filter", "allow", "chosen"}
  PROVE  /\ RowAt(r, i) = Tables[runtime][Serving(runtime, group[r])][i]
         /\ i \in Enrolled(runtime, Serving(runtime, group[r]))
         /\ RowAt(r, i).name \in Servers
         /\ RowAt(r, i).name \in Names(runtime)
  <1>1. /\ list[r] = [table |-> runtime, group |-> Serving(runtime, group[r])]
        /\ i \in Enrolled(runtime, Serving(runtime, group[r]))
    BY DEF IInv, SelectOK
  <1>2. /\ runtime \in 1 .. Len(Tables)
        /\ Serving(runtime, group[r]) \in Hostgroups
    BY ServingIsHostgroup DEF IInv, TypeOK
  <1>3. RowAt(r, i) = Tables[runtime][Serving(runtime, group[r])][i]
    BY <1>1 DEF RowAt
  <1>4. QED
    BY <1>1, <1>2, <1>3, RowsAreRows

\* Asking a candidate's breaker keeps IInv.
LEMMA CheckCircuitKeeps ==
  ASSUME IInv, NEW r \in Requests, CheckCircuit(r)
  PROVE  IInv'
  <1>0. TypeOK /\ pc[r] = "allow" /\ BreakersOK /\ Goto(r, "filter")
    BY DEF IInv, TypeOK, CheckCircuit, BreakersOK
  <1>1. /\ pc'[r] = "filter"
        /\ \A y \in Requests \cup Loaders : y # r => pc'[y] = pc[y]
    BY <1>0, GotoOthers
  <1>2. PICK i \in left[r] :
          LET row == RowAt(r, i)
              b   == Get(breakers, row.name)
          IN /\ breakers' = Update(breakers, row.name, AfterAllow(b))
             /\ available' = [available EXCEPT ![r] =
                                IF Allows(b) /\ row.status = "ONLINE"
                                THEN @ \cup {i} ELSE @]
             /\ left' = [left EXCEPT ![r] = @ \ {i}]
    BY DEF CheckCircuit
  <1>3. /\ RowAt(r, i).name \in Servers
        /\ i \in Enrolled(runtime, Serving(runtime, group[r]))
        /\ i \in Nat
    <2>1. runtime \in 1 .. Len(Tables) /\ Serving(runtime, group[r]) \in Hostgroups
      BY ServingIsHostgroup DEF IInv, TypeOK
    <2>2. QED
      BY <1>0, <2>1, CandidateRow, RowsAreRows
  <1>4. BreakersOK'
    <2>1. Get(breakers, RowAt(r, i).name) \in Breaker
      BY <1>0, GetIsBreaker
    <2>2. AfterAllow(Get(breakers, RowAt(r, i).name)) \in Breaker
      BY <2>1, BreakerTypes
    <2>3. QED
      BY <1>0, <1>2, <1>3, <2>2, UpdateKeepsBreakers
  <1>5. /\ available' \in [Requests -> SUBSET Nat]
        /\ left' \in [Requests -> SUBSET Nat]
        /\ \A q \in Requests : q # r => /\ available'[q] = available[q]
                                        /\ left'[q] = left[q]
        /\ left'[r] \subseteq left[r]
        /\ \A j \in available'[r] :
             \/ j \in available[r]
             \/ j = i /\ RowAt(r, i).status = "ONLINE"
    BY <1>0, <1>2, <1>3 DEF TypeOK
  <1>6. TypeOK'
    BY <1>0, <1>4, <1>5, GotoType DEF CheckCircuit, TypeOK, BreakersOK, tableVars
  <1>7. SelectOK(r)'
    <2>1. runtime' = runtime /\ group' = group /\ list' = list
      BY DEF CheckCircuit, tableVars
    <2>2. /\ Serving(runtime, group[r])' = Serving(runtime, group[r])
          /\ Enrolled(runtime, Serving(runtime, group[r]))'
               = Enrolled(runtime, Serving(runtime, group[r]))
      BY <2>1, SameTable
    <2>3. \A j : RowAt(r, j)' = RowAt(r, j)
      BY <2>1 DEF RowAt
    <2>4. /\ list[r] = [table |-> runtime, group |-> Serving(runtime, group[r])]
          /\ left[r] \subseteq Enrolled(runtime, Serving(runtime, group[r]))
          /\ available[r] \subseteq Enrolled(runtime, Serving(runtime, group[r]))
          /\ \A j \in available[r] : RowAt(r, j).status = "ONLINE"
      BY <1>0 DEF IInv, SelectOK
    <2>5. /\ left'[r] \subseteq Enrolled(runtime, Serving(runtime, group[r]))'
          /\ available'[r] \subseteq Enrolled(runtime, Serving(runtime, group[r]))'
      BY <1>3, <1>5, <2>2, <2>4
    <2>6. \A j \in available'[r] : RowAt(r, j)'.status = "ONLINE"
      BY <1>5, <2>3, <2>4
    <2>7. list'[r] = [table |-> runtime', group |-> Serving(runtime, group[r])']
      BY <2>1, <2>2, <2>4
    <2>8. QED
      BY <1>1, <2>5, <2>6, <2>7 DEF SelectOK
  <1>8. ASSUME NEW q \in Requests, q # r
        PROVE  SelectOK(q)'
    BY <1>1, <1>5, <1>8, SelectFrame DEF CheckCircuit, tableVars
  <1>9. /\ \A q \in Requests : UseOK(q)'
        /\ \A s \in Servers : CountOK(s)'
    <2>1. \A q \in Requests : /\ pc'[q] = "using" <=> pc[q] = "using"
                              /\ pc'[q] = "releasing" <=> pc[q] = "releasing"
      BY <1>0, <1>1
    <2>2. QED
      BY <2>1, CountFrame DEF CheckCircuit, tableVars
  <1>10. LoadOK'
    BY <1>1, LoadFrame, ProcessesAssumption DEF CheckCircuit, tableVars
  <1>11. QED
    BY <1>6, <1>7, <1>8, <1>9, <1>10 DEF IInv

\* Giving up for want of candidates keeps IInv.
LEMMA FoundNoneKeeps ==
  ASSUME IInv, NEW r \in Requests, FoundNone(r)
  PROVE  IInv'
  <1>0. TypeOK /\ pc[r] = "filter" /\ Goto(r, "refused")
    BY DEF IInv, FoundNone
  <1>1. /\ pc'[r] = "refused"
        /\ \A y \in Requests \cup Loaders : y # r => pc'[y] = pc[y]
    BY <1>0, GotoOthers
  <1>2. TypeOK'
    BY <1>0, GotoType DEF FoundNone, TypeOK, tableVars, scanVars
  <1>3. ASSUME NEW q \in Requests
        PROVE  SelectOK(q)'
    BY <1>0, <1>1, SelectFrame DEF FoundNone, tableVars, scanVars
  <1>4. /\ \A q \in Requests : UseOK(q)'
        /\ \A s \in Servers : CountOK(s)'
    <2>1. \A q \in Requests : /\ pc'[q] = "using" <=> pc[q] = "using"
                              /\ pc'[q] = "releasing" <=> pc[q] = "releasing"
      BY <1>0, <1>1
    <2>2. QED
      BY <2>1, CountFrame DEF FoundNone, tableVars
  <1>5. LoadOK'
    BY <1>1, LoadFrame, ProcessesAssumption DEF FoundNone, tableVars
  <1>6. QED
    BY <1>2, <1>3, <1>4, <1>5 DEF IInv

\* Settling on a candidate keeps the selection right.
LEMMA ChosenIsRight ==
  ASSUME IInv, NEW r \in Requests, NEW i \in available[r], Choose(r, i),
         pc[r] = "filter", runtime' = runtime, group' = group, list' = list,
         left' = left, available' = available
  PROVE  /\ \A q \in Requests : SelectOK(q)'
         /\ chosen' \in [Requests -> Servers \cup {NoServer}]
         /\ Goto(r, "chosen")
         /\ pc'[r] = "chosen"
         /\ \A y \in Requests \cup Loaders : y # r => pc'[y] = pc[y]
  <1>0. TypeOK /\ Goto(r, "chosen")
    BY DEF IInv, Choose
  <1>1. /\ pc'[r] = "chosen"
        /\ \A y \in Requests \cup Loaders : y # r => pc'[y] = pc[y]
    BY <1>0, GotoOthers
  <1>2. RowAt(r, i).name \in Servers /\ RowAt(r, i).name \in Names(runtime)
    BY CandidateRow
  <1>3. /\ chosen' \in [Requests -> Servers \cup {NoServer}]
        /\ chosen'[r] = RowAt(r, i).name
        /\ \A q \in Requests : q # r => chosen'[q] = chosen[q]
    BY <1>0, <1>2 DEF Choose, TypeOK
  <1>4. SelectOK(r)'
    <2>2. /\ Serving(runtime, group[r])' = Serving(runtime, group[r])
          /\ Enrolled(runtime, Serving(runtime, group[r]))'
               = Enrolled(runtime, Serving(runtime, group[r]))
          /\ Names(runtime)' = Names(runtime)
      BY SameTable
    <2>3. \A j : RowAt(r, j)' = RowAt(r, j)
      BY DEF RowAt
    <2>4. /\ list[r] = [table |-> runtime, group |-> Serving(runtime, group[r])]
          /\ left[r] \subseteq Enrolled(runtime, Serving(runtime, group[r]))
          /\ available[r] \subseteq Enrolled(runtime, Serving(runtime, group[r]))
          /\ \A j \in available[r] : RowAt(r, j).status = "ONLINE"
      BY DEF IInv, SelectOK
    <2>5. /\ list'[r] = [table |-> runtime', group |-> Serving(runtime, group[r])']
          /\ left'[r] \subseteq Enrolled(runtime, Serving(runtime, group[r]))'
          /\ available'[r] \subseteq Enrolled(runtime, Serving(runtime, group[r]))'
      BY <2>2, <2>4
    <2>6. \A j \in available'[r] : RowAt(r, j)'.status = "ONLINE"
      BY <2>3, <2>4
    <2>7. /\ i \in available'[r]
          /\ RowAt(r, i)'.name = chosen'[r]
          /\ chosen'[r] \in Names(runtime)'
      BY <1>2, <1>3, <2>2, <2>3
    <2>8. QED
      BY <1>1, <2>5, <2>6, <2>7 DEF SelectOK
  <1>5. ASSUME NEW q \in Requests, q # r
        PROVE  SelectOK(q)'
    BY <1>1, <1>3, <1>5, SelectFrame
  <1>6. QED
    BY <1>0, <1>1, <1>3, <1>4, <1>5

\* A round-robin pick, or its panic, keeps IInv.
LEMMA PickRoundRobinKeeps ==
  ASSUME IInv, NEW r \in Requests, PickRoundRobin(r)
  PROVE  IInv'
  <1>0. /\ TypeOK /\ LoadOK /\ pc[r] = "filter"
        /\ UNCHANGED <<stored, runtime, fetched, reloaded, conns, breakers,
                       healthy, algorithm, group, list, left, available,
                       server, current>>
    BY DEF IInv, PickRoundRobin
  <1>1. /\ \A q \in Requests : SelectOK(q)'
        /\ chosen' \in [Requests -> Servers \cup {NoServer}]
        /\ pc'[r] \in {"chosen", "panicked"}
        /\ Goto(r, pc'[r])
        /\ \A y \in Requests \cup Loaders : y # r => pc'[y] = pc[y]
    <2>1. CASE \E i \in WeightedRoundRobin(AvailableRows(r),
                                          rrCounters[group[r]] + 1) : Choose(r, i)
      <3>1. PICK i \in available[r] : Choose(r, i)
        BY <2>1, PicksAreCandidates DEF AvailableRows
      <3>2. QED
        BY <1>0, <3>1, ChosenIsRight
    <2>2. CASE Goto(r, "panicked") /\ UNCHANGED chosen
      <3>1. /\ pc'[r] = "panicked"
            /\ \A y \in Requests \cup Loaders : y # r => pc'[y] = pc[y]
        BY <1>0, <2>2, GotoOthers
      <3>2. ASSUME NEW q \in Requests
            PROVE  SelectOK(q)'
        BY <1>0, <2>2, <3>1, SelectFrame
      <3>3. QED
        BY <1>0, <2>2, <3>1, <3>2 DEF TypeOK
    <2>3. QED
      BY <2>1, <2>2 DEF PickRoundRobin
  <1>2. /\ DOMAIN rrCounters' = DOMAIN rrCounters
        /\ \A g \in DOMAIN rrCounters' : rrCounters'[g] \in Nat
    BY <1>0 DEF PickRoundRobin, TypeOK
  <1>3. TypeOK'
    BY <1>0, <1>1, <1>2, GotoType DEF TypeOK
  <1>4. /\ \A q \in Requests : UseOK(q)'
        /\ \A s \in Servers : CountOK(s)'
    <2>1. \A q \in Requests : /\ pc'[q] = "using" <=> pc[q] = "using"
                              /\ pc'[q] = "releasing" <=> pc[q] = "releasing"
      BY <1>0, <1>1
    <2>2. QED
      BY <1>0, <2>1, CountFrame
  <1>5. LoadOK'
    BY <1>0, <1>1, <1>2, ProcessesAssumption DEF LoadOK, Populated, Enrolled
  <1>6. QED
    BY <1>1, <1>3, <1>4, <1>5 DEF IInv

\* A pick by any other algorithm keeps IInv.
LEMMA PickOtherKeeps ==
  ASSUME IInv, NEW r \in Requests, PickOther(r)
  PROVE  IInv'
  <1>0. /\ TypeOK /\ pc[r] = "filter"
        /\ UNCHANGED <<tableVars, conns, breakers, healthy, algorithm, group,
                       list, left, available, server, current>>
    BY DEF IInv, PickOther
  <1>1. PICK i \in available[r] : Choose(r, i)
    BY PicksAreCandidates DEF PickOther, AvailableRows
  <1>2. /\ \A q \in Requests : SelectOK(q)'
        /\ chosen' \in [Requests -> Servers \cup {NoServer}]
        /\ Goto(r, "chosen")
        /\ pc'[r] = "chosen"
        /\ \A y \in Requests \cup Loaders : y # r => pc'[y] = pc[y]
    BY <1>0, <1>1, ChosenIsRight DEF tableVars
  <1>3. TypeOK'
    BY <1>0, <1>2, GotoType DEF TypeOK, tableVars
  <1>4. /\ \A q \in Requests : UseOK(q)'
        /\ \A s \in Servers : CountOK(s)'
    <2>1. \A q \in Requests : /\ pc'[q] = "using" <=> pc[q] = "using"
                              /\ pc'[q] = "releasing" <=> pc[q] = "releasing"
      BY <1>0, <1>2
    <2>2. QED
      BY <1>0, <2>1, CountFrame DEF tableVars
  <1>5. LoadOK'
    BY <1>0, <1>2, LoadFrame, ProcessesAssumption DEF tableVars
  <1>6. QED
    BY <1>2, <1>3, <1>4, <1>5 DEF IInv

\* Counting the connection makes the request one more user of its server.
LEMMA CountKeeps ==
  ASSUME IInv, NEW r \in Requests, Count(r)
  PROVE  IInv'
  <1>0. /\ TypeOK /\ pc[r] = "chosen" /\ Goto(r, "using")
        /\ conns' = [conns EXCEPT ![chosen[r]] = @ + 1]
        /\ server' = [server EXCEPT ![r] = chosen[r]]
        /\ UNCHANGED <<tableVars, breakers, healthy, algorithm, scanVars, current>>
    BY DEF IInv, Count
  <1>1. /\ pc'[r] = "using"
        /\ \A y \in Requests \cup Loaders : y # r => pc'[y] = pc[y]
    BY <1>0, GotoOthers
  <1>2. chosen[r] \in Names(runtime) /\ chosen[r] \in Servers
    <2>1. chosen[r] \in Names(runtime)
      BY <1>0 DEF IInv, SelectOK
    <2>2. QED
      BY <1>0, <2>1, NamesAreServers DEF TypeOK
  <1>3. /\ conns' \in [Servers -> Int]
        /\ conns'[chosen[r]] = conns[chosen[r]] + 1
        /\ \A s \in Servers : s # chosen[r] => conns'[s] = conns[s]
        /\ server' \in [Requests -> Servers \cup {NoServer}]
        /\ server'[r] = chosen[r]
        /\ \A q \in Requests : q # r => server'[q] = server[q]
    BY <1>0, <1>2 DEF TypeOK
  <1>4. TypeOK'
    BY <1>0, <1>3, GotoType DEF TypeOK, tableVars, scanVars
  <1>5. ASSUME NEW q \in Requests
        PROVE  SelectOK(q)'
    <2>1. CASE q = r
      BY <1>1, <2>1 DEF SelectOK
    <2>2. CASE q # r
      BY <1>0, <1>1, <2>2, SelectFrame DEF tableVars, scanVars
    <2>3. QED
      BY <2>1, <2>2
  <1>6. Names(runtime)' = Names(runtime)
    BY <1>0, SameTable DEF tableVars
  <1>7. ASSUME NEW q \in Requests
        PROVE  UseOK(q)'
    BY <1>0, <1>1, <1>2, <1>3, <1>6 DEF IInv, UseOK, tableVars
  <1>8. ASSUME NEW s \in Servers
        PROVE  CountOK(s)'
    <2>1. CountOK(s) /\ reloaded' = reloaded
      BY <1>0 DEF IInv, tableVars
    <2>2. CASE s = chosen[r]
      <3>1. Users(s)' = Users(s) \cup {r} /\ r \notin Users(s)
        BY <1>0, <1>1, <1>3, <2>2 DEF Users
      <3>2. Cardinality(Users(s)') = Cardinality(Users(s)) + 1
        BY <3>1, UsersAreFinite, FS_AddElement
      <3>3. conns[s] \in Int /\ Cardinality(Users(s)) \in Nat
        BY <1>0, UsersAreFinite DEF TypeOK
      <3>4. QED
        BY <1>2, <1>3, <1>6, <2>1, <2>2, <3>2, <3>3 DEF CountOK
    <2>3. CASE s # chosen[r]
      <3>1. Users(s)' = Users(s)
        BY <1>0, <1>1, <1>3, <2>3 DEF Users
      <3>2. QED
        BY <1>3, <1>6, <2>1, <2>3, <3>1 DEF CountOK
    <2>4. QED
      BY <2>2, <2>3
  <1>9. LoadOK'
    BY <1>0, <1>1, LoadFrame, ProcessesAssumption DEF tableVars
  <1>10. QED
    BY <1>4, <1>5, <1>7, <1>8, <1>9 DEF IInv

\* A release that finds its name remembers the state it found; one that does
\* not is over, and the name had no connections left.
LEMMA BeginReleaseKeeps ==
  ASSUME IInv, NEW r \in Requests, BeginRelease(r)
  PROVE  IInv'
  <1>0. /\ TypeOK /\ pc[r] = "using" /\ server[r] \in Servers
        /\ UNCHANGED <<tableVars, conns, breakers, healthy, algorithm, scanVars,
                       server>>
    BY DEF IInv, BeginRelease, UseOK
  <1>1. /\ pc'[r] \in {"releasing", "done"}
        /\ Goto(r, pc'[r])
        /\ \A y \in Requests \cup Loaders : y # r => pc'[y] = pc[y]
        /\ pc'[r] = "releasing" =>
             /\ server[r] \in Names(runtime)
             /\ current' = [current EXCEPT ![r] = TRUE]
        /\ pc'[r] = "done" => /\ server[r] \notin Names(runtime)
                              /\ current' = current
    <2>1. CASE server[r] \in Names(runtime)
      BY <1>0, <2>1, GotoOthers DEF BeginRelease
    <2>2. CASE server[r] \notin Names(runtime)
      BY <1>0, <2>2, GotoOthers DEF BeginRelease
    <2>3. QED
      BY <2>1, <2>2
  <1>2. /\ current' \in [Requests -> BOOLEAN]
        /\ \A q \in Requests : q # r => current'[q] = current[q]
        /\ pc'[r] = "releasing" => current'[r]
    BY <1>0, <1>1 DEF TypeOK
  <1>3. TypeOK'
    BY <1>0, <1>1, <1>2, GotoType DEF TypeOK, tableVars, scanVars
  <1>4. ASSUME NEW q \in Requests
        PROVE  SelectOK(q)'
    BY <1>0, <1>1, SelectFrame DEF tableVars, scanVars
  <1>5. Names(runtime)' = Names(runtime)
    BY <1>0, SameTable DEF tableVars
  <1>6. ASSUME NEW q \in Requests
        PROVE  UseOK(q)'
    BY <1>0, <1>1, <1>2, <1>5 DEF IInv, UseOK, tableVars
  <1>7. ASSUME NEW s \in Servers
        PROVE  CountOK(s)'
    <2>1. CountOK(s) /\ reloaded' = reloaded /\ conns' = conns
      BY <1>0 DEF IInv, tableVars
    <2>2. CASE pc'[r] = "releasing" \/ s # server[r]
      <3>1. Users(s)' = Users(s)
        BY <1>0, <1>1, <1>2, <2>2 DEF Users
      <3>2. QED
        BY <1>5, <2>1, <3>1 DEF CountOK
    <2>3. CASE pc'[r] = "done" /\ s = server[r]
      <3>1. s \notin Names(runtime) /\ conns[s] = 0 /\ reloaded
        BY <1>0, <1>1, <2>1, <2>3 DEF CountOK, IInv, UseOK, TypeOK
      <3>2. Cardinality(Users(s))' \in Nat
        <4>1. /\ Users(s)' \subseteq Requests
          BY DEF Users
        <4>2. QED
          BY <4>1, RequestsAssumption, FS_Subset, FS_CardinalityType
      <3>3. QED
        BY <1>5, <2>1, <3>1, <3>2 DEF CountOK
    <2>4. QED
      BY <1>1, <2>2, <2>3
  <1>8. LoadOK'
    BY <1>0, <1>1, LoadFrame, ProcessesAssumption DEF tableVars
  <1>9. QED
    BY <1>3, <1>4, <1>6, <1>7, <1>8 DEF IInv

\* The release takes back the connection of a state still in the table.
LEMMA FinishReleaseKeeps ==
  ASSUME IInv, NEW r \in Requests, NEW ok \in BOOLEAN, FinishRelease(r, ok)
  PROVE  IInv'
  <1> DEFINE s == server[r]
             after == IF ok THEN AfterSuccess(Get(breakers, s))
                            ELSE AfterFailure(Get(breakers, s))
  <1>0. /\ TypeOK /\ pc[r] = "releasing" /\ s \in Servers /\ BreakersOK
        /\ current[r] => s \in Names(runtime)
        /\ Goto(r, "done")
        /\ conns' = IF current[r] THEN [conns EXCEPT ![s] = @ - 1] ELSE conns
        /\ breakers' = Update(breakers, s, after)
        /\ UNCHANGED <<tableVars, healthy, algorithm, scanVars, server, current>>
    BY DEF IInv, TypeOK, FinishRelease, Released, UseOK, BreakersOK
  <1>1. /\ pc'[r] = "done"
        /\ \A y \in Requests \cup Loaders : y # r => pc'[y] = pc[y]
    BY <1>0, GotoOthers
  <1>2. BreakersOK'
    <2>1. after \in Breaker
      BY <1>0, GetIsBreaker, BreakerTypes
    <2>2. QED
      BY <1>0, <2>1, UpdateKeepsBreakers
  <1>3. /\ conns' \in [Servers -> Int]
        /\ current[r] => conns'[s] = conns[s] - 1
        /\ ~ current[r] => conns' = conns
        /\ \A t \in Servers : t # s => conns'[t] = conns[t]
    BY <1>0 DEF TypeOK
  <1>4. TypeOK'
    BY <1>0, <1>2, <1>3, GotoType DEF TypeOK, tableVars, scanVars, BreakersOK
  <1>5. ASSUME NEW q \in Requests
        PROVE  SelectOK(q)'
    BY <1>0, <1>1, SelectFrame DEF tableVars, scanVars
  <1>6. Names(runtime)' = Names(runtime)
    BY <1>0, SameTable DEF tableVars
  <1>7. ASSUME NEW q \in Requests
        PROVE  UseOK(q)'
    BY <1>0, <1>1, <1>6 DEF IInv, UseOK, tableVars
  <1>8. ASSUME NEW t \in Servers
        PROVE  CountOK(t)'
    <2>1. CountOK(t) /\ reloaded' = reloaded
      BY <1>0 DEF IInv, tableVars
    <2>2. CASE t = s /\ current[r]
      <3>1. Users(t)' = Users(t) \ {r} /\ r \in Users(t)
        BY <1>0, <1>1, <2>2 DEF Users
      <3>2. Cardinality(Users(t)') = Cardinality(Users(t)) - 1
        BY <3>1, UsersAreFinite, FS_RemoveElement
      <3>3. conns[t] \in Int /\ Cardinality(Users(t)) \in Nat
        BY <1>0, UsersAreFinite DEF TypeOK
      <3>4. QED
        BY <1>0, <1>3, <1>6, <2>1, <2>2, <3>2, <3>3 DEF CountOK
    <2>3. CASE ~ (t = s /\ current[r])
      <3>1. Users(t)' = Users(t) /\ conns'[t] = conns[t]
        BY <1>0, <1>1, <1>3, <2>3 DEF Users
      <3>2. QED
        BY <1>6, <2>1, <3>1 DEF CountOK
    <2>4. QED
      BY <2>2, <2>3
  <1>9. LoadOK'
    BY <1>0, <1>1, LoadFrame, ProcessesAssumption DEF tableVars
  <1>10. QED
    BY <1>4, <1>5, <1>7, <1>8, <1>9 DEF IInv

\* Reading the table from storage keeps IInv.
LEMMA FetchKeeps ==
  ASSUME IInv, NEW l \in Loaders, Fetch(l)
  PROVE  IInv'
  <1>0. /\ TypeOK /\ LoadOK /\ pc[l] = "idle" /\ Goto(l, "loading")
        /\ fetched' = [fetched EXCEPT ![l] = stored]
        /\ UNCHANGED <<stored, runtime, reloaded, rrCounters, conns, breakers,
                       healthy, algorithm, scanVars, server, current>>
    BY DEF IInv, Fetch
  <1>1. /\ pc'[l] = "loading"
        /\ \A y \in Requests \cup Loaders : y # l => pc'[y] = pc[y]
        /\ \A r \in Requests : pc'[r] = pc[r]
    BY <1>0, GotoOthers, ProcessesAssumption
  <1>2. /\ fetched' \in [Loaders -> (1 .. Len(Tables)) \cup {NoTable}]
        /\ fetched'[l] \in 1 .. Len(Tables)
        /\ \A k \in Loaders : k # l => fetched'[k] = fetched[k]
    BY <1>0 DEF TypeOK
  <1>3. TypeOK'
    BY <1>0, <1>2, GotoType DEF TypeOK, scanVars
  <1>4. ASSUME NEW q \in Requests
        PROVE  SelectOK(q)'
    BY <1>0, <1>1, SelectFrame DEF scanVars
  <1>5. /\ \A q \in Requests : UseOK(q)'
        /\ \A s \in Servers : CountOK(s)'
    BY <1>0, <1>1, CountFrame
  <1>6. LoadOK'
    BY <1>0, <1>1, <1>2 DEF LoadOK, Populated, Enrolled
  <1>7. QED
    BY <1>3, <1>4, <1>5, <1>6 DEF IInv

\* A reload starts every count at zero and detaches the releases under way.
LEMMA InstallKeeps ==
  ASSUME IInv, NEW l \in Loaders, Install(l)
  PROVE  IInv'
  <1> DEFINE v == fetched[l]
  <1>0. /\ TypeOK /\ LoadOK /\ pc[l] = "loading" /\ Selecting = {}
        /\ runtime' = v /\ reloaded' = TRUE
        /\ conns' = [s \in Servers |-> 0]
        /\ rrCounters' = [g \in DOMAIN rrCounters \cup Populated(v) |->
                            IF g \in DOMAIN rrCounters THEN rrCounters[g] ELSE 0]
        /\ current' = [r \in Requests |-> FALSE]
        /\ fetched' = [fetched EXCEPT ![l] = NoTable]
        /\ Goto(l, "done")
        /\ UNCHANGED <<stored, breakers, healthy, algorithm, scanVars, server>>
    BY DEF IInv, Install, WriteLock, FreshConnections, CountersWith
  <1>1. /\ pc'[l] = "done"
        /\ \A y \in Requests \cup Loaders : y # l => pc'[y] = pc[y]
        /\ \A r \in Requests : pc'[r] = pc[r]
    BY <1>0, GotoOthers, ProcessesAssumption
  <1>2. /\ v \in 1 .. Len(Tables)
        /\ Populated(v) \subseteq Hostgroups
    BY <1>0 DEF LoadOK, Populated
  <1>3. /\ DOMAIN rrCounters' \subseteq Hostgroups
        /\ \A g \in DOMAIN rrCounters' : rrCounters'[g] \in Nat
        /\ Populated(v) \subseteq DOMAIN rrCounters'
    BY <1>0, <1>2 DEF TypeOK
  <1>4. /\ fetched' \in [Loaders -> (1 .. Len(Tables)) \cup {NoTable}]
        /\ \A k \in Loaders : k # l => fetched'[k] = fetched[k]
    BY <1>0 DEF TypeOK
  <1>5. TypeOK'
    BY <1>0, <1>2, <1>3, <1>4, GotoType DEF TypeOK, scanVars
  <1>6. ASSUME NEW q \in Requests
        PROVE  SelectOK(q)'
    BY <1>0, <1>1 DEF Selecting, SelectOK
  <1>7. ASSUME NEW q \in Requests
        PROVE  UseOK(q)'
    BY <1>0, <1>1 DEF IInv, UseOK
  <1>8. ASSUME NEW s \in Servers
        PROVE  CountOK(s)'
    <2>1. Users(s)' \subseteq Requests
      BY DEF Users
    <2>2. Cardinality(Users(s)') \in Nat
      BY <2>1, RequestsAssumption, FS_Subset, FS_CardinalityType
    <2>3. QED
      BY <1>0, <2>2 DEF CountOK
  <1>9. LoadOK'
    <2>1. ASSUME NEW k \in Loaders, pc'[k] = "loading"
          PROVE  fetched'[k] \in 1 .. Len(Tables)
      BY <1>0, <1>1, <1>4, <2>1 DEF LoadOK
    <2>2. Populated(runtime)' = Populated(v)
      BY <1>0 DEF Populated, Enrolled
    <2>3. QED
      BY <1>3, <2>1, <2>2 DEF LoadOK
  <1>10. QED
    BY <1>5, <1>6, <1>7, <1>8, <1>9 DEF IInv

\* What the environment changes bears on types only.
LEMMA EnvironmentKeeps ==
  ASSUME IInv, TypeOK',
         UNCHANGED <<runtime, fetched, reloaded, rrCounters, conns, pc, scanVars,
                     server, current>>
  PROVE  IInv'
  <1>1. ASSUME NEW q \in Requests
        PROVE  SelectOK(q)'
    BY SelectFrame DEF scanVars
  <1>2. /\ \A q \in Requests : UseOK(q)'
        /\ \A s \in Servers : CountOK(s)'
    BY CountFrame
  <1>3. LoadOK'
    BY LoadFrame
  <1>4. QED
    BY <1>1, <1>2, <1>3 DEF IInv

\* The cooling of a breaker keeps IInv.
LEMMA TimeoutKeeps ==
  ASSUME IInv, NEW s \in Servers, Timeout(s)
  PROVE  IInv'
  <1>1. TypeOK /\ BreakersOK
    BY DEF IInv, TypeOK, BreakersOK
  <1>2. AfterTimeout(breakers[s]) \in Breaker
    BY <1>1, BreakerTypes DEF Timeout, BreakersOK
  <1>3. BreakersOK'
    BY <1>1, <1>2, UpdateKeepsBreakers DEF Timeout
  <1>4. TypeOK'
    BY <1>1, <1>3 DEF Timeout, TypeOK, BreakersOK, tableVars, scanVars
  <1>5. QED
    BY <1>4, EnvironmentKeeps DEF Timeout, tableVars

\* IInv is inductive: every step keeps it.
LEMMA IInvPreserved ==
  ASSUME IInv, [Next]_vars
  PROVE  IInv'
  <1>1. ASSUME NEW r \in Requests, SelectStep(r)
        PROVE  IInv'
    BY <1>1, BeginSelectKeeps, CheckHealthKeeps, CheckCircuitKeeps,
       FoundNoneKeeps, PickRoundRobinKeeps, PickOtherKeeps, CountKeeps
       DEF SelectStep
  <1>2. ASSUME NEW r \in Requests, ReleaseStep(r)
        PROVE  IInv'
    BY <1>2, BeginReleaseKeeps, FinishReleaseKeeps DEF ReleaseStep
  <1>3. ASSUME NEW l \in Loaders, Fetch(l) \/ Install(l)
        PROVE  IInv'
    BY <1>3, FetchKeeps, InstallKeeps
  <1>4. ASSUME NEW alg \in Algorithms, SetAlgorithm(alg)
        PROVE  IInv'
    <2>1. TypeOK'
      BY <1>4 DEF IInv, TypeOK, SetAlgorithm, tableVars, scanVars
    <2>2. QED
      BY <1>4, <2>1, EnvironmentKeeps DEF SetAlgorithm, tableVars
  <1>5. CASE Edit
    <2>1. TypeOK'
      BY <1>5, TablesAssumption DEF IInv, TypeOK, Edit, tableVars, scanVars
    <2>2. QED
      BY <1>5, <2>1, EnvironmentKeeps DEF Edit
  <1>6. ASSUME NEW s \in Servers, HealthChange(s)
        PROVE  IInv'
    <2>1. TypeOK'
      BY <1>6 DEF IInv, TypeOK, HealthChange, tableVars, scanVars
    <2>2. QED
      BY <1>6, <2>1, EnvironmentKeeps DEF HealthChange, tableVars
  <1>7. ASSUME NEW s \in Servers, Timeout(s)
        PROVE  IInv'
    BY <1>7, TimeoutKeeps
  <1>8. CASE UNCHANGED vars
    <2>1. TypeOK'
      BY <1>8 DEF IInv, TypeOK, vars, tableVars, scanVars
    <2>2. QED
      BY <1>8, <2>1, EnvironmentKeeps DEF vars, tableVars
  <1>9. QED
    BY <1>1, <1>2, <1>3, <1>4, <1>5, <1>6, <1>7, <1>8 DEF Next

\* The initial state satisfies IInv.
LEMMA InitEstablishes == Init => IInv
  <1> SUFFICES ASSUME Init PROVE IInv
    OBVIOUS
  <1>1. Len(Tables) \in Nat /\ 1 \in 1 .. Len(Tables)
    BY TablesAssumption
  <1>2. TypeOK
    <2>1. /\ stored \in 1 .. Len(Tables)
          /\ runtime \in 1 .. Len(Tables)
          /\ fetched \in [Loaders -> (1 .. Len(Tables)) \cup {NoTable}]
          /\ reloaded \in BOOLEAN
      BY <1>1 DEF Init
    <2>2. /\ DOMAIN rrCounters \subseteq Hostgroups
          /\ \A g \in DOMAIN rrCounters : rrCounters[g] \in Nat
      BY DEF Init, Populated
    <2>3. /\ conns \in [Servers -> Int]
          /\ DOMAIN breakers \subseteq Servers
          /\ \A s \in DOMAIN breakers : breakers[s] \in Breaker
          /\ healthy \subseteq Servers
          /\ algorithm \in Algorithms
      BY DEF Init, Algorithms
    <2>4. /\ group \in [Requests -> Hostgroups]
          /\ left \in [Requests -> SUBSET Nat]
          /\ available \in [Requests -> SUBSET Nat]
          /\ chosen \in [Requests -> Servers \cup {NoServer}]
          /\ server \in [Requests -> Servers \cup {NoServer}]
          /\ current \in [Requests -> BOOLEAN]
      BY DefaultAssumption DEF Init
    <2>5. list \in [Requests -> [table : 1 .. Len(Tables), group : Hostgroups]]
      BY <1>1, DefaultAssumption DEF Init
    <2>6. pc \in [Requests \cup Loaders ->
               {"idle", "filter", "allow", "chosen", "using", "releasing",
                "done", "refused", "panicked", "loading"}]
      BY DEF Init
    <2>7. QED
      BY <2>1, <2>2, <2>3, <2>4, <2>5, <2>6 DEF TypeOK
  <1>3. \A s : Users(s) = {}
    BY DEF Init, Users
  <1>4. ASSUME NEW s \in Servers
        PROVE  CountOK(s)
    <2>1. conns[s] = 0
      BY DEF Init
    <2>2. Cardinality(Users(s)) = 0
      BY <1>3, FS_EmptySet
    <2>3. QED
      BY <2>1, <2>2 DEF CountOK
  <1>5. LoadOK
    BY ProcessesAssumption DEF Init, LoadOK
  <1>6. \A r \in Requests : SelectOK(r) /\ UseOK(r)
    BY DEF Init, SelectOK, UseOK
  <1>7. QED
    BY <1>2, <1>4, <1>5, <1>6 DEF IInv

\* IInv holds in every reachable state.
LEMMA Inductive == Spec => []IInv
  BY InitEstablishes, IInvPreserved, PTL DEF Spec

-----------------------------------------------------------------------------
(* Theorems                                                                *)

\* Every variable of the balancer keeps its type, in particular no release or
\* reload leaves the name, counter or breaker of a server that never was.
THEOREM BalancerTypes == Spec => []TypeOK
  <1>1. IInv => TypeOK
    BY DEF IInv
  <1>2. QED
    BY <1>1, Inductive, PTL

\* Whatever reloads overlap with releases (LoadServers, ReleaseServer), a
\* connection count never exceeds the requests that use the server.
THEOREM NeverPhantomLoad == Spec => []NoPhantomLoad
  <1>1. IInv => NoPhantomLoad
    BY DEF IInv, CountOK, NoPhantomLoad
  <1>2. QED
    BY <1>1, Inductive, PTL

\* Selections and releases alone (SelectServer, ReleaseServer) keep every
\* connection count exact, however they interleave.
THEOREM ExactWithoutReload == Spec => []ExactUntilReload
  <1>1. IInv => ExactUntilReload
    BY DEF IInv, CountOK, ExactUntilReload
  <1>2. QED
    BY <1>1, Inductive, PTL

\* The read lock of SelectServer against the write lock of LoadServers: a
\* selection filters, picks and counts on one and the same table.
THEOREM SelectionsSeeOneTable == Spec => []SelectionSeesOneTable
  <1>1. IInv => SelectionSeesOneTable
    BY DEF IInv, SelectOK, SelectionSeesOneTable, Selecting
  <1>2. QED
    BY <1>1, Inductive, PTL

\* LoadServers adds the counters of the hostgroups it adds, so that round
\* robin finds one for every hostgroup with servers.
THEOREM CountersForPopulated == Spec => []PopulatedHaveCounters
  <1>1. IInv => PopulatedHaveCounters
    BY DEF IInv, LoadOK, PopulatedHaveCounters
  <1>2. QED
    BY <1>1, Inductive, PTL

-----------------------------------------------------------------------------
(* Balancer implements AtomicBalancer                                      *)

BalancerView == <<runtime, Held, conns>>

LooksAtomic == [Atomic!Next]_BalancerView

\* Where a request holds a server, or gives it back.
HoldLabels == {"using", "releasing"}

\* A process that moves elsewhere changes nothing callers see.
LEMMA ElsewhereStutters ==
  ASSUME TypeOK, NEW x \in Requests \cup Loaders, NEW label, Goto(x, label),
         x \in Requests => pc[x] \notin HoldLabels, label \notin HoldLabels,
         UNCHANGED <<runtime, conns, server, current>>
  PROVE  UNCHANGED BalancerView
  <1>1. \A r \in Requests :
          \/ pc'[r] = pc[r]
          \/ pc[r] \notin HoldLabels /\ pc'[r] \notin HoldLabels
    BY DEF TypeOK, Goto
  <1>2. Held' = Held
    BY <1>1 DEF Held, HoldLabels
  <1>3. QED
    BY <1>2 DEF BalancerView

\* What one request does leaves what the others hold.
LEMMA OthersHold ==
  ASSUME TypeOK, NEW r \in Requests, NEW label, Goto(r, label)
  PROVE  pc'[r] = label /\ \A q \in Requests : q # r => pc'[q] = pc[q]
  BY DEF TypeOK, Goto

\* The steps of a selection before the connection is counted.
LEMMA FilteringStutters ==
  ASSUME IInv, NEW r \in Requests,
         \/ \E g \in Hostgroups : BeginSelect(r, g)
         \/ CheckHealth(r) \/ CheckCircuit(r) \/ FoundNone(r)
         \/ PickRoundRobin(r) \/ PickOther(r)
  PROVE  UNCHANGED BalancerView
  <1>0. TypeOK
    BY DEF IInv
  <1>1. /\ pc[r] \in {"idle", "filter", "allow"}
        /\ UNCHANGED <<runtime, conns, server, current>>
    BY DEF BeginSelect, CheckHealth, CheckCircuit, FoundNone, PickRoundRobin,
           PickOther, tableVars
  <1>2. \/ pc' = pc
        \/ \E label \in {"refused", "filter", "allow", "chosen", "panicked"} :
             Goto(r, label)
    BY DEF BeginSelect, CheckHealth, CheckCircuit, FoundNone, PickRoundRobin,
           PickOther, Choose
  <1>3. CASE pc' = pc
    BY <1>1, <1>3 DEF BalancerView, Held
  <1>4. ASSUME NEW label \in {"refused", "filter", "allow", "chosen", "panicked"},
               Goto(r, label)
        PROVE  UNCHANGED BalancerView
    BY <1>0, <1>1, <1>4, ElsewhereStutters DEF HoldLabels
  <1>5. QED
    BY <1>2, <1>3, <1>4

\* Counting the connection is the moment of the selection.
LEMMA CountTakes ==
  ASSUME IInv, NEW r \in Requests, Count(r)
  PROVE  LooksAtomic
  <1> DEFINE g == Serving(runtime, group[r])
  <1>0. /\ TypeOK /\ SelectOK(r) /\ pc[r] = "chosen" /\ Goto(r, "using")
        /\ conns' = [conns EXCEPT ![chosen[r]] = @ + 1]
        /\ server' = [server EXCEPT ![r] = chosen[r]]
        /\ UNCHANGED <<runtime, current>>
    BY DEF IInv, Count, tableVars
  <1>1. /\ list[r] = [table |-> runtime, group |-> g]
        /\ available[r] \subseteq Enrolled(runtime, g)
        /\ chosen[r] \in Names(runtime)
        /\ \E i \in available[r] :
             RowAt(r, i).name = chosen[r] /\ RowAt(r, i).status = "ONLINE"
    BY <1>0 DEF SelectOK
  <1>2. runtime \in DOMAIN Tables /\ g \in Hostgroups
    <2>1. runtime \in 1 .. Len(Tables) /\ group[r] \in Hostgroups
      BY <1>0 DEF TypeOK
    <2>2. DOMAIN Tables = 1 .. Len(Tables)
      BY TablesAssumption
    <2>3. QED
      BY <2>1, <2>2, ServingIsHostgroup
  <1> HIDE DEF g
  <1>3. chosen[r] \in OnlineNames[runtime]
    <2>1. PICK i \in Enrolled(runtime, g) :
            Tables[runtime][g][i].name = chosen[r]
            /\ Tables[runtime][g][i].status = "ONLINE"
      BY <1>1 DEF RowAt
    <2>2. i \in DOMAIN Tables[runtime][g]
      BY DEF Enrolled
    <2>3. QED
      BY <1>1, <1>2, <2>1, <2>2 DEF OnlineNames
  <1>4. /\ pc'[r] = "using" /\ server'[r] = chosen[r]
        /\ \A q \in Requests : q # r => pc'[q] = pc[q] /\ server'[q] = server[q]
    BY <1>0, OthersHold DEF TypeOK
  <1>5. Held' = [Held EXCEPT ![r] = chosen[r]]
    BY <1>0, <1>4 DEF Held
  <1>6. Held[r] = NoServer
    BY <1>0 DEF Held
  <1>7. Atomic!Take(r)
    BY <1>0, <1>3, <1>5, <1>6 DEF Atomic!Take
  <1>8. QED
    BY <1>7 DEF LooksAtomic, Atomic!Next

\* A release begins: what it holds is in the table, or it ends here.
LEMMA BeginReleaseGives ==
  ASSUME IInv, NEW r \in Requests, BeginRelease(r)
  PROVE  LooksAtomic
  <1>0. /\ TypeOK /\ pc[r] = "using" /\ server[r] \in Servers
        /\ UNCHANGED <<runtime, conns, server>>
    BY DEF IInv, UseOK, BeginRelease, tableVars
  <1>1. CASE server[r] \in Names(runtime)
    <2>1. /\ pc'[r] = "releasing" /\ current'[r]
          /\ \A q \in Requests : q # r => pc'[q] = pc[q] /\ current'[q] = current[q]
      BY <1>0, <1>1, OthersHold DEF BeginRelease, TypeOK
    <2>2. Held' = Held
      BY <1>0, <2>1 DEF Held
    <2>3. QED
      BY <1>0, <2>2 DEF LooksAtomic, BalancerView
  <1>2. CASE server[r] \notin Names(runtime)
    <2>1. /\ pc'[r] = "done" /\ current' = current
          /\ \A q \in Requests : q # r => pc'[q] = pc[q]
      BY <1>0, <1>2, OthersHold DEF BeginRelease
    <2>2. Held[r] = server[r] /\ Held[r] # NoServer
      BY <1>0, NoServerAssumption DEF Held
    <2>3. Held' = [Held EXCEPT ![r] = NoServer]
      BY <1>0, <2>1 DEF Held
    <2>4. Held[r] \notin ListedNames[runtime]
      <3>1. runtime \in DOMAIN Tables
        BY <1>0, TablesAssumption DEF TypeOK
      <3>2. QED
        BY <1>2, <2>2, <3>1 DEF ListedNames
    <2>5. Atomic!Give(r)
      BY <1>0, <2>2, <2>3, <2>4 DEF Atomic!Give
    <2>6. QED
      BY <2>5 DEF LooksAtomic, Atomic!Next
  <1>3. QED
    BY <1>1, <1>2

\* A release ends, unless a reload has ended it before.
LEMMA FinishReleaseGives ==
  ASSUME IInv, NEW r \in Requests, NEW ok \in BOOLEAN, FinishRelease(r, ok)
  PROVE  LooksAtomic
  <1>0. /\ TypeOK /\ UseOK(r) /\ pc[r] = "releasing" /\ server[r] \in Servers
        /\ conns' = Released(r)
        /\ UNCHANGED <<runtime, server, current>>
    BY DEF IInv, UseOK, FinishRelease, tableVars
  <1>1. pc'[r] = "done" /\ \A q \in Requests : q # r => pc'[q] = pc[q]
    BY <1>0, OthersHold DEF FinishRelease
  <1>2. CASE current[r]
    <2>1. Held[r] = server[r] /\ Held[r] # NoServer
      BY <1>0, <1>2, NoServerAssumption DEF Held
    <2>2. Held' = [Held EXCEPT ![r] = NoServer]
      BY <1>0, <1>1 DEF Held
    <2>3. Held[r] \in ListedNames[runtime]
      <3>1. runtime \in DOMAIN Tables
        BY <1>0, TablesAssumption DEF TypeOK
      <3>2. server[r] \in Names(runtime)
        BY <1>0, <1>2 DEF UseOK
      <3>3. QED
        BY <2>1, <3>1, <3>2 DEF ListedNames
    <2>4. conns' = [conns EXCEPT ![Held[r]] = @ - 1]
      BY <1>0, <1>2, <2>1 DEF Released
    <2>5. Atomic!Give(r)
      BY <1>0, <2>1, <2>2, <2>3, <2>4 DEF Atomic!Give
    <2>6. QED
      BY <2>5 DEF LooksAtomic, Atomic!Next
  <1>3. CASE ~ current[r]
    <2>1. Held' = Held
      BY <1>0, <1>1, <1>3 DEF Held
    <2>2. conns' = conns
      BY <1>0, <1>3 DEF Released
    <2>3. QED
      BY <1>0, <2>1, <2>2 DEF LooksAtomic, BalancerView
  <1>4. QED
    BY <1>2, <1>3

\* A reload takes over from the releases under way.
LEMMA InstallReplaces ==
  ASSUME IInv, NEW l \in Loaders, Install(l)
  PROVE  LooksAtomic
  <1>0. /\ TypeOK /\ l \notin Requests
        /\ runtime' \in 1 .. Len(Tables)
        /\ conns' = [s \in Servers |-> 0]
        /\ current' = [r \in Requests |-> FALSE]
        /\ server' = server /\ Goto(l, "done")
    BY ProcessesAssumption DEF IInv, LoadOK, Install, FreshConnections
  <1>1. \A r \in Requests : pc'[r] = pc[r]
    BY <1>0 DEF TypeOK, Goto
  <1>2. DOMAIN Held' = Requests /\ \A r \in Requests : Held'[r] \in {Held[r], NoServer}
    BY <1>0, <1>1 DEF Held
  <1>3. runtime' \in DOMAIN ListedNames
    BY <1>0, TablesAssumption DEF ListedNames
  <1>4. Atomic!Replace
    BY <1>0, <1>2, <1>3 DEF Atomic!Replace
  <1>5. QED
    BY <1>4 DEF LooksAtomic, Atomic!Next

LEMMA NextLooksAtomic ==
  ASSUME IInv, [Next]_vars
  PROVE  LooksAtomic
  <1>1. ASSUME NEW r \in Requests, SelectStep(r)
        PROVE  LooksAtomic
    BY <1>1, FilteringStutters, CountTakes DEF SelectStep, LooksAtomic
  <1>2. ASSUME NEW r \in Requests, ReleaseStep(r)
        PROVE  LooksAtomic
    BY <1>2, BeginReleaseGives, FinishReleaseGives DEF ReleaseStep
  <1>3. ASSUME NEW l \in Loaders, Fetch(l)
        PROVE  LooksAtomic
    <2>1. /\ TypeOK /\ l \notin Requests /\ Goto(l, "loading")
          /\ UNCHANGED <<runtime, conns, server, current>>
      BY <1>3, ProcessesAssumption DEF IInv, Fetch
    <2>2. QED
      BY <2>1, ElsewhereStutters DEF LooksAtomic, HoldLabels
  <1>4. CASE \/ \E alg \in Algorithms : SetAlgorithm(alg)
             \/ Edit
             \/ \E s \in Servers : HealthChange(s) \/ Timeout(s)
             \/ UNCHANGED vars
    <2>1. UNCHANGED <<runtime, conns, pc, server, current>>
      BY <1>4 DEF SetAlgorithm, Edit, HealthChange, Timeout, vars, tableVars
    <2>2. QED
      BY <2>1 DEF LooksAtomic, BalancerView, Held
  <1>5. QED
    BY <1>1, <1>2, <1>3, <1>4, InstallReplaces DEF Next

LEMMA InitLooksAtomic == Init => Atomic!Init
  <1> SUFFICES ASSUME Init
               PROVE  Atomic!Init
    OBVIOUS
  <1>1. runtime \in DOMAIN ListedNames
    BY TablesAssumption DEF Init, ListedNames
  <1>2. Held = [r \in Requests |-> NoServer]
    BY DEF Init, Held
  <1>3. QED
    BY <1>1, <1>2 DEF Init, Atomic!Init

\* SelectServer, ReleaseServer and LoadServers, in as many steps as the code
\* takes, look like one step each, which is how Proxy has them.
THEOREM BalancerLooksAtomic == Spec => ImplementsAtomicBalancer
  <1>1. IInv /\ [Next]_vars => [Atomic!Next]_<<runtime, Held, conns>>
    BY NextLooksAtomic DEF LooksAtomic, BalancerView
  <1>2. QED
    BY <1>1, InitLooksAtomic, Inductive, PTL
    DEF Spec, ImplementsAtomicBalancer, Atomic!Spec

-----------------------------------------------------------------------------
(* Sums: induction is by the smallest size of a set that fails             *)

Total(f, S) == SumFunctionOnSet(f, S)

\* A non-empty set of naturals has a smallest member.
LEMMA SmallestExists ==
  ASSUME NEW S \in SUBSET Nat, S # {}
  PROVE  \E m \in S : \A n \in S : m <= n
  <1> DEFINE R == OpToRel(<, Nat)
  <1>1. PICK m \in S : \A n \in S : ~ (<<n, m>> \in R)
    <2>1. IsWellFoundedOn(R, Nat)
      BY NatLessThanWellFounded
    <2> HIDE DEF R
    <2> QED
      BY <2>1, WFMin
  <1>2. ASSUME NEW n \in S
        PROVE  m <= n
    <2>1. <<n, m>> \in R <=> n < m
      BY DEF OpToRel
    <2> HIDE DEF R
    <2>2. ~ (n < m)
      BY <1>1, <2>1
    <2>3. QED
      BY <2>2
  <1>3. QED
    BY <1>2

\* The member of s that a sum takes first.
One(s) == CHOOSE x \in s : TRUE

\* What a sum is, given the sums g of smaller sets.
SumFrom(f, s, g) == IF s = {} THEN 0 ELSE f[One(s)] + g[s \ {One(s)}]

\* g has the sums of the subsets of S.
Solves(g, f, S) == \A s \in SUBSET S : g[s] = SumFrom(f, s, g)

LEMMA OneIsMember == ASSUME NEW s, s # {} PROVE One(s) \in s
  BY DEF One

LEMMA OneLess ==
  ASSUME NEW s, IsFiniteSet(s), NEW x \in s
  PROVE  /\ IsFiniteSet(s \ {x})
         /\ Cardinality(s) \in Nat /\ Cardinality(s \ {x}) = Cardinality(s) - 1
         /\ Cardinality(s) > 0
  <1>1. IsFiniteSet(s \ {x}) /\ Cardinality(s \ {x}) = Cardinality(s) - 1
    BY FS_RemoveElement
  <1>2. Cardinality(s) \in Nat /\ Cardinality(s \ {x}) \in Nat
    BY <1>1, FS_CardinalityType
  <1>3. QED
    BY <1>1, <1>2

LEMMA TotalUnfolds ==
  ASSUME NEW f, NEW S
  PROVE  Total(f, S) = (CHOOSE g : g = [s \in SUBSET S |-> SumFrom(f, s, g)])[S]
  BY DEF Total, SumFunctionOnSet, FoldFunctionOnSet, MapThenFoldSet, One, SumFrom

\* The recursion has a solution on the subsets of a finite set.
LEMMA SumsExist ==
  ASSUME NEW f, NEW S, IsFiniteSet(S)
  PROVE  \E g : g = [s \in SUBSET S |-> SumFrom(f, s, g)] /\ Solves(g, f, S)
  <1> DEFINE UpTo(n) == {s \in SUBSET S : Cardinality(s) <= n}
             Solved(n) == \E g : DOMAIN g = UpTo(n) /\ \A s \in UpTo(n) : g[s] = SumFrom(f, s, g)
             Bad == {n \in Nat : ~ Solved(n)}
  <1>1. \A s \in SUBSET S : IsFiniteSet(s) /\ Cardinality(s) \in Nat
    BY FS_Subset, FS_CardinalityType
  <1>2. Solved(0)
    <2> DEFINE g == [s \in UpTo(0) |-> 0]
    <2>1. \A s \in UpTo(0) : s = {}
      BY <1>1, FS_EmptySet
    <2>2. \A s \in UpTo(0) : g[s] = SumFrom(f, s, g)
      BY <2>1 DEF SumFrom
    <2>3. DOMAIN g = UpTo(0)
      OBVIOUS
    <2> HIDE DEF g, UpTo
    <2>4. QED
      BY <2>2, <2>3
  <1>3. ASSUME NEW n \in Nat, Solved(n)
        PROVE  Solved(n + 1)
    <2>1. PICK g : DOMAIN g = UpTo(n) /\ \A s \in UpTo(n) : g[s] = SumFrom(f, s, g)
      BY <1>3
    <2> DEFINE h == [s \in UpTo(n + 1) |-> SumFrom(f, s, g)]
    <2>2. ASSUME NEW s \in UpTo(n + 1)
          PROVE  h[s] = SumFrom(f, s, h)
      <3>1. CASE s = {}
        BY <3>1 DEF SumFrom
      <3>2. CASE s # {}
        <4> DEFINE t == s \ {One(s)}
        <4>1. t \in UpTo(n) /\ t \in UpTo(n + 1)
          BY <1>1, <3>2, OneIsMember, OneLess
        <4>2. h[t] = g[t]
          BY <2>1, <4>1
        <4>3. SumFrom(f, s, h) = SumFrom(f, s, g)
          BY <3>2, <4>2 DEF SumFrom
        <4>4. QED
          BY <4>3
      <3>3. QED
        BY <3>1, <3>2
    <2>3. DOMAIN h = UpTo(n + 1)
      OBVIOUS
    <2> HIDE DEF h, UpTo
    <2>4. QED
      BY <2>2, <2>3
  <1> HIDE DEF Solved
  <1>4. Bad = {}
    <2> SUFFICES ASSUME Bad # {}
                 PROVE  FALSE
      OBVIOUS
    <2>1. PICK m \in Bad : \A n \in Bad : m <= n
      BY SmallestExists
    <2>2. m # 0 /\ m - 1 \in Nat
      BY <1>2
    <2>3. m - 1 \notin Bad
      BY <2>1, <2>2
    <2>4. Solved((m - 1) + 1)
      BY <1>3, <2>2, <2>3
    <2>5. (m - 1) + 1 = m
      OBVIOUS
    <2>6. QED
      BY <2>4, <2>5
  <1>5. Solved(Cardinality(S))
    BY <1>1, <1>4
  <1>6. UpTo(Cardinality(S)) = SUBSET S
    BY FS_Subset
  <1>7. PICK g : \A s \in SUBSET S : g[s] = SumFrom(f, s, g)
    BY <1>5, <1>6 DEF Solved
  <1> DEFINE h == [s \in SUBSET S |-> g[s]]
  <1>8. ASSUME NEW s \in SUBSET S
        PROVE  h[s] = SumFrom(f, s, h)
    BY <1>7 DEF SumFrom
  <1>9. h = [s \in SUBSET S |-> SumFrom(f, s, h)]
    BY <1>8
  <1>10. Solves(h, f, S)
    BY <1>8 DEF Solves
  <1>11. QED
    BY <1>9, <1>10

\* The recursion has one solution.
LEMMA SumsAgree ==
  ASSUME NEW f, NEW T, IsFiniteSet(T), NEW g, NEW h,
         Solves(g, f, T), Solves(h, f, T)
  PROVE  \A s \in SUBSET T : g[s] = h[s]
  <1> DEFINE Bad == {n \in Nat : \E s \in SUBSET T : Cardinality(s) = n /\ g[s] # h[s]}
  <1>1. \A s \in SUBSET T : IsFiniteSet(s) /\ Cardinality(s) \in Nat
    BY FS_Subset, FS_CardinalityType
  <1> SUFFICES ASSUME Bad # {}
               PROVE  FALSE
    BY <1>1
  <1>2. PICK m \in Bad : \A n \in Bad : m <= n
    BY SmallestExists
  <1>3. PICK s \in SUBSET T : Cardinality(s) = m /\ g[s] # h[s]
    BY <1>2
  <1>4. s # {}
    BY <1>3 DEF SumFrom, Solves
  <1> DEFINE t == s \ {One(s)}
  <1>5. t \in SUBSET T /\ Cardinality(t) = m - 1 /\ m - 1 \in Nat
    BY <1>1, <1>3, <1>4, OneIsMember, OneLess
  <1>6. m - 1 \notin Bad
    BY <1>2, <1>5
  <1>7. g[t] = h[t]
    BY <1>5, <1>6
  <1>8. QED
    BY <1>3, <1>4, <1>7 DEF SumFrom, Solves

\* Any solution on a set tells the sums of its subsets.
LEMMA SolutionIsSum ==
  ASSUME NEW f, NEW S, IsFiniteSet(S), NEW g, Solves(g, f, S), NEW T \in SUBSET S
  PROVE  Total(f, T) = g[T]
  <1>1. IsFiniteSet(T)
    BY FS_Subset
  <1> DEFINE h == CHOOSE c : c = [s \in SUBSET T |-> SumFrom(f, s, c)]
  <1>2. h = [s \in SUBSET T |-> SumFrom(f, s, h)]
    BY <1>1, SumsExist
  <1>3. Total(f, T) = h[T]
    BY TotalUnfolds
  <1> HIDE DEF h
  <1>4. Solves(h, f, T)
    BY <1>2 DEF Solves
  <1>5. Solves(g, f, T)
    BY DEF Solves
  <1>6. \A s \in SUBSET T : g[s] = h[s]
    BY <1>1, <1>4, <1>5, SumsAgree
  <1>7. QED
    BY <1>3, <1>6

\* A sum takes its first member, and then the rest.
LEMMA SumStep ==
  ASSUME NEW f, NEW S, IsFiniteSet(S)
  PROVE  /\ S = {} => Total(f, S) = 0
         /\ S # {} => Total(f, S) = f[One(S)] + Total(f, S \ {One(S)})
  <1>1. PICK g : Solves(g, f, S)
    BY SumsExist
  <1>2. \A T \in SUBSET S : Total(f, T) = g[T]
    BY <1>1, SolutionIsSum
  <1>3. QED
    BY <1>1, <1>2 DEF SumFrom, Solves

\* Sums look at the values on their set, and at nothing else.
LEMMA SameSum ==
  ASSUME NEW S, IsFiniteSet(S), NEW f, NEW h, \A k \in S : f[k] = h[k]
  PROVE  Total(f, S) = Total(h, S)
  <1>1. PICK g : Solves(g, f, S)
    BY SumsExist
  <1>2. \A s \in SUBSET S : SumFrom(f, s, g) = SumFrom(h, s, g)
    BY OneIsMember DEF SumFrom
  <1>3. Solves(g, h, S)
    BY <1>1, <1>2 DEF Solves
  <1>4. S \in SUBSET S
    OBVIOUS
  <1>5. Total(f, S) = g[S]
    BY <1>1, <1>4, SolutionIsSum
  <1>6. Total(h, S) = g[S]
    BY <1>3, <1>4, SolutionIsSum
  <1>7. QED
    BY <1>5, <1>6

LEMMA NoSum == ASSUME NEW f PROVE Total(f, {}) = 0
  <1>1. IsFiniteSet({})
    BY FS_EmptySet
  <1>2. QED
    BY <1>1, SumStep

NatOn(f, S) == \A k \in S : f[k] \in Nat

LEMMA SumIsNatural ==
  ASSUME NEW f, NEW S, IsFiniteSet(S), NatOn(f, S)
  PROVE  \A T \in SUBSET S : Total(f, T) \in Nat
  <1> DEFINE Bad == {n \in Nat : \E s \in SUBSET S : Cardinality(s) = n /\ Total(f, s) \notin Nat}
  <1>1. \A s \in SUBSET S : IsFiniteSet(s) /\ Cardinality(s) \in Nat
    BY FS_Subset, FS_CardinalityType
  <1> SUFFICES ASSUME Bad # {}
               PROVE  FALSE
    BY <1>1
  <1>2. PICK m \in Bad : \A n \in Bad : m <= n
    BY SmallestExists
  <1>3. PICK s \in SUBSET S : Cardinality(s) = m /\ Total(f, s) \notin Nat
    BY <1>2
  <1>4. s # {}
    BY <1>3, NoSum
  <1> DEFINE t == s \ {One(s)}
  <1>5. One(s) \in s /\ t \in SUBSET S /\ Cardinality(t) = m - 1 /\ m - 1 \in Nat
    BY <1>1, <1>3, <1>4, OneIsMember, OneLess
  <1>6. m - 1 \notin Bad
    BY <1>2, <1>5
  <1>7. Total(f, t) \in Nat
    BY <1>5, <1>6
  <1>8. Total(f, s) = f[One(s)] + Total(f, t)
    BY <1>1, <1>4, SumStep
  <1>9. f[One(s)] \in Nat
    BY <1>5 DEF NatOn
  <1>10. QED
    BY <1>3, <1>7, <1>8, <1>9

\* Any member may be the one that is added.
LEMMA SumOfAny ==
  ASSUME NEW f, NEW S, IsFiniteSet(S), NatOn(f, S), NEW x \in S
  PROVE  Total(f, S) = f[x] + Total(f, S \ {x})
  <1> DEFINE Fails(T) == \E y \in T : Total(f, T) # f[y] + Total(f, T \ {y})
             Bad == {n \in Nat : \E s \in SUBSET S : Cardinality(s) = n /\ Fails(s)}
  <1>1. \A s \in SUBSET S : IsFiniteSet(s) /\ Cardinality(s) \in Nat
    BY FS_Subset, FS_CardinalityType
  <1> SUFFICES ASSUME Bad # {}
               PROVE  FALSE
    BY <1>1
  <1>2. PICK m \in Bad : \A n \in Bad : m <= n
    BY SmallestExists
  <1>3. PICK s \in SUBSET S : Cardinality(s) = m /\ Fails(s)
    BY <1>2
  <1>4. PICK y \in s : Total(f, s) # f[y] + Total(f, s \ {y})
    BY <1>3
  <1> DEFINE z == One(s)
             t == s \ {z}
             u == s \ {y}
  <1>5. z \in s /\ Total(f, s) = f[z] + Total(f, t)
    BY <1>1, <1>4, OneIsMember, SumStep
  <1> HIDE DEF z
  <1>6. y # z
    BY <1>4, <1>5
  <1>7. /\ t \in SUBSET S /\ Cardinality(t) = m - 1
        /\ u \in SUBSET S /\ Cardinality(u) = m - 1
        /\ m - 1 \in Nat
    BY <1>1, <1>3, <1>5, OneLess
  <1>8. m - 1 \notin Bad
    BY <1>2, <1>7
  <1>9. ~ Fails(t) /\ ~ Fails(u)
    BY <1>7, <1>8
  <1>10. /\ Total(f, t) = f[y] + Total(f, t \ {y})
         /\ Total(f, u) = f[z] + Total(f, u \ {z})
    BY <1>5, <1>6, <1>9
  <1>11. t \ {y} = u \ {z}
    OBVIOUS
  <1>12. /\ f[y] \in Int /\ f[z] \in Int
         /\ Total(f, t \ {y}) \in Int
    BY <1>5, SumIsNatural DEF NatOn
  <1>13. QED
    BY <1>4, <1>5, <1>10, <1>11, <1>12

\* The sum of a set is that of a part and that of the rest.
LEMMA SumSplits ==
  ASSUME NEW f, NEW S, IsFiniteSet(S), NatOn(f, S), NEW A \in SUBSET S
  PROVE  Total(f, S) = Total(f, S \ A) + Total(f, A)
  <1> DEFINE Fails(B) == Total(f, S) # Total(f, S \ B) + Total(f, B)
             Bad == {n \in Nat : \E s \in SUBSET S : Cardinality(s) = n /\ Fails(s)}
  <1>1. \A s \in SUBSET S : IsFiniteSet(s) /\ Cardinality(s) \in Nat
    BY FS_Subset, FS_CardinalityType
  <1> SUFFICES ASSUME Bad # {}
               PROVE  FALSE
    BY <1>1
  <1>2. PICK m \in Bad : \A n \in Bad : m <= n
    BY SmallestExists
  <1>3. PICK s \in SUBSET S : Cardinality(s) = m /\ Fails(s)
    BY <1>2
  <1>4. \A T \in SUBSET S : Total(f, T) \in Nat
    BY SumIsNatural
  <1>5. s # {}
    <2>1. Total(f, {}) = 0
      BY NoSum
    <2>2. S \ {} = S
      OBVIOUS
    <2>3. Total(f, S) \in Nat
      BY <1>4
    <2>4. ~ Fails({})
      BY <2>1, <2>2, <2>3
    <2>5. QED
      BY <1>3, <2>4
  <1> DEFINE z == One(s)
             t == s \ {z}
  <1>6. z \in s /\ z \in S /\ Total(f, s) = f[z] + Total(f, t)
    BY <1>1, <1>5, OneIsMember, SumStep
  <1> HIDE DEF z
  <1>7. t \in SUBSET S /\ Cardinality(t) = m - 1 /\ m - 1 \in Nat
    BY <1>1, <1>3, <1>6, OneLess
  <1>8. m - 1 \notin Bad
    <2>1. m \in Nat /\ \A n \in Bad : m <= n
      BY <1>2
    <2> HIDE DEF Bad, t
    <2>2. QED
      BY <1>7, <2>1
  <1>9. Total(f, S) = Total(f, S \ t) + Total(f, t)
    <2>1. ~ Fails(t)
      <3> HIDE DEF Fails, t
      <3>1. QED
        BY <1>7, <1>8
    <2>2. QED
      BY <2>1
  <1>10. Total(f, S \ t) = f[z] + Total(f, (S \ t) \ {z})
    <2>1. z \in S \ t /\ IsFiniteSet(S \ t) /\ NatOn(f, S \ t)
      BY <1>1, <1>6 DEF NatOn
    <2>2. QED
      BY <2>1, SumOfAny
  <1>11. (S \ t) \ {z} = S \ s
    BY <1>6
  <1>12. f[z] \in Nat
    BY <1>6 DEF NatOn
  <1>13. /\ Total(f, s) \in Nat /\ Total(f, t) \in Nat /\ Total(f, S \ s) \in Nat
    BY <1>4, <1>7
  <1>14. Fails(s)
    BY <1>3
  <1> HIDE DEF t
  <1>15. Total(f, S \ t) = f[z] + Total(f, S \ s)
    BY <1>10, <1>11
  <1>16. Total(f, S) = Total(f, S \ s) + Total(f, s)
    <2>1. \A w, x, y \in Nat : (w + x) + y = x + (w + y)
      OBVIOUS
    <2>2. Total(f, S) = (f[z] + Total(f, S \ s)) + Total(f, t)
      BY <1>9, <1>15
    <2>3. Total(f, S) = Total(f, S \ s) + (f[z] + Total(f, t))
      BY <1>12, <1>13, <2>1, <2>2, Zenon
    <2>4. QED
      BY <1>6, <2>3, Zenon
  <1>17. QED
    BY <1>14, <1>16

-----------------------------------------------------------------------------
(* Stretches: each candidate has one of the total weight                   *)

\* The sum up to i, without it.
Start(f, D, i) == Total(f, {j \in D : j < i})

In(f, D, i, pos) == Start(f, D, i) <= pos /\ pos < Start(f, D, i) + f[i]

\* Finite sets and integer values: one of the members has a value that no other
\* one goes below.
LEMMA LeastExists ==
  ASSUME NEW S, IsFiniteSet(S), S # {}, NEW v, \A i \in S : v[i] \in Int
  PROVE  \E i \in S : \A j \in S : v[i] <= v[j]
  <1> DEFINE Lower(i) == {j \in S : v[j] < v[i]}
             Sizes == {Cardinality(Lower(i)) : i \in S}
  <1>1. \A i \in S : IsFiniteSet(Lower(i)) /\ Cardinality(Lower(i)) \in Nat
    <2>1. TAKE i \in S
    <2>2. Lower(i) \in SUBSET S
      OBVIOUS
    <2> HIDE DEF Lower
    <2>3. QED
      BY <2>2, FS_Subset, FS_CardinalityType
  <1>2. Sizes \in SUBSET Nat /\ Sizes # {}
    BY <1>1
  <1>3. PICK m \in Sizes : \A n \in Sizes : m <= n
    BY <1>2, SmallestExists
  <1>4. PICK i \in S : m = Cardinality(Lower(i))
    BY <1>3
  <1>5. ASSUME NEW j \in S, ~ (v[i] <= v[j])
        PROVE  FALSE
    <2>1. v[i] \in Int /\ v[j] \in Int /\ v[j] < v[i]
      BY <1>5
    <2>2. \A x \in S : v[x] < v[j] => v[x] < v[i]
      BY <2>1
    <2>3. Lower(j) \in SUBSET Lower(i) /\ j \in Lower(i) /\ j \notin Lower(j)
      BY <2>1, <2>2
    <2> HIDE DEF Lower
    <2>4. Cardinality(Lower(j)) <= m /\ Cardinality(Lower(j)) # m
      BY <1>1, <1>4, <2>3, FS_Subset
    <2>5. m <= Cardinality(Lower(j))
      BY <1>3
    <2>6. m \in Nat /\ Cardinality(Lower(j)) \in Nat
      BY <1>1, <1>4
    <2>7. QED
      BY <2>4, <2>5, <2>6
  <1>6. QED
    BY <1>5

LEMMA GreatestExists ==
  ASSUME NEW S \in SUBSET Nat, IsFiniteSet(S), S # {}
  PROVE  \E i \in S : \A j \in S : j <= i
  <1> DEFINE v == [i \in S |-> 0 - i]
  <1>1. \A i \in S : i \in Nat /\ v[i] = 0 - i /\ v[i] \in Int
    OBVIOUS
  <1> HIDE DEF v
  <1>2. PICK i \in S : \A j \in S : v[i] <= v[j]
    BY <1>1, LeastExists
  <1>3. \A j \in S : j <= i
    BY <1>1, <1>2
  <1>4. QED
    BY <1>3

\* A part has no greater sum than the whole.
LEMMA SumGrows ==
  ASSUME NEW f, NEW S, IsFiniteSet(S), NatOn(f, S), NEW A \in SUBSET S
  PROVE  /\ Total(f, A) \in Nat /\ Total(f, S) \in Nat
         /\ Total(f, A) <= Total(f, S)
  <1>1. Total(f, A) \in Nat /\ Total(f, S) \in Nat /\ Total(f, S \ A) \in Nat
    BY SumIsNatural
  <1>2. Total(f, S) = Total(f, S \ A) + Total(f, A)
    BY SumSplits
  <1>3. QED
    BY <1>1, <1>2

\* With its member i, the sum up to i goes by f[i].
LEMMA StretchEnds ==
  ASSUME NEW D \in SUBSET Nat, IsFiniteSet(D), NEW f, NatOn(f, D), NEW i \in D
  PROVE  /\ Start(f, D, i) \in Nat /\ f[i] \in Nat
         /\ Total(f, {j \in D : j <= i}) = Start(f, D, i) + f[i]
         /\ IsFiniteSet({j \in D : j <= i})
  <1> DEFINE upTo == {j \in D : j <= i}
             below == {j \in D : j < i}
  <1>1. \A j \in D : j \in Nat
    OBVIOUS
  <1>2. upTo \in SUBSET D /\ below = upTo \ {i} /\ i \in upTo /\ below \in SUBSET D
    <2>1. \A j \in D : j < i <=> j <= i /\ j # i
      BY <1>1
    <2>2. i <= i
      BY <1>1
    <2>3. QED
      BY <2>1, <2>2
  <1> HIDE DEF upTo, below
  <1>3. IsFiniteSet(upTo) /\ NatOn(f, upTo)
    BY <1>2, FS_Subset DEF NatOn
  <1>4. Total(f, upTo) = f[i] + Total(f, below)
    BY <1>2, <1>3, SumOfAny
  <1>5. Total(f, below) \in Nat /\ f[i] \in Nat
    BY <1>2, SumIsNatural DEF NatOn
  <1>6. QED
    BY <1>3, <1>4, <1>5 DEF Start, upTo, below

\* Stretches follow each other.
LEMMA StretchesAreApart ==
  ASSUME NEW D \in SUBSET Nat, IsFiniteSet(D), NEW f, NatOn(f, D),
         NEW i \in D, NEW j \in D, i < j
  PROVE  Start(f, D, i) + f[i] <= Start(f, D, j)
  <1> DEFINE upTo == {x \in D : x <= i}
             below == {x \in D : x < j}
  <1>1. \A x \in D : x \in Nat
    OBVIOUS
  <1>2. upTo \in SUBSET below /\ below \in SUBSET D
    <2>1. \A x \in D : x <= i => x < j
      BY <1>1
    <2>2. QED
      BY <2>1
  <1>3. Total(f, upTo) = Start(f, D, i) + f[i]
    BY StretchEnds
  <1> HIDE DEF upTo
  <1>4. IsFiniteSet(below) /\ NatOn(f, below)
    BY <1>2, FS_Subset DEF NatOn
  <1> HIDE DEF below
  <1>5. Total(f, upTo) <= Total(f, below)
    BY <1>2, <1>4, SumGrows
  <1>6. QED
    BY <1>3, <1>5 DEF Start, below

\* Every stretch lies within the whole.
LEMMA StretchesFit ==
  ASSUME NEW D \in SUBSET Nat, IsFiniteSet(D), NEW f, NatOn(f, D), NEW i \in D
  PROVE  /\ Start(f, D, i) \in Nat /\ f[i] \in Nat /\ Total(f, D) \in Nat
         /\ Start(f, D, i) + f[i] <= Total(f, D)
  <1> DEFINE upTo == {x \in D : x <= i}
  <1>1. upTo \in SUBSET D
    OBVIOUS
  <1>2. Total(f, upTo) = Start(f, D, i) + f[i] /\ Start(f, D, i) \in Nat /\ f[i] \in Nat
    BY StretchEnds
  <1> HIDE DEF upTo
  <1>3. QED
    BY <1>1, <1>2, SumGrows

\* No position is in two of them.
LEMMA OneStretch ==
  ASSUME NEW D \in SUBSET Nat, IsFiniteSet(D), NEW f, NatOn(f, D),
         NEW i \in D, NEW j \in D, NEW pos \in Nat, In(f, D, i, pos), In(f, D, j, pos)
  PROVE  i = j
  <1>1. /\ Start(f, D, i) \in Nat /\ f[i] \in Nat
        /\ Start(f, D, j) \in Nat /\ f[j] \in Nat
    BY StretchEnds
  <1>2. i \in Nat /\ j \in Nat
    OBVIOUS
  <1>3. ~ (i < j)
    <2>1. i < j => Start(f, D, i) + f[i] <= Start(f, D, j)
      BY StretchesAreApart
    <2>2. QED
      BY <1>1, <2>1 DEF In
  <1>4. ~ (j < i)
    <2>1. j < i => Start(f, D, j) + f[j] <= Start(f, D, i)
      BY StretchesAreApart
    <2>2. QED
      BY <1>1, <2>1 DEF In
  <1>5. QED
    BY <1>2, <1>3, <1>4

\* Every position below the total is in one.
LEMMA SomeStretch ==
  ASSUME NEW D \in SUBSET Nat, IsFiniteSet(D), NEW f, NatOn(f, D),
         NEW pos \in Nat, pos < Total(f, D)
  PROVE  \E i \in D : In(f, D, i, pos)
  <1> DEFINE E == {i \in D : pos < Start(f, D, i) + f[i]}
  <1>1. \A i \in D : i \in Nat /\ Start(f, D, i) \in Nat /\ f[i] \in Nat
    BY StretchEnds
  <1>2. D # {}
    BY NoSum
  <1>3. PICK g \in D : \A j \in D : j <= g
    BY <1>2, GreatestExists
  <1>4. {j \in D : j <= g} = D
    BY <1>3
  <1>5. Total(f, D) = Start(f, D, g) + f[g]
    BY <1>4, StretchEnds
  <1>6. E \in SUBSET Nat /\ E # {}
    BY <1>1, <1>5
  <1>7. PICK i \in E : \A j \in E : i <= j
    BY <1>6, SmallestExists
  <1> DEFINE below == {j \in D : j < i}
  <1>8. Start(f, D, i) <= pos
    <2>1. CASE below = {}
      <3>1. Start(f, D, i) = 0
        BY <2>1, NoSum DEF Start
      <3>2. QED
        BY <3>1
    <2>2. CASE below # {}
      <3>1. below \in SUBSET Nat /\ IsFiniteSet(below)
        <4>1. below \in SUBSET D
          OBVIOUS
        <4> HIDE DEF below
        <4>2. QED
          BY <4>1, FS_Subset
      <3>2. PICK p \in below : \A j \in below : j <= p
        BY <2>2, <3>1, GreatestExists
      <3>3. p \in D /\ p < i /\ i \in D /\ i \in Nat /\ p \in Nat
        OBVIOUS
      <3>4. below = {j \in D : j <= p}
        <4>1. \A j \in D : j <= p => j < i
          BY <1>1, <3>3
        <4>2. QED
          BY <3>2, <4>1
      <3>5. Start(f, D, i) = Start(f, D, p) + f[p]
        <4>1. Start(f, D, i) = Total(f, below)
          BY DEF Start
        <4> HIDE DEF below
        <4>2. QED
          BY <3>3, <3>4, <4>1, StretchEnds
      <3>6. p \notin E
        BY <1>7, <3>3
      <3>7. ~ (pos < Start(f, D, p) + f[p])
        BY <3>3, <3>6
      <3>8. QED
        BY <1>1, <3>3, <3>5, <3>7
    <2>3. QED
      BY <2>1, <2>2
  <1>9. In(f, D, i, pos)
    BY <1>7, <1>8 DEF In
  <1>10. QED
    BY <1>9

\* With one for each, the sum is the number of members.
LEMMA SumOfOnes ==
  ASSUME NEW S, IsFiniteSet(S), NEW f, \A i \in S : f[i] = 1
  PROVE  Total(f, S) = Cardinality(S)
  <1> DEFINE Bad == {n \in Nat : \E s \in SUBSET S : Cardinality(s) = n /\ Total(f, s) # n}
  <1>1. \A s \in SUBSET S : IsFiniteSet(s) /\ Cardinality(s) \in Nat
    BY FS_Subset, FS_CardinalityType
  <1> SUFFICES ASSUME Bad # {}
               PROVE  FALSE
    BY <1>1
  <1>2. PICK m \in Bad : \A n \in Bad : m <= n
    BY SmallestExists
  <1>3. PICK s \in SUBSET S : Cardinality(s) = m /\ Total(f, s) # m
    BY <1>2
  <1>4. s # {}
    BY <1>3, NoSum, FS_EmptySet
  <1> DEFINE t == s \ {One(s)}
  <1>5. One(s) \in s /\ t \in SUBSET S /\ Cardinality(t) = m - 1 /\ m - 1 \in Nat
    BY <1>1, <1>3, <1>4, OneIsMember, OneLess
  <1>6. m - 1 \notin Bad
    BY <1>2, <1>5
  <1>7. Total(f, t) = m - 1
    BY <1>5, <1>6
  <1>8. Total(f, s) = f[One(s)] + Total(f, t)
    BY <1>1, <1>4, SumStep
  <1>9. f[One(s)] = 1
    BY <1>5
  <1>10. QED
    BY <1>3, <1>5, <1>7, <1>8, <1>9

-----------------------------------------------------------------------------
(* What the operators of Selection return, for any list of candidates      *)

IsCandidates(c) ==
  /\ DOMAIN c \in SUBSET Nat /\ IsFiniteSet(DOMAIN c) /\ DOMAIN c # {}
  /\ \A i \in DOMAIN c : c[i].weight \in Nat

Weights(c) == [i \in DOMAIN c |-> c[i].weight]

\* How many positions of a round are a candidate's: one each when all weights
\* are zero.
Widths(c) ==
  [i \in DOMAIN c |-> IF TotalWeight(c) = 0 THEN 1 ELSE c[i].weight]

Round(c) == Total(Widths(c), DOMAIN c)

LEMMA StretchesOfCandidates ==
  ASSUME NEW c, IsCandidates(c)
  PROVE  /\ NatOn(Weights(c), DOMAIN c) /\ NatOn(Widths(c), DOMAIN c)
         /\ TotalWeight(c) = Total(Weights(c), DOMAIN c) /\ TotalWeight(c) \in Nat
         /\ \A i \in DOMAIN c :
              /\ IsFiniteSet(Before(c, i)) /\ Before(c, i) \in SUBSET DOMAIN c
              /\ WeightOf(c, Before(c, i)) = Start(Weights(c), DOMAIN c, i)
              /\ Weights(c)[i] = c[i].weight
  <1>1. NatOn(Weights(c), DOMAIN c) /\ NatOn(Widths(c), DOMAIN c)
    BY DEF NatOn, Weights, Widths, IsCandidates
  <1>2. TotalWeight(c) = Total(Weights(c), DOMAIN c)
    BY DEF TotalWeight, WeightOf, Total, Weights
  <1>3. TotalWeight(c) \in Nat
    BY <1>1, <1>2, SumIsNatural DEF IsCandidates
  <1>4. ASSUME NEW i \in DOMAIN c
        PROVE  /\ IsFiniteSet(Before(c, i)) /\ Before(c, i) \in SUBSET DOMAIN c
               /\ WeightOf(c, Before(c, i)) = Start(Weights(c), DOMAIN c, i)
               /\ Weights(c)[i] = c[i].weight
    <2>1. Before(c, i) \in SUBSET DOMAIN c
      BY DEF Before
    <2>2. IsFiniteSet(Before(c, i))
      BY <2>1, FS_Subset DEF IsCandidates
    <2>3. WeightOf(c, Before(c, i)) = Start(Weights(c), DOMAIN c, i)
      BY DEF WeightOf, Total, Weights, Before, Start
    <2>4. QED
      BY <2>1, <2>2, <2>3 DEF Weights
  <1>5. QED
    BY <1>1, <1>2, <1>3, <1>4

\* The widths are the weights, or one each.
LEMMA WidthsOfCandidates ==
  ASSUME NEW c, IsCandidates(c)
  PROVE  /\ Round(c) \in Nat /\ Round(c) > 0
         /\ TotalWeight(c) = 0 =>
              /\ Round(c) = Cardinality(DOMAIN c)
              /\ \A i \in DOMAIN c :
                   /\ Start(Widths(c), DOMAIN c, i) = Cardinality(Before(c, i))
                   /\ Widths(c)[i] = 1
         /\ TotalWeight(c) # 0 => Widths(c) = Weights(c) /\ Round(c) = TotalWeight(c)
  <1>1. CASE TotalWeight(c) = 0
    <2>1. \A i \in DOMAIN c : Widths(c)[i] = 1
      BY <1>1 DEF Widths
    <2>2. Round(c) = Cardinality(DOMAIN c)
      BY <2>1, SumOfOnes DEF Round, IsCandidates
    <2>3. Cardinality(DOMAIN c) \in Nat /\ Cardinality(DOMAIN c) # 0
      BY FS_CardinalityType, FS_EmptySet DEF IsCandidates
    <2>4. ASSUME NEW i \in DOMAIN c
          PROVE  Start(Widths(c), DOMAIN c, i) = Cardinality(Before(c, i))
      <3>1. IsFiniteSet(Before(c, i)) /\ \A j \in Before(c, i) : Widths(c)[j] = 1
        BY <2>1, StretchesOfCandidates
      <3>2. Total(Widths(c), Before(c, i)) = Cardinality(Before(c, i))
        BY <3>1, SumOfOnes
      <3>3. QED
        BY <3>2 DEF Start, Before
    <2>5. QED
      BY <1>1, <2>1, <2>2, <2>3, <2>4
  <1>2. CASE TotalWeight(c) # 0
    <2>1. Widths(c) = Weights(c)
      BY <1>2 DEF Widths, Weights
    <2>2. Round(c) = TotalWeight(c) /\ TotalWeight(c) \in Nat
      BY <2>1, StretchesOfCandidates DEF Round
    <2>3. QED
      BY <1>2, <2>1, <2>2
  <1>3. QED
    BY <1>1, <1>2

\* The candidates at a position of the round.
LEMMA AtPositionIsStretch ==
  ASSUME NEW c, IsCandidates(c), NEW pos
  PROVE  AtPosition(c, pos) = {i \in DOMAIN c : In(Weights(c), DOMAIN c, i, pos)}
  BY StretchesOfCandidates DEF AtPosition, In

LEMMA RoundRobinIsStretch ==
  ASSUME NEW c, IsCandidates(c), NEW n \in Nat
  PROVE  /\ n % Round(c) \in 0 .. Round(c) - 1
         /\ WeightedRoundRobin(c, n) =
              {i \in DOMAIN c : In(Widths(c), DOMAIN c, i, n % Round(c))}
  <1>1. n % Round(c) \in 0 .. Round(c) - 1
    BY WidthsOfCandidates
  <1>2. CASE TotalWeight(c) = 0
    <2>1. ASSUME NEW i \in DOMAIN c
          PROVE  In(Widths(c), DOMAIN c, i, n % Round(c))
                   <=> Cardinality(Before(c, i)) = n % Cardinality(DOMAIN c)
      <3>1. /\ Start(Widths(c), DOMAIN c, i) = Cardinality(Before(c, i))
            /\ Widths(c)[i] = 1 /\ Round(c) = Cardinality(DOMAIN c)
        BY <1>2, WidthsOfCandidates
      <3>2. Cardinality(Before(c, i)) \in Nat
        BY StretchesOfCandidates, FS_CardinalityType
      <3> DEFINE p == n % Round(c)
                 b == Cardinality(Before(c, i))
      <3>3. p \in Nat /\ b \in Nat
        BY <1>1, <3>2
      <3> HIDE DEF p, b
      <3>4. (b <= p /\ p < b + 1) <=> b = p
        BY <3>3
      <3>5. In(Widths(c), DOMAIN c, i, p) <=> (b <= p /\ p < b + 1)
        BY <3>1 DEF In, b
      <3>6. QED
        BY <3>1, <3>4, <3>5 DEF p, b
    <2>2. QED
      BY <1>1, <1>2, <2>1 DEF WeightedRoundRobin
  <1>3. CASE TotalWeight(c) # 0
    <2>1. Widths(c) = Weights(c) /\ Round(c) = TotalWeight(c)
      BY <1>3, WidthsOfCandidates
    <2>2. WeightedRoundRobin(c, n) = AtPosition(c, n % Round(c))
      BY <1>3, <2>1 DEF WeightedRoundRobin
    <2>3. QED
      BY <1>1, <2>1, <2>2, AtPositionIsStretch
  <1>4. QED
    BY <1>2, <1>3

\* Round robin picks one candidate, whatever the weights and the counter.
LEMMA RoundRobinPicksOne ==
  ASSUME NEW c, IsCandidates(c), NEW n \in Nat
  PROVE  /\ WeightedRoundRobin(c, n) # {}
         /\ WeightedRoundRobin(c, n) \in SUBSET DOMAIN c
         /\ \A i, j \in WeightedRoundRobin(c, n) : i = j
  <1> DEFINE pos == n % Round(c)
             w == Widths(c)
             D == DOMAIN c
  <1>1. pos \in Nat /\ pos < Total(w, D)
    BY RoundRobinIsStretch, WidthsOfCandidates DEF Round
  <1>2. WeightedRoundRobin(c, n) = {i \in D : In(w, D, i, pos)}
    BY RoundRobinIsStretch
  <1>3. D \in SUBSET Nat /\ IsFiniteSet(D) /\ NatOn(w, D)
    BY StretchesOfCandidates DEF IsCandidates
  <1> HIDE DEF pos, w, D
  <1>4. \E i \in D : In(w, D, i, pos)
    BY <1>1, <1>3, SomeStretch
  <1>5. \A i, j \in D : In(w, D, i, pos) /\ In(w, D, j, pos) => i = j
    BY <1>1, <1>3, OneStretch
  <1>6. QED
    BY <1>2, <1>4, <1>5 DEF D

\* The random choice finds somebody, and nobody of weight zero while another
\* has a weight.
LEMMA RandomPicksWeighted ==
  ASSUME NEW c, IsCandidates(c)
  PROVE  /\ WeightedRandom(c) # {}
         /\ WeightedRandom(c) \in SUBSET DOMAIN c
         /\ TotalWeight(c) > 0 => \A i \in WeightedRandom(c) : c[i].weight > 0
  <1>1. CASE TotalWeight(c) = 0
    BY <1>1 DEF WeightedRandom, IsCandidates
  <1>2. CASE TotalWeight(c) # 0
    <2> DEFINE w == Weights(c)
               D == DOMAIN c
               T == TotalWeight(c)
    <2>1. T \in Nat /\ T > 0 /\ T = Total(w, D) /\ NatOn(w, D)
      BY <1>2, StretchesOfCandidates
    <2>2. WeightedRandom(c) = UNION {AtPosition(c, r) : r \in 0 .. T - 1}
      BY <1>2 DEF WeightedRandom
    <2>3. \A r \in 0 .. T - 1 : AtPosition(c, r) = {i \in D : In(w, D, i, r)}
      BY AtPositionIsStretch
    <2>4. D \in SUBSET Nat /\ IsFiniteSet(D)
      BY DEF IsCandidates
    <2>5. \A i \in D : Start(w, D, i) \in Nat /\ w[i] \in Nat
      <3> HIDE DEF w, D
      <3>1. QED
        BY <2>1, <2>4, StretchEnds
    <2>6. \A i \in D : w[i] = c[i].weight
      BY StretchesOfCandidates
    <2> HIDE DEF w, D, T
    <2>7. \E i \in D : In(w, D, i, 0)
      BY <2>1, <2>4, SomeStretch
    <2>8. 0 \in 0 .. T - 1
      BY <2>1
    <2>9. \A r \in 0 .. T - 1 : \A i \in D : In(w, D, i, r) => w[i] > 0
      BY <2>5 DEF In
    <2>10. WeightedRandom(c) # {} /\ WeightedRandom(c) \in SUBSET D
      BY <2>2, <2>3, <2>7, <2>8
    <2>11. \A i \in WeightedRandom(c) : c[i].weight > 0
      BY <2>2, <2>3, <2>6, <2>9
    <2>12. QED
      BY <2>10, <2>11 DEF D
  <1>3. QED
    BY <1>1, <1>2, StretchesOfCandidates

\* Truncating division by a weight, for the counts a run without releases has.
LEMMA AdjustedIsInteger ==
  ASSUME NEW load \in Int, NEW weight \in Nat
  PROVE  Adjusted(load, weight) \in Int
  BY DEF Adjusted, Quotient

\* Least connections picks one candidate, whatever the counts.
LEMMA LeastPicksOne ==
  ASSUME NEW c, IsCandidates(c), NEW load, \A i \in DOMAIN c : load[i] \in Int
  PROVE  /\ LeastConnections(c, load) # {}
         /\ LeastConnections(c, load) \in SUBSET DOMAIN c
         /\ \A i, j \in LeastConnections(c, load) : i = j
  <1> DEFINE D == DOMAIN c
             v == [i \in D |-> Adjusted(load[i], c[i].weight)]
             Least == {i \in D : \A j \in D : v[i] <= v[j]}
  <1>1. \A i \in D : v[i] \in Int
    BY AdjustedIsInteger DEF IsCandidates
  <1>2. D \in SUBSET Nat /\ IsFiniteSet(D) /\ D # {}
    BY DEF IsCandidates
  <1>3. LeastConnections(c, load) =
          {i \in D : /\ \A j \in D : v[i] <= v[j]
                     /\ \A j \in D : j < i => v[i] < v[j]}
    BY DEF LeastConnections, Before
  <1> HIDE DEF D, v
  <1>4. Least \in SUBSET Nat /\ Least # {}
    BY <1>1, <1>2, LeastExists
  <1>5. PICK m \in Least : \A n \in Least : m <= n
    BY <1>4, SmallestExists
  <1>6. ASSUME NEW j \in D, j < m
        PROVE  v[m] < v[j]
    <2>1. m \in Nat /\ j \in Nat /\ m \in D
      BY <1>2, <1>4
    <2>2. j \notin Least
      BY <1>5, <1>6, <2>1
    <2>3. PICK k \in D : ~ (v[j] <= v[k])
      BY <2>2
    <2>4. v[m] <= v[k]
      BY <1>5, <2>3
    <2>5. v[m] \in Int /\ v[j] \in Int /\ v[k] \in Int
      BY <1>1, <2>1, <2>3
    <2>6. QED
      BY <2>3, <2>4, <2>5
  <1>7. m \in LeastConnections(c, load)
    BY <1>3, <1>5, <1>6
  <1>8. ASSUME NEW i \in LeastConnections(c, load), NEW j \in LeastConnections(c, load)
        PROVE  i = j
    <2>1. i \in D /\ j \in D /\ i \in Nat /\ j \in Nat /\ v[i] \in Int /\ v[j] \in Int
      BY <1>1, <1>2, <1>3
    <2>2. v[i] <= v[j] /\ v[j] <= v[i]
      BY <1>3, <2>1
    <2>3. ~ (i < j) /\ ~ (j < i)
      BY <1>3, <2>1, <2>2
    <2>4. QED
      BY <2>1, <2>3
  <1>9. QED
    BY <1>3, <1>7, <1>8 DEF D

-----------------------------------------------------------------------------
(* The choice of a selection under way                                     *)

\* What passed the filter is a list of candidates.
LEMMA AvailableAreCandidates ==
  ASSUME IInv, NEW r \in Requests, pc[r] = "filter", available[r] # {}
  PROVE  IsCandidates(AvailableRows(r)) /\ DOMAIN AvailableRows(r) = available[r]
  <1> DEFINE g == Serving(runtime, group[r])
  <1>1. /\ list[r] = [table |-> runtime, group |-> g]
        /\ available[r] \subseteq Enrolled(runtime, g)
    BY DEF IInv, SelectOK
  <1>2. runtime \in 1 .. Len(Tables) /\ group[r] \in Hostgroups
    BY DEF IInv, TypeOK
  <1>3. g \in Hostgroups
    BY <1>2, ServingIsHostgroup
  <1> HIDE DEF g
  <1>4. \A i \in available[r] : RowAt(r, i) \in Row /\ i \in Nat
    BY <1>1, <1>2, <1>3, RowsAreRows DEF RowAt
  <1>5. IsFiniteSet(available[r])
    <2>1. Tables[runtime][g] \in Seq(Row)
      BY <1>2, <1>3, TablesAssumption
    <2>2. DOMAIN Tables[runtime][g] = 1 .. Len(Tables[runtime][g])
          /\ Len(Tables[runtime][g]) \in Nat
      BY <2>1
    <2>3. IsFiniteSet(1 .. Len(Tables[runtime][g]))
      BY <2>2, FS_Interval
    <2>4. available[r] \subseteq 1 .. Len(Tables[runtime][g])
      BY <1>1, <2>2 DEF Enrolled
    <2>5. QED
      BY <2>3, <2>4, FS_Subset
  <1>6. \A i \in available[r] : AvailableRows(r)[i].weight \in Nat
    BY <1>4 DEF AvailableRows, Row
  <1>7. DOMAIN AvailableRows(r) = available[r]
    BY DEF AvailableRows
  <1>8. QED
    BY <1>4, <1>5, <1>6, <1>7 DEF IsCandidates

\* A selection (SelectServer) with available servers always settles on one.
THEOREM SelectionsSettle == Spec => []SomebodyIsChosen
  <1>1. IInv => SomebodyIsChosen
    <2> SUFFICES ASSUME IInv, NEW r \in Requests,
                        pc[r] = "filter", available[r] # {}
                 PROVE  /\ group[r] \in DOMAIN rrCounters =>
                             \E i \in available[r] :
                               WeightedRoundRobin(AvailableRows(r),
                                                  rrCounters[group[r]] + 1) = {i}
                        /\ WeightedRandom(AvailableRows(r)) # {}
      BY DEF SomebodyIsChosen
    <2> DEFINE c == AvailableRows(r)
               n == rrCounters[group[r]] + 1
    <2>1. IsCandidates(c) /\ DOMAIN c = available[r]
      BY AvailableAreCandidates
    <2>2. group[r] \in DOMAIN rrCounters => n \in Nat
      BY DEF IInv, TypeOK
    <2> HIDE DEF c, n
    <2>3. WeightedRandom(c) # {}
      BY <2>1, RandomPicksWeighted
    <2>4. ASSUME group[r] \in DOMAIN rrCounters
          PROVE  \E i \in available[r] : WeightedRoundRobin(c, n) = {i}
      <3>1. /\ WeightedRoundRobin(c, n) # {}
            /\ WeightedRoundRobin(c, n) \in SUBSET available[r]
            /\ \A i, j \in WeightedRoundRobin(c, n) : i = j
        BY <2>1, <2>2, <2>4, RoundRobinPicksOne
      <3>2. PICK i \in WeightedRoundRobin(c, n) : TRUE
        BY <3>1
      <3>3. i \in available[r] /\ WeightedRoundRobin(c, n) = {i}
        BY <3>1, <3>2
      <3>4. QED
        BY <3>3
    <2>5. QED
      BY <2>3, <2>4 DEF c, n
  <1>2. QED
    BY <1>1, Inductive, PTL

-----------------------------------------------------------------------------
(* Runs                                                                    *)

Policies == {"weighted_round_robin", "least_connections", "random"}

RunTypeOK ==
  /\ IsCandidates(rows)
  /\ policy \in Policies
  /\ picks \in [DOMAIN rows -> Nat]
  /\ counter \in Nat

\* Of w positions that begin at a, those up to pos.
Visited(a, w, pos) ==
  IF pos < a THEN 0 ELSE IF pos < a + w THEN pos + 1 - a ELSE w

\* Position 0 is not visited before the first round: the counter is
\* incremented before it is used.
Skipped(a, w) == IF a = 0 /\ w > 0 THEN 1 ELSE 0

\* What round robin has given a candidate after n picks: the full rounds, and
\* what the round under way has passed of its stretch.
Given(a, w, round, n) ==
  (n \div round) * w + Visited(a, w, n % round) - Skipped(a, w)

SharesOK ==
  policy = "weighted_round_robin" =>
    \A i \in DOMAIN rows :
      picks[i] = Given(Start(Widths(rows), DOMAIN rows, i), Widths(rows)[i],
                       Round(rows), counter)

RunIInv == RunTypeOK /\ SharesOK /\ LoadsStayLevel

\* Division of the next number.
LEMMA NextInRound ==
  ASSUME NEW n \in Nat, NEW T \in Nat, T > 0
  PROVE  /\ n \div T \in Nat /\ n % T \in 0 .. T - 1
         /\ n % T < T - 1 => /\ (n + 1) \div T = n \div T
                             /\ (n + 1) % T = (n % T) + 1
         /\ n % T = T - 1 => /\ (n + 1) \div T = n \div T + 1
                             /\ (n + 1) % T = 0
  <1> DEFINE q == n \div T
             r == n % T
             q2 == (n + 1) \div T
             r2 == (n + 1) % T
  <1>1. q \in Nat /\ r \in 0 .. T - 1 /\ n = T * q + r
    OBVIOUS
  <1>2. q2 \in Nat /\ r2 \in 0 .. T - 1 /\ n + 1 = T * q2 + r2
    OBVIOUS
  <1> HIDE DEF q, r, q2, r2
  <1>3. ASSUME NEW x \in Nat, NEW y \in Nat, NEW s \in 0 .. T - 1, NEW t \in 0 .. T - 1,
               T * x + s = T * y + t
        PROVE  x = y /\ s = t
    <2>1. ASSUME NEW u \in Nat, NEW v \in Nat, u < v PROVE T * u + T <= T * v
      <3>1. v - u \in Nat /\ v - u - 1 \in Nat
        BY <2>1
      <3>2. T * (v - u - 1) \in Nat
        BY <3>1
      <3>3. T * v = T * u + T + T * (v - u - 1)
        BY <3>1
      <3>4. T * u \in Nat
        OBVIOUS
      <3>5. QED
        BY <3>2, <3>3, <3>4
    <2>2. T * x \in Nat /\ T * y \in Nat
      OBVIOUS
    <2>3. ~ (x < y)
      <3>1. x < y => T * x + T <= T * y
        BY <2>1
      <3>2. QED
        BY <1>3, <2>2, <3>1
    <2>4. ~ (y < x)
      <3>1. y < x => T * y + T <= T * x
        BY <2>1
      <3>2. QED
        BY <1>3, <2>2, <3>1
    <2>5. x = y
      BY <2>3, <2>4
    <2>6. QED
      BY <1>3, <2>2, <2>5
  <1>4. ASSUME r < T - 1
        PROVE  q2 = q /\ r2 = r + 1
    <2>1. r + 1 \in 0 .. T - 1 /\ T * q \in Nat
      BY <1>1, <1>4
    <2>2. T * q2 + r2 = T * q + (r + 1)
      BY <1>1, <1>2, <2>1
    <2>3. QED
      BY <1>1, <1>2, <1>3, <2>1, <2>2
  <1>5. ASSUME r = T - 1
        PROVE  q2 = q + 1 /\ r2 = 0
    <2>1. 0 \in 0 .. T - 1 /\ q + 1 \in Nat
      BY <1>1
    <2>2. T * (q + 1) = T * q + T /\ T * q \in Nat
      BY <1>1
    <2>3. T * q2 + r2 = T * (q + 1) + 0
      BY <1>1, <1>2, <1>5, <2>2
    <2>4. QED
      BY <1>1, <1>2, <1>3, <2>1, <2>3
  <1>6. QED
    BY <1>1, <1>4, <1>5 DEF q, r, q2, r2

\* One pick more goes to the stretch that has the counter's position.
LEMMA GivenGrows ==
  ASSUME NEW a \in Nat, NEW w \in Nat, NEW T \in Nat, T > 0, a + w <= T,
         NEW n \in Nat
  PROVE  Given(a, w, T, n + 1) =
           Given(a, w, T, n)
             + (IF a <= (n + 1) % T /\ (n + 1) % T < a + w THEN 1 ELSE 0)
  <1> DEFINE q == n \div T
             r == n % T
  <1>1. q \in Nat /\ r \in 0 .. T - 1 /\ q * w \in Nat
    BY NextInRound
  <1>2. CASE r < T - 1
    <2>1. (n + 1) \div T = q /\ (n + 1) % T = r + 1
      BY <1>2, NextInRound
    <2>2. Visited(a, w, r + 1) =
            Visited(a, w, r) + (IF a <= r + 1 /\ r + 1 < a + w THEN 1 ELSE 0)
      <3> HIDE DEF r
      <3>1. QED
        BY <1>1 DEF Visited
    <2>3. Visited(a, w, r) \in Int /\ Skipped(a, w) \in Int
      <3> HIDE DEF r
      <3>1. QED
        BY <1>1 DEF Visited, Skipped
    <2>4. /\ Given(a, w, T, n + 1) = q * w + Visited(a, w, r + 1) - Skipped(a, w)
          /\ Given(a, w, T, n) = q * w + Visited(a, w, r) - Skipped(a, w)
      BY <2>1 DEF Given
    <2> DEFINE x == q * w
    <2> HIDE DEF q, r, x
    <2>5. QED
      BY <1>1, <2>1, <2>2, <2>3, <2>4 DEF x
  <1>3. CASE r = T - 1
    <2>1. (n + 1) \div T = q + 1 /\ (n + 1) % T = 0
      BY <1>3, NextInRound
    <2>2. Visited(a, w, r) = w
      <3> HIDE DEF r
      <3>1. QED
        BY <1>3 DEF Visited
    <2>3. Visited(a, w, 0) = IF a <= 0 /\ 0 < a + w THEN 1 ELSE 0
      BY DEF Visited
    <2>4. Skipped(a, w) \in Int
      BY DEF Skipped
    <2>5. /\ Given(a, w, T, n + 1) = (q + 1) * w + Visited(a, w, 0) - Skipped(a, w)
          /\ Given(a, w, T, n) = q * w + w - Skipped(a, w)
      BY <2>1, <2>2 DEF Given
    <2>6. (q + 1) * w = q * w + w
      BY <1>1
    <2> DEFINE x == q * w
    <2>7. x \in Nat
      BY <1>1
    <2> HIDE DEF q, r, x
    <2>8. QED
      BY <2>1, <2>3, <2>4, <2>5, <2>6, <2>7 DEF x
  <1>4. QED
    BY <1>1, <1>2, <1>3

\* At the end of a round, every candidate has its share of the rounds.
LEMMA GivenAtRound ==
  ASSUME NEW a \in Nat, NEW w \in Nat, NEW T \in Nat, T > 0, NEW n \in Nat, n % T = 0
  PROVE  Given(a, w, T, n) = (n \div T) * w
  <1>1. Visited(a, w, 0) = Skipped(a, w) /\ Skipped(a, w) \in Int
    BY DEF Visited, Skipped
  <1>2. (n \div T) * w \in Nat
    BY NextInRound
  <1> DEFINE x == (n \div T) * w
  <1>3. Given(a, w, T, n) = x + Visited(a, w, 0) - Skipped(a, w)
    BY DEF Given
  <1> HIDE DEF x
  <1>4. QED
    BY <1>1, <1>2, <1>3 DEF x

\* A weight-adjusted load never falls when the load grows by one, and grows by
\* one at most.
LEMMA AdjustedGrows ==
  ASSUME NEW p \in Nat, NEW w \in Nat
  PROVE  /\ Adjusted(p, w) \in Nat /\ Adjusted(p + 1, w) \in Nat
         /\ Adjusted(p, w) <= Adjusted(p + 1, w)
         /\ Adjusted(p + 1, w) <= Adjusted(p, w) + 1
  <1>1. CASE w = 0
    BY <1>1 DEF Adjusted
  <1>2. CASE w > 0
    <2>1. Adjusted(p, w) = p \div w /\ Adjusted(p + 1, w) = (p + 1) \div w
      BY <1>2 DEF Adjusted, Quotient
    <2>2. \/ (p + 1) \div w = p \div w
          \/ (p + 1) \div w = p \div w + 1
      BY <1>2, NextInRound
    <2>3. p \div w \in Nat
      BY <1>2, NextInRound
    <2>4. QED
      BY <2>1, <2>2, <2>3
  <1>3. QED
    BY <1>1, <1>2

LEMMA RunInitOK == RunInit => RunIInv
  <1> SUFFICES ASSUME RunInit
               PROVE  RunIInv
    OBVIOUS
  <1> USE DEF RunInit
  <1>1. PICK n \in 1 .. MaxServers : rows \in [1 .. n -> [weight : 0 .. MaxWeight]]
    OBVIOUS
  <1>2. DOMAIN rows = 1 .. n /\ n \in Nat /\ n >= 1
    BY <1>1, BoundsAssumption
  <1>3. IsCandidates(rows)
    <2>1. IsFiniteSet(1 .. n)
      BY <1>2, FS_Interval
    <2>2. \A i \in DOMAIN rows : rows[i].weight \in Nat
      BY <1>1, BoundsAssumption
    <2>3. QED
      BY <1>2, <2>1, <2>2 DEF IsCandidates
  <1>4. RunTypeOK
    BY <1>3 DEF RunTypeOK, Policies
  <1>5. ASSUME NEW i \in DOMAIN rows
        PROVE  picks[i] = Given(Start(Widths(rows), DOMAIN rows, i), Widths(rows)[i],
                                Round(rows), counter)
    <2> DEFINE a == Start(Widths(rows), DOMAIN rows, i)
               w == Widths(rows)[i]
               T == Round(rows)
    <2>2. a \in Nat /\ w \in Nat
      BY <1>3, StretchesOfCandidates, StretchesFit DEF IsCandidates
    <2>3. T \in Nat /\ T > 0
      BY <1>3, WidthsOfCandidates
    <2> HIDE DEF a, w, T
    <2>4. 0 % T = 0 /\ 0 \div T = 0
      BY <2>3
    <2>5. Given(a, w, T, 0) = (0 \div T) * w
      BY <2>2, <2>3, <2>4, GivenAtRound
    <2>6. Given(a, w, T, 0) = 0
      BY <2>2, <2>4, <2>5
    <2>7. QED
      BY <2>6 DEF a, w, T
  <1>6. LoadsStayLevel
    <2>1. ASSUME NEW i \in DOMAIN rows
          PROVE  picks[i] = 0 /\ Adjusted(0, rows[i].weight) = 0
      <3>1. rows[i].weight \in Nat
        BY <1>3 DEF IsCandidates
      <3>2. \A x \in Nat : x > 0 => 0 \div x = 0
        OBVIOUS
      <3>3. QED
        BY <3>1, <3>2 DEF Adjusted, Quotient
    <2>2. QED
      BY <2>1 DEF LoadsStayLevel
  <1>7. QED
    BY <1>4, <1>5, <1>6 DEF RunIInv, SharesOK

\* Somebody is picked in every state, whatever the policy.
LEMMA PicksOK ==
  ASSUME RunTypeOK
  PROVE  /\ AlwaysOnePick
         /\ Candidates \in SUBSET DOMAIN rows
  <1>1. IsCandidates(rows) /\ counter + 1 \in Nat /\ policy \in Policies
    BY DEF RunTypeOK
  <1>2. CASE policy = "weighted_round_robin"
    <2>1. Candidates = WeightedRoundRobin(rows, counter + 1)
      BY <1>2 DEF Candidates
    <2>2. QED
      BY <1>1, <1>2, <2>1, RoundRobinPicksOne DEF AlwaysOnePick
  <1>3. CASE policy = "least_connections"
    <2>1. Candidates = LeastConnections(rows, picks)
      BY <1>3 DEF Candidates
    <2>2. \A i \in DOMAIN rows : picks[i] \in Int
      BY DEF RunTypeOK
    <2>3. QED
      BY <1>1, <1>3, <2>1, <2>2, LeastPicksOne DEF AlwaysOnePick
  <1>4. CASE policy = "random"
    <2>1. Candidates = WeightedRandom(rows)
      BY <1>4 DEF Candidates
    <2>2. QED
      BY <1>1, <1>4, <2>1, RandomPicksWeighted DEF AlwaysOnePick
  <1>5. QED
    BY <1>1, <1>2, <1>3, <1>4 DEF Policies

\* Shares after one more pick.
LEMMA SharesStep ==
  ASSUME RunIInv, Select, policy = "weighted_round_robin", NEW i \in DOMAIN rows
  PROVE  picks'[i] = Given(Start(Widths(rows), DOMAIN rows, i), Widths(rows)[i],
                           Round(rows), counter + 1)
  <1> DEFINE a == Start(Widths(rows), DOMAIN rows, i)
             w == Widths(rows)[i]
             T == Round(rows)
             hit == a <= (counter + 1) % T /\ (counter + 1) % T < a + w
  <1>1. IsCandidates(rows) /\ counter \in Nat /\ picks \in [DOMAIN rows -> Nat]
    BY DEF RunIInv, RunTypeOK
  <1>2. a \in Nat /\ w \in Nat /\ a + w <= T /\ T \in Nat /\ T > 0
    <2>1. DOMAIN rows \in SUBSET Nat /\ IsFiniteSet(DOMAIN rows)
      BY <1>1 DEF IsCandidates
    <2>2. NatOn(Widths(rows), DOMAIN rows)
      BY <1>1, StretchesOfCandidates
    <2>3. a \in Nat /\ w \in Nat /\ a + w <= T
      BY <2>1, <2>2, StretchesFit DEF Round
    <2>4. QED
      BY <1>1, <2>3, WidthsOfCandidates
  <1>3. Candidates = WeightedRoundRobin(rows, counter + 1)
    BY DEF Candidates
  <1>4. i \in Candidates <=> hit
    BY <1>1, <1>3, RoundRobinIsStretch DEF In
  <1>5. PICK k \in Candidates : picks' = [picks EXCEPT ![k] = @ + 1]
    BY DEF Select
  <1>6. \A m \in Candidates : m = k
    BY <1>1, <1>3, <1>5, RoundRobinPicksOne
  <1>7. picks[i] = Given(a, w, T, counter)
    BY DEF RunIInv, SharesOK
  <1> HIDE DEF a, w, T, hit
  <1>8. Given(a, w, T, counter + 1) = Given(a, w, T, counter) + (IF hit THEN 1 ELSE 0)
    BY <1>1, <1>2, GivenGrows DEF hit
  <1>9. picks[i] \in Nat
    BY <1>1
  <1>10. picks'[i] = picks[i] + (IF hit THEN 1 ELSE 0)
    <2>1. CASE i = k
      BY <1>1, <1>4, <1>5, <2>1
    <2>2. CASE i # k
      BY <1>1, <1>4, <1>5, <1>6, <1>9, <2>2
    <2>3. QED
      BY <2>1, <2>2
  <1>11. QED
    BY <1>7, <1>8, <1>10 DEF a, w, T

\* Loads after one more pick: the one picked was the least adjusted.
LEMMA LoadsStep ==
  ASSUME RunIInv, Select, policy = "least_connections",
         NEW i \in DOMAIN rows, NEW j \in DOMAIN rows
  PROVE  Adjusted(picks'[i], rows[i].weight) <= Adjusted(picks'[j], rows[j].weight) + 1
  <1> DEFINE A(k) == Adjusted(picks[k], rows[k].weight)
             B(k) == Adjusted(picks'[k], rows[k].weight)
  <1>1. IsCandidates(rows) /\ picks \in [DOMAIN rows -> Nat]
    BY DEF RunIInv, RunTypeOK
  <1>2. PICK k \in LeastConnections(rows, picks) : picks' = [picks EXCEPT ![k] = @ + 1]
    BY DEF Select, Candidates
  <1>3. k \in DOMAIN rows /\ \A m \in DOMAIN rows : A(k) <= A(m)
    BY <1>2 DEF LeastConnections
  <1>4. ASSUME NEW m \in DOMAIN rows
        PROVE  /\ A(m) \in Nat /\ B(m) \in Nat /\ A(m) <= B(m)
               /\ m # k => B(m) = A(m)
               /\ B(m) <= A(m) + 1
    <2>1. picks[m] \in Nat /\ rows[m].weight \in Nat
      BY <1>1 DEF IsCandidates
    <2>2. CASE m = k
      <3>1. picks'[m] = picks[m] + 1
        BY <1>1, <1>2, <2>2
      <3>2. QED
        BY <2>1, <2>2, <3>1, AdjustedGrows
    <2>3. CASE m # k
      <3>1. picks'[m] = picks[m]
        BY <1>1, <1>2, <2>3
      <3>2. A(m) \in Nat /\ B(m) = A(m)
        BY <2>1, <3>1, AdjustedGrows
      <3> HIDE DEF A, B
      <3>3. QED
        BY <2>3, <3>2
    <2>4. QED
      BY <2>2, <2>3
  <1>5. A(i) <= A(j) + 1
    BY DEF RunIInv, LoadsStayLevel
  <1> HIDE DEF A, B
  <1>6. B(i) <= B(j) + 1
    <2>1. CASE i = k
      BY <1>3, <1>4, <2>1
    <2>2. CASE i # k
      BY <1>4, <1>5, <2>2
    <2>3. QED
      BY <2>1, <2>2
  <1>7. QED
    BY <1>6 DEF B

LEMMA RunStep == RunIInv /\ [Select]_runVars => RunIInv'
  <1> SUFFICES ASSUME RunIInv, [Select]_runVars
               PROVE  RunIInv'
    OBVIOUS
  <1>1. CASE Select
    <2>1. rows' = rows /\ policy' = policy /\ counter' = counter + 1
      BY <1>1 DEF Select
    <2>2. RunTypeOK /\ counter \in Nat /\ picks \in [DOMAIN rows -> Nat]
      BY DEF RunIInv, RunTypeOK
    <2>3. RunTypeOK'
      <3>1. PICK k \in Candidates : picks' = [picks EXCEPT ![k] = @ + 1]
        BY <1>1 DEF Select
      <3>2. k \in DOMAIN rows
        BY <2>2, PicksOK
      <3>3. picks' \in [DOMAIN rows -> Nat]
        BY <2>2, <3>1, <3>2
      <3>4. IsCandidates(rows) /\ policy \in Policies
        BY <2>2 DEF RunTypeOK
      <3>5. QED
        BY <2>1, <2>2, <3>3, <3>4 DEF RunTypeOK
    <2>4. SharesOK'
      BY <1>1, <2>1, SharesStep DEF SharesOK
    <2>5. LoadsStayLevel'
      BY <1>1, <2>1, LoadsStep DEF LoadsStayLevel
    <2>6. QED
      BY <2>3, <2>4, <2>5 DEF RunIInv
  <1>2. CASE UNCHANGED runVars
    BY <1>2 DEF runVars, RunIInv, RunTypeOK, SharesOK, LoadsStayLevel
  <1>3. QED
    BY <1>1, <1>2

LEMMA RunInvariant == RunSpec => []RunIInv
  BY RunInitOK, RunStep, PTL DEF RunSpec

\* At the end of a round the shares are exact.
LEMMA SharesAreExact ==
  ASSUME RunIInv
  PROVE  RoundRobinShares
  <1> SUFFICES ASSUME policy = "weighted_round_robin", counter % Round(rows) = 0,
                      NEW i \in DOMAIN rows
               PROVE  picks[i] = (counter \div Round(rows)) * Widths(rows)[i]
    <2>1. IsCandidates(rows)
      BY DEF RunIInv, RunTypeOK
    <2>2. CASE TotalWeight(rows) = 0
      <3>1. Round(rows) = Cardinality(DOMAIN rows)
        BY <2>1, <2>2, WidthsOfCandidates
      <3>2. \A k \in DOMAIN rows : Widths(rows)[k] = 1
        BY <2>2 DEF Widths
      <3>3. QED
        BY <2>2, <3>1, <3>2 DEF RoundRobinShares
    <2>3. CASE TotalWeight(rows) # 0
      <3>1. Round(rows) = TotalWeight(rows)
        BY <2>1, <2>3, WidthsOfCandidates
      <3>2. \A k \in DOMAIN rows : Widths(rows)[k] = rows[k].weight
        BY <2>3 DEF Widths
      <3>3. QED
        BY <2>3, <3>1, <3>2 DEF RoundRobinShares
    <2>4. QED
      BY <2>2, <2>3
  <1>1. IsCandidates(rows) /\ counter \in Nat
    BY DEF RunIInv, RunTypeOK
  <1> DEFINE a == Start(Widths(rows), DOMAIN rows, i)
             w == Widths(rows)[i]
             T == Round(rows)
  <1>2. a \in Nat /\ w \in Nat
    BY <1>1, StretchesOfCandidates, StretchesFit DEF IsCandidates
  <1>3. T \in Nat /\ T > 0
    BY <1>1, WidthsOfCandidates
  <1>4. picks[i] = Given(a, w, T, counter)
    BY DEF RunIInv, SharesOK
  <1> HIDE DEF a, w, T
  <1>5. counter % T = 0
    BY DEF T
  <1>6. picks[i] = (counter \div T) * w
    BY <1>1, <1>2, <1>3, <1>4, <1>5, GivenAtRound
  <1>7. QED
    BY <1>6 DEF T, w

\* Every selection of a run picks one server.
THEOREM SomebodyIsPicked == RunSpec => []AlwaysOnePick
  <1>1. RunIInv => AlwaysOnePick
    BY PicksOK DEF RunIInv
  <1>2. QED
    BY <1>1, RunInvariant, PTL

\* Round robin gives exact shares.
THEOREM SharesFollowWeights == RunSpec => []RoundRobinShares
  <1>1. RunIInv => RoundRobinShares
    BY SharesAreExact
  <1>2. QED
    BY <1>1, RunInvariant, PTL

\* Least connections keeps loads level.
THEOREM LoadsAreLevel == RunSpec => []LoadsStayLevel
  <1>1. RunIInv => LoadsStayLevel
    BY DEF RunIInv
  <1>2. QED
    BY <1>1, RunInvariant, PTL
=============================================================================
