-------------------------- MODULE LifecycleProofs --------------------------
(***************************************************************************)
(* Proofs about Lifecycle and the parts that it is composed of: the health *)
(* checker, the sessions, the MySQL server and the shutdown.  They hold    *)
(* for any finite sets of connections and requests, any servers, browsers  *)
(* and session identifiers, with and without a metrics server.             *)
(*                                                                         *)
(* Each part has an inductive invariant of its own; only the shutdown's    *)
(* relates variables of several parts.                                     *)
(***************************************************************************)
EXTENDS Lifecycle, FiniteSetTheorems, TLAPS

\* Health: outside of a round no check is under way; a change that was recorded
\* is what is about to be told; else what was told is the status.
HealthOK(s) ==
  /\ status[s] = "unknown" => told[s] = "unhealthy"
  /\ status[s] # "unknown" /\ check[s] \in {"none", "asking"} => told[s] = status[s]
  /\ check[s] \in {"healthy", "unhealthy"} => status[s] = check[s]
  /\ status[s] = "healthy" => alive[s]
  /\ checker # "checking" => check[s] = "none"

HealthInv ==
  /\ check \in [Watched -> {"none", "asking", "healthy", "unhealthy"}]
  /\ status \in [Watched -> {"unknown", "healthy", "unhealthy"}]
  /\ told \in [Watched -> {"healthy", "unhealthy"}]
  /\ alive \in [Watched -> BOOLEAN]
  /\ \A s \in Watched : HealthOK(s)

\* Sessions: one that was logged out is not in the map, and a request that has
\* found a session which is not too old arrived while it was good.
VisitOK(b) ==
  /\ visit[b] = "found" /\ cookie[b] \notin expired => live[b]
  /\ visit[b] = "inside" => live[b]

SessionsInv ==
  /\ cookie \in [Browsers -> Ids \cup {NoId}]
  /\ visit \in [Browsers -> {"none", "found", "inside"}]
  /\ live \in [Browsers -> BOOLEAN]
  /\ sessions \cap loggedOut = {}
  /\ \A b \in Browsers : VisitOK(b)

\* MySQL: the wait group counts the accept loop and the connections it has added;
\* one that Accept has returned is not, but the loop holds it, and is.  Quit is
\* closed once main is in Stop; when Stop has waited the loop is over, or not
\* started, and does not come to Accept any more.
Added == {c \in Clients : conn[c] \notin {"none", "accepted"}}

Looping == mysql \in {"looking", "accepting", "counting"}

GroupOK == wg = Cardinality(Added) + IF Looping THEN 1 ELSE 0

AcceptedOK ==
  /\ \A c \in Clients : conn[c] = "accepted" => mysql = "counting"
  /\ \A c, d \in Clients : conn[c] = "accepted" /\ conn[d] = "accepted" => c = d

StopOK ==
  /\ main \in {"quitting", "waiting", "over"} => quit
  /\ main = "over" => Added = {} /\ mysql \notin {"accepting", "counting"}

MySQLInv ==
  /\ conn \in [Clients -> {"none", "accepted", "greeted", "ready", "executing",
                           "answering", "closing"}]
  /\ GroupOK /\ AcceptedOK /\ StopOK

\* Shutdown: the proxy's counter counts, and the requests that the shutdown has
\* found are among those counted.
CountedCalls == {r \in Calls : call[r] = "counted"}

CountsOK ==
  /\ call \in [Calls -> {"none", "accepted", "counted", "uncounted"}]
  /\ active = Cardinality(CountedCalls)
  /\ old \subseteq CountedCalls

\* Of the servers before the one that is being closed, the listeners are closed
\* and, while the process drains, the requests are over.
Passed(i) == i < closing.server

ClosingOK ==
  /\ closing \in [server : Nat, waits : BOOLEAN]
  /\ srv \in [Http -> {"starting", "open", "closed"}]
  /\ closing.waits => closing.server \in DOMAIN Order
  /\ \A i \in DOMAIN Order :
       /\ Passed(i) \/ (i = closing.server /\ closing.waits) =>
            srv[Order[i]] = "closed"
       /\ main = "draining" /\ Passed(i) /\ Order[i] = "proxy" =>
            \A r \in Calls : call[r] = "none"

ClockOK ==
  /\ main \in {"running", "draining", "quitting", "waiting", "over"}
  /\ main = "running" => clock = "early"
  /\ main = "draining" => clock # "deadline"

DrainInv == CountsOK /\ ClosingOK /\ ClockOK

IInv == HealthInv /\ SessionsInv /\ MySQLInv /\ DrainInv

-----------------------------------------------------------------------------
(* Health                                                                  *)

\* Starting a round of checks.
LEMMA StartRoundKeeps ==
  ASSUME HealthInv, NEW due \in SUBSET Watched, StartRound(due)
  PROVE  HealthInv'
  BY DEF HealthInv, HealthOK, StartRound

\* A server found healthy has answered, with no status from 500 on.
LEMMA HealthyHasAnswered ==
  ASSUME NEW p, NEW first \in Answer, NEW second \in Answer,
         Verdict(p, first, second)
  PROVE  (IF first = "dead" THEN second ELSE first) \in Below500
  BY DEF Verdict, Answer, Below500

\* Recording a check.
LEMMA RecordKeeps ==
  ASSUME HealthInv, NEW s \in Watched, NEW first \in Answer, NEW second \in Answer,
         Record(s, first, second)
  PROVE  HealthInv'
  <1> DEFINE healthy == Verdict(ProviderOf[s], first, second)
             now == IF healthy THEN "healthy" ELSE "unhealthy"
             changed == healthy # (status[s] = "healthy")
             answered == (IF first = "dead" THEN second ELSE first) \in Below500
  <1>1. /\ check[s] = "asking"
        /\ status' = [status EXCEPT ![s] = now]
        /\ alive' = [alive EXCEPT ![s] = answered]
        /\ check' = [check EXCEPT ![s] = IF changed THEN now ELSE "none"]
        /\ checker' = checker /\ told' = told
    BY DEF Record
  <1>2. now \in {"healthy", "unhealthy"} /\ answered \in BOOLEAN
    OBVIOUS
  <1>3. now = "healthy" => answered
    BY HealthyHasAnswered
  <1>4. ~ changed => now = status[s] \/ (status[s] = "unknown" /\ now = "unhealthy")
    BY DEF HealthInv
  <1> HIDE DEF now, changed, answered
  <1>5. /\ check' \in [Watched -> {"none", "asking", "healthy", "unhealthy"}]
        /\ status' \in [Watched -> {"unknown", "healthy", "unhealthy"}]
        /\ alive' \in [Watched -> BOOLEAN]
        /\ told' \in [Watched -> {"healthy", "unhealthy"}]
    BY <1>1, <1>2 DEF HealthInv
  <1>6. HealthOK(s)'
    <2>1. HealthOK(s) /\ checker = "checking"
      BY <1>1 DEF HealthInv, HealthOK
    <2>2. /\ status'[s] = now /\ alive'[s] = answered /\ told'[s] = told[s]
          /\ check'[s] = IF changed THEN now ELSE "none"
      BY <1>1 DEF HealthInv
    <2>3. QED
      BY <1>1, <1>2, <1>3, <1>4, <2>1, <2>2 DEF HealthOK
  <1>7. \A x \in Watched : x # s => HealthOK(x)'
    BY <1>1 DEF HealthInv, HealthOK
  <1>8. QED
    BY <1>5, <1>6, <1>7 DEF HealthInv

\* Telling a change.
LEMMA NotifyKeeps ==
  ASSUME HealthInv, NEW s \in Watched, Notify(s)
  PROVE  HealthInv'
  BY DEF HealthInv, HealthOK, Notify

\* Ending a round, which waits for its checks, and ending the checker.
LEMMA EndRoundKeeps ==
  ASSUME HealthInv, EndRound \/ QuitChecking
  PROVE  HealthInv'
  BY DEF HealthInv, HealthOK, EndRound, RoundOver, QuitChecking

\* Every other step.
LEMMA HealthFrame ==
  ASSUME HealthInv, UNCHANGED <<checker, check, status, told, alive>>
  PROVE  HealthInv'
  BY DEF HealthInv, HealthOK

\* No step, of whichever part, breaks HealthInv.
LEMMA HealthPreserved == HealthInv /\ [Next]_vars => HealthInv'
  <1> SUFFICES ASSUME HealthInv, [Next]_vars
               PROVE  HealthInv'
    OBVIOUS
  <1>1. CASE HealthNext
    BY <1>1, StartRoundKeeps, RecordKeeps, NotifyKeeps, EndRoundKeeps
       DEF HealthNext
  <1>2. CASE UNCHANGED <<checker, check, status, told, alive>>
    BY <1>2, HealthFrame
  <1>3. QED
    BY <1>1, <1>2
       DEF Next, ListenHttp, ListenMySQL, ProxyStep, HealthStep, SessionStep,
           MySQLServerStep, MySQLFrame, BeginShutdown, StopChecker,
           MainStops, Drain, StopMySQL, HttpCloses, CloseHttp, HttpClosed, Later, vars,
           healthVars

-----------------------------------------------------------------------------
(* Sessions                                                                *)

\* Logging in keeps SessionsInv: the identifier is new, to every client.
LEMMA LoginKeeps ==
  ASSUME SessionsInv, NEW b \in Browsers, NEW i \in Ids, Login(b, i)
  PROVE  SessionsInv'
  BY DEF SessionsInv, VisitOK, Login

\* So does logging out, whose cookie is only dropped between requests, ...
LEMMA LogoutKeeps ==
  ASSUME SessionsInv, NEW b \in Browsers, NEW forget \in BOOLEAN, Logout(b, forget)
  PROVE  SessionsInv'
  BY DEF SessionsInv, VisitOK, Logout, Removed, Good

\* ... the arrival of a request, ...
LEMMA AskKeeps ==
  ASSUME SessionsInv, NEW b \in Browsers, Ask(b)
  PROVE  SessionsInv'
  BY DEF SessionsInv, VisitOK, Ask, Visit, Good

\* ... the look at the session's age, and the end of the request.
LEMMA CheckExpiryKeeps ==
  ASSUME SessionsInv, NEW b \in Browsers, CheckExpiry(b) \/ Leave(b)
  PROVE  SessionsInv'
  BY DEF SessionsInv, VisitOK, CheckExpiry, Leave, Visit, Unexpired

\* Time and the sweep keep it.
LEMMA AgingKeeps ==
  ASSUME SessionsInv, Sweep \/ \E i \in Ids : Expire(i)
  PROVE  SessionsInv'
  BY DEF SessionsInv, VisitOK, Sweep, Expire, Good

\* Every other step.
LEMMA SessionsFrame ==
  ASSUME SessionsInv, UNCHANGED sessionVars
  PROVE  SessionsInv'
  BY DEF SessionsInv, VisitOK, sessionVars

\* No step, of whichever part, breaks SessionsInv.
LEMMA SessionsPreserved == SessionsInv /\ [Next]_vars => SessionsInv'
  <1> SUFFICES ASSUME SessionsInv, [Next]_vars
               PROVE  SessionsInv'
    OBVIOUS
  <1>1. CASE SessionStep
    BY <1>1, LoginKeeps, LogoutKeeps, AskKeeps, CheckExpiryKeeps, AgingKeeps
       DEF SessionStep
  <1>2. CASE UNCHANGED sessionVars
    BY <1>2, SessionsFrame
  <1>3. QED
    BY <1>1, <1>2
       DEF Next, ListenHttp, ListenMySQL, ProxyStep, HealthStep,
           MySQLServerStep, MySQLFrame, BeginShutdown, MainStops, Drain, StopMySQL,
           HttpCloses, CloseHttp, HttpClosed, Later, vars

-----------------------------------------------------------------------------
(* The MySQL server                                                        *)

\* Connections can be counted.
LEMMA AddedIsFinite ==
  IsFiniteSet(Added) /\ Cardinality(Added) \in Nat
  BY ClientsAssumption, FS_Subset, FS_CardinalityType DEF Added

\* When the group is empty, so is the set of connections, and no loop is running.
LEMMA EmptyGroup ==
  ASSUME MySQLInv, wg = 0
  PROVE  Added = {} /\ ~ Looping
  <1>1. Cardinality(Added) = 0 /\ ~ Looping
    BY AddedIsFinite DEF MySQLInv, GroupOK
  <1>2. QED
    BY <1>1, AddedIsFinite, FS_EmptySet

\* A connection that moves to another stage is still one.
LEMMA SameAdded ==
  ASSUME MySQLInv, NEW c \in Clients, c \in Added,
         NEW stage \in {"greeted", "ready", "executing", "answering", "closing"},
         Connection(c, stage), UNCHANGED <<mysql, wg, quit, main>>
  PROVE  MySQLInv'
  <1>1. conn' \in [Clients -> {"none", "accepted", "greeted", "ready", "executing",
                              "answering", "closing"}]
    BY DEF MySQLInv, Connection
  <1>2. Added' = Added /\ \A d \in Clients : conn'[d] = "accepted" => conn[d] = "accepted"
    BY DEF MySQLInv, Connection, Added
  <1>3. QED
    BY <1>1, <1>2 DEF MySQLInv, GroupOK, Looping, AcceptedOK, StopOK

\* Start and the accept loop, but for connections: the loop counts itself in and
\* out, looks at quit before it comes to Accept, and is over once main is.
LEMMA LoopKeeps ==
  ASSUME MySQLInv, main' = main,
         Listen \/ FailToListen \/ StartLoop \/ LookAtQuit \/ AcceptFails
  PROVE  MySQLInv'
  <1>1. UNCHANGED <<conn, quit>> /\ Added' = Added
    BY DEF Added, Listen, FailToListen, StartLoop, LookAtQuit, AcceptFails, LoopEnds, Loop
  <1>2. AcceptedOK'
    BY <1>1 DEF MySQLInv, AcceptedOK, Listen, FailToListen, StartLoop, LookAtQuit,
                AcceptFails, LoopEnds, Loop
  <1>3. GroupOK'
    BY <1>1, AddedIsFinite
       DEF MySQLInv, GroupOK, Looping, Listen, FailToListen, StartLoop, LookAtQuit,
           AcceptFails, LoopEnds, Loop, LoopCount
  <1>4. StopOK'
    BY <1>1 DEF MySQLInv, StopOK, Listen, FailToListen, StartLoop, LookAtQuit,
                AcceptFails, LoopEnds, Loop
  <1>5. QED
    BY <1>1, <1>2, <1>3, <1>4 DEF MySQLInv

\* Accept returns one connection at a time, to the loop, ...
LEMMA AcceptKeeps ==
  ASSUME MySQLInv, NEW c \in Clients, Accept(c), main' = main
  PROVE  MySQLInv'
  <1>1. /\ mysql = "accepting" /\ mysql' = "counting"
        /\ conn[c] = "none" /\ conn' = [conn EXCEPT ![c] = "accepted"]
        /\ UNCHANGED <<wg, quit>>
    BY DEF Accept, Loop, Connection
  <1>2. \A d \in Clients : conn'[d] = IF d = c THEN "accepted" ELSE conn[d]
    BY <1>1 DEF MySQLInv
  <1>3. \A d \in Clients : conn[d] # "accepted"
    BY <1>1 DEF MySQLInv, AcceptedOK
  <1>4. Added' = Added
    BY <1>1, <1>2 DEF Added
  <1>5. conn' \in [Clients -> {"none", "accepted", "greeted", "ready", "executing",
                              "answering", "closing"}]
    BY <1>1 DEF MySQLInv
  <1>6. AcceptedOK'
    BY <1>1, <1>2, <1>3 DEF AcceptedOK
  <1>7. GroupOK' /\ StopOK'
    BY <1>1, <1>4 DEF MySQLInv, GroupOK, Looping, StopOK
  <1>8. QED
    BY <1>5, <1>6, <1>7 DEF MySQLInv

\* ... which adds it to the group, ...
LEMMA AddConnectionKeeps ==
  ASSUME MySQLInv, NEW c \in Clients, AddConnection(c), main' = main
  PROVE  MySQLInv'
  <1>1. /\ mysql = "counting" /\ mysql' = "looking"
        /\ conn[c] = "accepted" /\ conn' = [conn EXCEPT ![c] = "greeted"]
        /\ wg' = wg + 1 /\ quit' = quit
    BY DEF AddConnection, Loop, Connection
  <1>2. \A d \in Clients : conn'[d] = IF d = c THEN "greeted" ELSE conn[d]
    BY <1>1 DEF MySQLInv
  <1>3. Added' = Added \cup {c} /\ c \notin Added
    BY <1>1, <1>2 DEF Added
  <1>4. Cardinality(Added') = Cardinality(Added) + 1
    BY <1>3, AddedIsFinite, FS_AddElement
  <1>5. conn' \in [Clients -> {"none", "accepted", "greeted", "ready", "executing",
                              "answering", "closing"}]
    BY <1>1 DEF MySQLInv
  <1>6. AcceptedOK'
    BY <1>1, <1>2 DEF MySQLInv, AcceptedOK
  <1>7. GroupOK'
    BY <1>1, <1>4, AddedIsFinite DEF MySQLInv, GroupOK, Looping
  <1>8. StopOK'
    BY <1>1 DEF MySQLInv, StopOK
  <1>9. QED
    BY <1>5, <1>6, <1>7, <1>8 DEF MySQLInv

\* ... and its end takes it out.
LEMMA EndConnectionKeeps ==
  ASSUME MySQLInv, NEW c \in Clients, EndConnection(c), main' = main
  PROVE  MySQLInv'
  <1>1. /\ conn[c] = "closing" /\ conn' = [conn EXCEPT ![c] = "none"]
        /\ wg' = wg - 1 /\ UNCHANGED <<mysql, quit>>
    BY DEF EndConnection, Connection
  <1>2. \A d \in Clients : conn'[d] = IF d = c THEN "none" ELSE conn[d]
    BY <1>1 DEF MySQLInv
  <1>3. Added' = Added \ {c} /\ c \in Added
    BY <1>1, <1>2 DEF Added
  <1>4. Cardinality(Added') = Cardinality(Added) - 1
    BY <1>3, AddedIsFinite, FS_RemoveElement
  <1>5. conn' \in [Clients -> {"none", "accepted", "greeted", "ready", "executing",
                              "answering", "closing"}]
    BY <1>1 DEF MySQLInv
  <1>6. AcceptedOK' /\ StopOK'
    BY <1>1, <1>2, <1>3 DEF MySQLInv, AcceptedOK, StopOK
  <1>7. GroupOK'
    BY <1>1, <1>4, AddedIsFinite DEF MySQLInv, GroupOK, Looping
  <1>8. QED
    BY <1>5, <1>6, <1>7 DEF MySQLInv

\* The steps of main: Stop closes quit first, and ends when the group is empty.
LEMMA MainKeepsMySQL ==
  ASSUME MySQLInv, UNCHANGED <<mysql, conn, wg>>,
         \/ main' = main /\ quit' = quit
         \/ main' = "draining" /\ quit' = quit
         \/ main' = "quitting" /\ quit' = TRUE
         \/ main = "quitting" /\ main' = "waiting" /\ quit' = quit
         \/ main = "waiting" /\ main' = "over" /\ quit' = quit /\ wg = 0
  PROVE  MySQLInv'
  <1>1. Added' = Added
    BY DEF Added
  <1>2. GroupOK' /\ AcceptedOK'
    BY <1>1 DEF MySQLInv, GroupOK, Looping, AcceptedOK
  <1>3. StopOK'
    BY <1>1, EmptyGroup DEF MySQLInv, StopOK, Looping
  <1>4. QED
    BY <1>2, <1>3 DEF MySQLInv

\* No step, of whichever part, breaks MySQLInv.
LEMMA MySQLPreserved == MySQLInv /\ [Next]_vars => MySQLInv'
  <1> SUFFICES ASSUME MySQLInv, [Next]_vars
               PROVE  MySQLInv'
    OBVIOUS
  <1>1. CASE MySQLServerStep
    <2>1. main' = main
      BY <1>1 DEF MySQLServerStep, MySQLFrame, mainVars
    <2>2. ASSUME NEW c \in Clients,
                 \/ \E who \in People : Respond(c, who)
                 \/ SendCommand(c)
                 \/ Executed(c)
                 \/ Written(c)
                 \/ HangUp(c)
          PROVE  MySQLInv'
      <3>1. /\ c \in Added /\ UNCHANGED <<mysql, wg, quit>>
            /\ \E stage \in {"greeted", "ready", "executing", "answering", "closing"} :
                 Connection(c, stage)
        BY <2>2 DEF Respond, SendCommand, Executed, Written, HangUp, NextCommand, Added
      <3>2. QED
        BY <2>1, <3>1, SameAdded
    <2>3. QED
      BY <1>1, <2>1, <2>2, LoopKeeps, AcceptKeeps, AddConnectionKeeps, EndConnectionKeeps
         DEF MySQLServerStep, MySQLNext, LoopStep, ConnectionStep, ClientStep
  <1>2. CASE ListenMySQL
    BY <1>2, LoopKeeps DEF ListenMySQL, mainVars
  <1>3. CASE BeginShutdown \/ StopMySQL
    BY <1>3, MainKeepsMySQL
       DEF BeginShutdown, StopMySQL, MainStep, CloseListener, Waited, mysqlVars
  <1>4. CASE \E reason \in {"timeout", "no active requests", "servers closed"} : Drain(reason)
    BY <1>4, MainKeepsMySQL DEF Drain, MainStep, CloseQuit
  <1>5. CASE UNCHANGED <<main, mysqlVars>>
    BY <1>5, MainKeepsMySQL DEF mysqlVars
  <1>6. QED
    BY <1>1, <1>2, <1>3, <1>4, <1>5
       DEF Next, ListenHttp, ProxyStep, HealthStep, SessionStep, MainStops, HttpCloses,
           CloseHttp, HttpClosed, Later, vars, mainVars

-----------------------------------------------------------------------------
(* The shutdown                                                            *)

\* The proxy is one of the HTTP servers, the positions of servers are naturals,
\* and who is past the last position is past the proxy.
LEMMA ProxyIsServed ==
  /\ "proxy" \in Http
  /\ DOMAIN Order \subseteq Nat \ {0}
  /\ \A n \in Nat :
       n > Len(Order) => \E i \in DOMAIN Order : Order[i] = "proxy" /\ i < n
  BY OrderAssumption DEF Http

\* Requests can be counted.
LEMMA CountedIsFinite ==
  IsFiniteSet(CountedCalls) /\ Cardinality(CountedCalls) \in Nat
  BY CallsAssumption, FS_Subset, FS_CardinalityType DEF CountedCalls

\* A listener that opens, or does not, keeps DrainInv: one that was closed is
\* not opened any more.
LEMMA ListenHttpKeeps ==
  ASSUME DrainInv, NEW h \in Http, ListenHttp(h)
  PROVE  DrainInv'
  <1>1. /\ srv[h] = "starting"
        /\ srv' \in [Http -> {"starting", "open", "closed"}]
        /\ \A x \in Http : x # h => srv'[x] = srv[x]
        /\ UNCHANGED <<mainVars, proxyVars>>
    BY DEF ListenHttp, DrainInv, ClosingOK
  <1>2. ClosingOK'
    <2>1. \A i \in DOMAIN Order : srv[Order[i]] = "closed" => srv'[Order[i]] = "closed"
      BY <1>1 DEF Http
    <2>2. QED
      BY <1>1, <2>1 DEF DrainInv, ClosingOK, Passed, mainVars, proxyVars
  <1>3. CountsOK' /\ ClockOK'
    BY <1>1 DEF DrainInv, CountsOK, CountedCalls, ClockOK,
                mainVars, proxyVars
  <1>4. QED
    BY <1>2, <1>3 DEF DrainInv

\* The proxy's requests keep DrainInv: none arrives once its listener is closed.
LEMMA ProxyStepKeeps ==
  ASSUME DrainInv, NEW r \in Calls, ProxyStep(r)
  PROVE  DrainInv'
  <1>0. /\ CountsOK /\ ClosingOK /\ ClockOK
        /\ UNCHANGED <<mainVars, srv>>
    BY DEF DrainInv, ProxyStep
  <1>1. ClosingOK'
    <2>1. ASSUME NEW i \in DOMAIN Order, main = "draining", Passed(i),
                 Order[i] = "proxy"
          PROVE  FALSE
      <3>1. srv["proxy"] = "closed" /\ call[r] = "none"
        BY <1>0, <2>1 DEF ClosingOK
      <3>2. QED
        BY <3>1 DEF ProxyStep, Arrive, Track, Finish, CallStep
    <2>2. QED
      BY <1>0, <2>1 DEF ClosingOK, Passed, mainVars
  <1>2. ClockOK'
    BY <1>0 DEF ClockOK, mainVars
  <1>3. CASE call[r] # "counted" /\ call'[r] # "counted"
    <2>1. CountedCalls' = CountedCalls /\ active' = active /\ old' \subseteq old
      BY <1>0, <1>3
         DEF ProxyStep, Arrive, Track, Finish, CallStep, CountsOK, CountedCalls
    <2>2. r \notin CountedCalls /\ r \notin old
      BY <1>0, <1>3 DEF CountsOK, CountedCalls
    <2>3. CountsOK'
      BY <1>0, <2>1
         DEF CountsOK, ProxyStep, Arrive, Track, Finish, CallStep
    <2>4. QED
      BY <1>1, <1>2, <2>3 DEF DrainInv
  <1>4. CASE call'[r] = "counted"
    <2>1. /\ call[r] = "accepted"
          /\ call' = [call EXCEPT ![r] = "counted"]
          /\ active' = active + 1 /\ old' = old
      BY <1>0, <1>4 DEF ProxyStep, Arrive, Track, Finish, CallStep, CountsOK,
                        AfterCounting
    <2>2. CountedCalls' = CountedCalls \cup {r} /\ r \notin CountedCalls
      BY <1>0, <2>1 DEF CountsOK, CountedCalls
    <2>3. Cardinality(CountedCalls') = Cardinality(CountedCalls) + 1
      BY <2>2, CountedIsFinite, FS_AddElement
    <2>4. CountsOK'
      BY <1>0, <2>1, <2>2, <2>3, CountedIsFinite DEF CountsOK
    <2>5. QED
      BY <1>1, <1>2, <2>4 DEF DrainInv
  <1>5. CASE call[r] = "counted"
    <2>1. /\ call' = [call EXCEPT ![r] = "none"]
          /\ active' = active - 1 /\ old' = old \ {r}
      BY <1>0, <1>5 DEF ProxyStep, Arrive, Track, Finish, CallStep, CountsOK,
                        AfterCounting, CountedCalls
    <2>2. CountedCalls' = CountedCalls \ {r} /\ r \in CountedCalls
      BY <1>0, <1>5, <2>1 DEF CountsOK, CountedCalls
    <2>3. Cardinality(CountedCalls') = Cardinality(CountedCalls) - 1
      BY <2>2, CountedIsFinite, FS_RemoveElement
    <2>4. CountsOK'
      BY <1>0, <2>1, <2>2, <2>3, CountedIsFinite DEF CountsOK
    <2>5. QED
      BY <1>1, <1>2, <2>4 DEF DrainInv
  <1>6. QED
    BY <1>3, <1>4, <1>5

\* The start of the shutdown keeps DrainInv: no listener is closed yet.
LEMMA BeginShutdownKeeps ==
  ASSUME DrainInv, BeginShutdown
  PROVE  DrainInv'
  <1>1. /\ main = "running" /\ main' = "draining"
        /\ closing' = [server |-> 1, waits |-> FALSE]
        /\ old' = CountedCalls
        /\ UNCHANGED <<clock, srv, call, active>>
    BY DEF BeginShutdown, MainStep, CountedCalls
  <1>2. CountsOK'
    BY <1>1 DEF DrainInv, CountsOK, CountedCalls
  <1>3. ClosingOK'
    <2>1. \A i \in DOMAIN Order : ~ Passed(i)'
      BY <1>1, ProxyIsServed DEF Passed
    <2>2. QED
      BY <1>1, <2>1 DEF DrainInv, ClosingOK
  <1>4. ClockOK'
    BY <1>1 DEF DrainInv, ClockOK
  <1>5. QED
    BY <1>2, <1>3, <1>4 DEF DrainInv

\* Closing the next listener keeps DrainInv, ...
LEMMA CloseHttpKeeps ==
  ASSUME DrainInv, CloseHttp
  PROVE  DrainInv'
  <1>1. /\ closing.server \in DOMAIN Order /\ ~ closing.waits
        /\ srv' = [srv EXCEPT ![Order[closing.server]] = "closed"]
        /\ closing' = [closing EXCEPT !.waits = TRUE]
        /\ UNCHANGED <<main, clock, proxyVars>>
    BY DEF CloseHttp
  <1>2. ClosingOK'
    <2>1. /\ closing' \in [server : Nat, waits : BOOLEAN]
          /\ closing'.server = closing.server
      BY <1>1 DEF DrainInv, ClosingOK
    <2>2. /\ srv' \in [Http -> {"starting", "open", "closed"}]
          /\ srv'[Order[closing.server]] = "closed"
          /\ \A h \in Http : srv[h] = "closed" => srv'[h] = "closed"
      BY <1>1 DEF DrainInv, ClosingOK, Http
    <2>3. \A i \in DOMAIN Order : Passed(i)' <=> Passed(i)
      BY <2>1 DEF Passed
    <2>4. QED
      BY <1>1, <2>1, <2>2, <2>3 DEF DrainInv, ClosingOK, Http, proxyVars
  <1>3. CountsOK' /\ ClockOK'
    BY <1>1 DEF DrainInv, CountsOK, CountedCalls, ClockOK, proxyVars
  <1>4. QED
    BY <1>2, <1>3 DEF DrainInv

\* ... and so does being done with it: while the process drains, the deadline
\* has not passed, so that the server's requests are over.
LEMMA HttpClosedKeeps ==
  ASSUME DrainInv, HttpClosed
  PROVE  DrainInv'
  <1>1. /\ closing.waits
        /\ IdleHttp(Order[closing.server]) \/ clock = "deadline"
        /\ closing' = [server |-> closing.server + 1, waits |-> FALSE]
        /\ UNCHANGED <<main, clock, srv, proxyVars>>
    BY DEF HttpClosed
  <1>2. /\ closing.server \in Nat /\ closing.server \in DOMAIN Order
        /\ srv[Order[closing.server]] = "closed"
    BY <1>1 DEF DrainInv, ClosingOK
  <1>3. main = "draining" /\ Order[closing.server] = "proxy" =>
          \A r \in Calls : call[r] = "none"
    BY <1>1 DEF DrainInv, ClockOK, IdleHttp
  <1>4. ClosingOK'
    <2>1. ASSUME NEW i \in DOMAIN Order
          PROVE  Passed(i)' <=> Passed(i) \/ i = closing.server
      BY <1>1, <1>2, ProxyIsServed DEF Passed
    <2>2. /\ closing' \in [server : Nat, waits : BOOLEAN]
          /\ ~ closing'.waits
      BY <1>1, <1>2
    <2>3. ASSUME NEW i \in DOMAIN Order
          PROVE  /\ Passed(i)' => srv'[Order[i]] = "closed"
                 /\ main' = "draining" /\ Passed(i)' /\ Order[i] = "proxy" =>
                      \A r \in Calls : call'[r] = "none"
      BY <1>1, <1>2, <1>3, <2>1 DEF DrainInv, ClosingOK, proxyVars
    <2>4. QED
      BY <1>1, <2>2, <2>3 DEF DrainInv, ClosingOK
  <1>5. CountsOK' /\ ClockOK'
    BY <1>1 DEF DrainInv, CountsOK, CountedCalls, ClockOK, proxyVars
  <1>6. QED
    BY <1>4, <1>5 DEF DrainInv

\* Time keeps DrainInv.
LEMMA LaterKeeps ==
  ASSUME DrainInv, Later
  PROVE  DrainInv'
  BY DEF DrainInv, Later, CountsOK, CountedCalls, ClosingOK, Passed, ClockOK, proxyVars

\* The end of the drain loop keeps DrainInv, ...
LEMMA DrainKeeps ==
  ASSUME DrainInv, NEW reason, Drain(reason)
  PROVE  DrainInv'
  BY DEF DrainInv, Drain, MainStep, CountsOK, CountedCalls, ClosingOK, Passed, ClockOK

\* ... and unless it gives up, nothing that it waited for is left.
LEMMA DrainEndsLast ==
  ASSUME DrainInv, NEW reason \in {"timeout", "no active requests", "servers closed"},
         Drain(reason)
  PROVE  old = {} \/ clock # "early"
  <1>1. main = "draining" /\ Drained(reason)
    BY DEF Drain, MainStep
  <1>2. CASE reason = "timeout"
    BY <1>1, <1>2 DEF Drained
  <1>3. CASE reason = "no active requests"
    <2>1. Cardinality(CountedCalls) = 0
      BY <1>1, <1>3 DEF Drained, DrainInv, CountsOK
    <2>2. QED
      BY <2>1, CountedIsFinite, FS_EmptySet DEF DrainInv, CountsOK
  <1>4. CASE reason = "servers closed"
    <2>1. closing.server > Len(Order) /\ closing.server \in Nat
      BY <1>1, <1>4 DEF Drained, DrainInv, ClosingOK
    <2>2. PICK i \in DOMAIN Order : Order[i] = "proxy" /\ Passed(i)
      BY <2>1, ProxyIsServed DEF Passed
    <2>3. CountedCalls = {}
      BY <1>1, <2>2 DEF DrainInv, ClosingOK, CountedCalls
    <2>4. QED
      BY <2>3 DEF DrainInv, CountsOK
  <1>5. QED
    BY <1>2, <1>3, <1>4

\* The last steps of main, and those of the other parts, keep DrainInv.
LEMMA StopKeeps ==
  ASSUME DrainInv, UNCHANGED <<clock, closing, srv, proxyVars>>,
         \/ main' = main
         \/ main = "quitting" /\ main' = "waiting"
         \/ main = "waiting" /\ main' = "over"
  PROVE  DrainInv'
  BY DEF DrainInv, CountsOK, CountedCalls, ClosingOK, Passed, ClockOK, proxyVars

\* No step, of whichever part, breaks DrainInv.
LEMMA DrainPreserved == DrainInv /\ [Next]_vars => DrainInv'
  <1> SUFFICES ASSUME DrainInv, [Next]_vars
               PROVE  DrainInv'
    OBVIOUS
  <1>1. CASE ListenMySQL \/ HealthStep \/ SessionStep \/ MySQLServerStep
    BY <1>1, StopKeeps
       DEF ListenMySQL, HealthStep, SessionStep, MySQLServerStep, MySQLFrame, mainVars
  <1>2. CASE StopMySQL
    BY <1>2, StopKeeps DEF StopMySQL, MainStep
  <1>3. CASE UNCHANGED vars
    BY <1>3, StopKeeps DEF vars, mainVars
  <1>4. QED
    BY <1>1, <1>2, <1>3, ListenHttpKeeps, ProxyStepKeeps, BeginShutdownKeeps,
       CloseHttpKeeps, HttpClosedKeeps, LaterKeeps, DrainKeeps
       DEF Next, MainStops, HttpCloses

-----------------------------------------------------------------------------
(* The theorems                                                            *)

\* Every program start satisfies the invariants.
LEMMA InitEstablishes == Init => IInv
  <1> SUFFICES ASSUME Init
               PROVE  IInv
    OBVIOUS
  <1>1. HealthInv
    BY DEF Init, HealthInit, HealthInv, HealthOK
  <1>2. SessionsInv
    BY DEF Init, SessionsInit, SessionsInv, VisitOK
  <1>3. MySQLInv
    <2>1. Added = {}
      BY DEF Init, MySQLInit, Added
    <2>2. QED
      BY <2>1, FS_EmptySet
         DEF Init, MySQLInit, MySQLInv, GroupOK, Looping, AcceptedOK, StopOK
  <1>4. DrainInv
    <2>1. CountedCalls = {}
      BY DEF Init, CountedCalls
    <2>2. CountsOK
      BY <2>1, FS_EmptySet DEF Init, CountsOK
    <2>3. ClosingOK
      BY ProxyIsServed DEF Init, ClosingOK, Passed
    <2>4. QED
      BY <2>2, <2>3 DEF Init, DrainInv, ClockOK
  <1>5. QED
    BY <1>1, <1>2, <1>3, <1>4 DEF IInv

\* IInv holds throughout.
LEMMA Inductive == Spec => []IInv
  <1>1. IInv /\ [Next]_vars => IInv'
    BY HealthPreserved, SessionsPreserved, MySQLPreserved, DrainPreserved DEF IInv
  <1>2. QED
    BY <1>1, InitEstablishes, PTL DEF Spec

\* The drain loop of main, unless 25 seconds pass, outlasts the requests that
\* were counted when the shutdown began.
THEOREM DrainOutlastsRequests == Spec => OldRequestsDrain
  <1>1. IInv /\ [Next]_vars =>
          [main = "draining" /\ main' # "draining" => old = {} \/ clock # "early"]_vars
    <2> SUFFICES ASSUME IInv, Next, main = "draining", main' # "draining"
                 PROVE  old = {} \/ clock # "early"
      OBVIOUS
    <2>1. PICK reason \in {"timeout", "no active requests", "servers closed"} : Drain(reason)
      BY DEF Next, ListenHttp, ListenMySQL, ProxyStep, HealthStep, SessionStep,
             MySQLServerStep, MySQLFrame, BeginShutdown, MainStops, StopMySQL, MainStep,
             HttpCloses, CloseHttp, HttpClosed, Later, mainVars
    <2>2. QED
      BY <2>1, DrainEndsLast DEF IInv
  <1>2. QED
    BY <1>1, Inductive, PTL DEF Spec, OldRequestsDrain

\* When MySQLServer.Stop has waited and main returns, no connection that Accept
\* has returned is left, or still to be counted, though Accept may return one and
\* acceptLoop add it after quit is closed: until then the loop itself counts.
THEOREM NoCommandIsCut == Spec => []CommandsFinish
  <1>1. IInv => CommandsFinish
    <2> SUFFICES ASSUME IInv, main = "over", NEW c \in Clients
                 PROVE  conn[c] = "none"
      BY DEF CommandsFinish
    <2>1. Added = {} /\ mysql # "counting"
      BY DEF IInv, MySQLInv, StopOK
    <2>2. conn[c] # "accepted"
      BY <2>1 DEF IInv, MySQLInv, AcceptedOK
    <2>3. QED
      BY <2>1, <2>2 DEF Added
  <1>2. QED
    BY <1>1, Inductive, PTL

\* A request at the admin interface is let in only on a session that was good
\* when it arrived.
THEOREM SessionsAreChecked == Spec => []SessionsAdmit
  <1>1. IInv => SessionsAdmit
    BY DEF IInv, SessionsInv, VisitOK, SessionsAdmit
  <1>2. QED
    BY <1>1, Inductive, PTL

\* What the callback was last told is the status of the server, once no check of
\* it is under way, and a healthy server has answered its last check.
THEOREM NoticesKeepUp == Spec => []NoticesAreCurrent
  <1>1. IInv => NoticesAreCurrent
    BY DEF IInv, HealthInv, HealthOK, NoticesAreCurrent, IsHealthy
  <1>2. QED
    BY <1>1, Inductive, PTL
=============================================================================
