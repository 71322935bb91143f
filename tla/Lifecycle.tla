------------------------------ MODULE Lifecycle ------------------------------
(***************************************************************************)
(* cmd/mindbalancer/main.go from the moment the servers are started: what  *)
(* brings the process down, and how it drains.  The health checker, the    *)
(* admin HTTP server with its sessions, the MySQL server and the proxy's   *)
(* count of active requests take part.                                     *)
(***************************************************************************)
EXTENDS Health, Sessions, MySQLServer, Sequences

CONSTANTS Calls,   \* requests at the proxy server
          Order    \* HTTP servers, as they are shut down

\* The metrics server is optional.
ASSUME OrderAssumption == Order \in {<<"metrics", "admin", "proxy">>, <<"admin", "proxy">>}
ASSUME CallsAssumption == IsFiniteSet(Calls)

VARIABLES
  main,      \* running, draining, quitting and waiting in Stop of the MySQL
             \* server, over
  clock,     \* since the shutdown began: early, drain timeout, deadline
  srv,       \* HTTP servers: starting, open or closed
  closing,   \* the goroutine that shuts them down, one after the other
  failed,    \* does an error of a server wait for main?
  call,      \* of each request, where it is
  active,    \* activeRequests
  old        \* history: requests counted when the shutdown began and unfinished,
             \* as long as the drain loop lasts

mainVars == <<main, clock, closing>>
proxyVars == <<call, active, old>>
vars == <<mainVars, srv, failed, proxyVars, healthVars, sessionVars, mysqlVars>>

Http == {Order[i] : i \in DOMAIN Order}

Init ==
  /\ HealthInit /\ SessionsInit /\ MySQLInit
  /\ main = "running" /\ clock = "early"
  /\ srv = [h \in Http |-> "starting"]
  /\ closing = [server |-> 0, waits |-> FALSE]
  /\ failed = FALSE
  /\ call = [r \in Calls |-> "none"]
  /\ active = 0
  /\ old = {}

-----------------------------------------------------------------------------
(* Faulty variants of operators below, used by none of them.               *)

\* The counter is never touched.
NobodyCounts(n) == active

\* Errors of servers are logged and the process goes on.
OnlySignals == FALSE

-----------------------------------------------------------------------------
(* Listening                                                               *)

\* The error of a server; main waits for the first.
Fail == failed' = (main = "running")

ListenHttp(h) ==
  /\ srv[h] = "starting"
  /\ \/ srv' = [srv EXCEPT ![h] = "open"] /\ UNCHANGED failed
     \/ srv' = [srv EXCEPT ![h] = "closed"] /\ Fail
  /\ UNCHANGED <<mainVars, proxyVars, healthVars, sessionVars, mysqlVars>>

ListenMySQL ==
  /\ \/ (Listen \/ StartLoop) /\ UNCHANGED failed
     \/ FailToListen /\ Fail
  /\ UNCHANGED <<mainVars, srv, proxyVars, healthVars, sessionVars>>

-----------------------------------------------------------------------------
(* Requests at the proxy                                                   *)

CallStep(r, from, to) == call[r] = from /\ call' = [call EXCEPT ![r] = to]

AfterCounting(n) == active + n

Arrive(r) ==
  /\ srv["proxy"] = "open"
  /\ CallStep(r, "none", "accepted")
  /\ UNCHANGED <<active, old>>

\* trackActiveRequests; health checks pass by the counter.
Track(r) ==
  /\ \/ CallStep(r, "accepted", "counted") /\ active' = AfterCounting(1)
     \/ CallStep(r, "accepted", "uncounted") /\ UNCHANGED active
  /\ UNCHANGED old

\* The response is written; upstream calls and writes have time limits.
Finish(r) ==
  /\ \/ CallStep(r, "counted", "none") /\ active' = AfterCounting(-1)
     \/ CallStep(r, "uncounted", "none") /\ UNCHANGED active
  /\ old' = old \ {r}

ProxyStep(r) ==
  /\ Arrive(r) \/ Track(r) \/ Finish(r)
  /\ UNCHANGED <<mainVars, srv, failed, healthVars, sessionVars, mysqlVars>>

-----------------------------------------------------------------------------
(* Shutting down                                                           *)

MainStep(from, to) == main = from /\ main' = to

\* A signal, or the error of a server, which is taken.  The checker is told first,
\* then the goroutine that closes the HTTP servers is started.
BeginShutdown ==
  /\ MainStep("running", "draining")
  /\ StopChecker
  /\ closing' = [server |-> 1, waits |-> FALSE]
  /\ old' = {r \in Calls : call[r] = "counted"}
  /\ failed' = FALSE
  /\ UNCHANGED <<clock, srv, call, active, sessionVars, mysqlVars>>

Failure == failed

BeginAfterFailure == Failure /\ BeginShutdown

IdleHttp(h) ==
  CASE h = "metrics" -> TRUE
    [] h = "admin" -> \A b \in Browsers : visit[b] = "none"
    [] h = "proxy" -> \A r \in Calls : call[r] = "none"

\* Shutdown closes the listener of a server, ...
CloseHttp ==
  /\ closing.server \in DOMAIN Order /\ ~ closing.waits
  /\ srv' = [srv EXCEPT ![Order[closing.server]] = "closed"]
  /\ closing' = [closing EXCEPT !.waits = TRUE]
  /\ UNCHANGED <<main, clock, failed, proxyVars, healthVars, sessionVars, mysqlVars>>

\* ... then waits until its requests are over or the context is.
HttpClosed ==
  /\ closing.waits
  /\ IdleHttp(Order[closing.server]) \/ clock = "deadline"
  /\ closing' = [server |-> closing.server + 1, waits |-> FALSE]
  /\ UNCHANGED <<main, clock, srv, failed, proxyVars, healthVars, sessionVars, mysqlVars>>

\* 25 seconds since the shutdown began, then 30; the drain loop takes less than
\* the five seconds between to see that the first have passed.
Later ==
  /\ \/ main # "running" /\ clock = "early" /\ clock' = "drain timeout"
     \/ main # "draining" /\ clock = "drain timeout" /\ clock' = "deadline"
  /\ UNCHANGED <<main, srv, closing, failed, proxyVars, healthVars, sessionVars, mysqlVars>>

\* What ends the drain loop; several may be ready.
Drained(reason) ==
  CASE reason = "timeout" -> clock # "early"
    [] reason = "no active requests" -> active = 0
    [] reason = "servers closed" -> closing.server > Len(Order)

\* After the loop main calls Stop of the MySQL server, which closes quit, ...
Drain(reason) ==
  /\ Drained(reason)
  /\ MainStep("draining", "quitting")
  /\ CloseQuit
  /\ old' = {}
  /\ UNCHANGED <<clock, srv, closing, failed, call, active, healthVars, sessionVars>>

\* ... closes the listener and waits.  Then main closes the idle connections of
\* the pool and returns, whatever else is running.
StopMySQL ==
  /\ \/ MainStep("quitting", "waiting") /\ CloseListener
     \/ Waited /\ MainStep("waiting", "over") /\ UNCHANGED mysqlVars
  /\ UNCHANGED <<clock, srv, closing, failed, proxyVars, healthVars, sessionVars>>

-----------------------------------------------------------------------------

HealthStep ==
  /\ HealthNext
  /\ UNCHANGED <<mainVars, srv, failed, proxyVars, sessionVars, mysqlVars>>

SessionStep ==
  /\ \/ \E b \in Browsers :
          \/ srv["admin"] = "open" /\ Ask(b)
          \/ srv["admin"] = "open" /\ \E i \in Ids : Login(b, i)
          \/ srv["admin"] = "open" /\ \E forget \in BOOLEAN : Logout(b, forget)
          \/ CheckExpiry(b)
          \/ Leave(b)
     \/ \E i \in Ids : Expire(i)
     \/ Sweep
  /\ UNCHANGED <<mainVars, srv, failed, proxyVars, healthVars, mysqlVars>>

MySQLFrame == UNCHANGED <<mainVars, srv, failed, proxyVars, healthVars, sessionVars>>

MySQLServerStep == MySQLNext /\ MySQLFrame

MainStops ==
  \/ \E reason \in {"timeout", "no active requests", "servers closed"} : Drain(reason)
  \/ StopMySQL

HttpCloses == CloseHttp \/ HttpClosed

Next ==
  /\ main # "over"
  /\ \/ \E h \in Http : ListenHttp(h)
     \/ ListenMySQL
     \/ \E r \in Calls : ProxyStep(r)
     \/ HealthStep
     \/ SessionStep
     \/ MySQLServerStep
     \/ BeginShutdown \/ MainStops \/ HttpCloses \/ Later

\* Each goroutine runs, time passes, and what a query asks for is done.  Nothing
\* is asked of clients, nor that a signal ever comes.
Fairness ==
  /\ WF_vars(BeginAfterFailure \/ MainStops)
  /\ WF_vars(main # "over" /\ HttpCloses)
  /\ WF_vars(main # "over" /\ Later)
  /\ WF_vars(main # "over" /\ LoopStep /\ MySQLFrame)
  /\ \A c \in Clients : WF_vars(main # "over" /\ ConnectionStep(c) /\ MySQLFrame)

Spec == Init /\ [][Next]_vars /\ Fairness

-----------------------------------------------------------------------------
(* Properties                                                              *)

\* The requests counted when the shutdown begins are over before the drain loop
\* is, unless it gives up, which it does not before 25 seconds.
OldRequestsDrain ==
  [][main = "draining" /\ main' # "draining" => old = {} \/ clock # "early"]_vars

\* No command of a MySQL client is cut short by the end of the process: when Stop
\* has waited, no connection that Accept returned is left or still to be counted,
\* however Start, the accept loop, the connections and Stop interleave.  Accept
\* may return one after quit is closed, and it is counted while Stop waits.
CommandsFinish == main = "over" => \A c \in Clients : conn[c] = "none"

\* A request that is let in to the admin interface arrived with a session that
\* had not expired, been logged out or been swept by then.
SessionsAdmit == \A b \in Browsers : visit[b] = "inside" => live[b]

\* Stop waits for a connection that waits for its client.
ClientHolds ==
  main = "waiting" /\ \E c \in Clients : conn[c] \in {"greeted", "ready", "answering"}

\* Once a server has failed or a signal has come, the process ends, unless it
\* is held up for ever by a MySQL client that says nothing, or that does not read
\* what it is answered: neither reads nor writes of connections have a deadline.
ShutdownEnds == (failed \/ main # "running") ~> [](main = "over" \/ ClientHolds)
=============================================================================
