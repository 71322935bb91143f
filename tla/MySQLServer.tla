----------------------------- MODULE MySQLServer -----------------------------
(***************************************************************************)
(* The MySQL protocol server of the admin interface, pkg/protocol/mysql.go:*)
(* a listener, an accept loop, a goroutine per connection that reads and   *)
(* executes one command after the other, and Stop, which waits for them.   *)
(***************************************************************************)
EXTENDS Integers, FiniteSets

CONSTANTS Clients,
          People,      \* who may be at a client: what they can show
          MySQLSetup   \* the credentials the server is configured with

\* username "" lets everybody be anybody; without a password only connections
\* from this machine are let in.
ASSUME MySQLAssumption ==
  /\ People \subseteq [username : {"admin", "other"}, password : {"right", "wrong"},
                       loopback : BOOLEAN]
  /\ MySQLSetup \subseteq [username : {"admin", ""}, password : {"right", ""}]
ASSUME ClientsAssumption == IsFiniteSet(Clients)

VARIABLES
  mysql,     \* Start and the accept loop: starting, listening, looking (at quit),
             \* accepting, counting, over, failed
  listener,  \* none, open or closed
  setup,
  quit,      \* closed?
  conn,      \* of each client, its connection
  wg         \* the wait group's counter

mysqlVars == <<mysql, listener, setup, quit, conn, wg>>

MySQLInit ==
  /\ mysql = "starting"
  /\ listener = "none"
  /\ setup \in MySQLSetup
  /\ quit = FALSE
  /\ conn = [c \in Clients |-> "none"]
  /\ wg = 0

Connection(c, stage) == conn' = [conn EXCEPT ![c] = stage]

Loop(from, to) == mysql = from /\ mysql' = to

-----------------------------------------------------------------------------
(* Faulty variants of operators below, used by none of them.               *)

\* The accept loop is no member of the wait group, only connections are.
LoopUncounted == 0

-----------------------------------------------------------------------------
(* Start and the accept loop                                               *)

\* What the accept loop counts for in the wait group, from Start to its end.
LoopCount == 1

\* Start listens, or fails, ...
Listen ==
  /\ Loop("starting", "listening")
  /\ listener' = "open"
  /\ UNCHANGED <<setup, quit, conn, wg>>

FailToListen ==
  /\ Loop("starting", "failed")
  /\ UNCHANGED <<listener, setup, quit, conn, wg>>

\* ... and starts the loop, which may be after Stop has come and gone.
StartLoop ==
  /\ Loop("listening", "looking")
  /\ wg' = wg + LoopCount
  /\ UNCHANGED <<listener, setup, quit, conn>>

LoopEnds ==
  /\ mysql' = "over"
  /\ wg' = wg - LoopCount
  /\ UNCHANGED <<listener, setup, quit, conn>>

\* Each time round the loop looks at quit, then blocks in Accept.
LookAtQuit ==
  \/ mysql = "looking" /\ quit /\ LoopEnds
  \/ ~ quit /\ Loop("looking", "accepting") /\ UNCHANGED <<listener, setup, quit, conn, wg>>

\* Accept returns a connection as long as the listener is open: quit may have
\* been closed since the loop looked at it, or be closed now.
Accept(c) ==
  /\ Loop("accepting", "counting")
  /\ listener = "open"
  /\ conn[c] = "none"
  /\ Connection(c, "accepted")
  /\ UNCHANGED <<listener, setup, quit, wg>>

\* Accept returns an error, as it must once the listener is closed.
AcceptFails ==
  \/ mysql = "accepting" /\ quit /\ LoopEnds
  \/ ~ quit /\ Loop("accepting", "looking") /\ UNCHANGED <<listener, setup, quit, conn, wg>>

\* The connection is served even if quit is closed by then, and Stop waiting.
\* Its goroutine sends the handshake, for which a new socket has room.
AddConnection(c) ==
  /\ conn[c] = "accepted"
  /\ Loop("counting", "looking")
  /\ Connection(c, "greeted")
  /\ wg' = wg + 1
  /\ UNCHANGED <<listener, setup, quit>>

-----------------------------------------------------------------------------
(* Stop                                                                    *)

CloseQuit ==
  /\ quit' = TRUE
  /\ UNCHANGED <<mysql, listener, setup, conn, wg>>

\* A listener that Start has not got yet is never closed.
CloseListener ==
  /\ listener' = IF listener = "open" THEN "closed" ELSE listener
  /\ UNCHANGED <<mysql, setup, quit, conn, wg>>

Waited == wg = 0

-----------------------------------------------------------------------------
(* A connection                                                            *)

\* authorize
Authorized(who) ==
  /\ setup.username # "" => who.username = setup.username
  /\ IF setup.password = "" THEN who.loopback ELSE who.password = "right"

\* The command loop looks at quit, then reads.
NextCommand == IF quit THEN "closing" ELSE "ready"

Respond(c, who) ==
  /\ conn[c] = "greeted"
  /\ Connection(c, IF Authorized(who) THEN NextCommand ELSE "closing")
  /\ UNCHANGED <<mysql, listener, setup, quit, wg>>

\* A query is executed by the admin interface; pings, unknown commands and the
\* queries of MySQL's own clients are answered and change nothing.
SendCommand(c) ==
  /\ conn[c] = "ready"
  /\ \E stage \in {"executing", "answering"} : Connection(c, stage)
  /\ UNCHANGED <<mysql, listener, setup, quit, wg>>

Executed(c) ==
  /\ conn[c] = "executing"
  /\ Connection(c, "answering")
  /\ UNCHANGED <<mysql, listener, setup, quit, wg>>

\* The answer has been written, which has no deadline: when the socket is full
\* it takes a client that reads.
Written(c) ==
  /\ conn[c] = "answering"
  /\ Connection(c, NextCommand)
  /\ UNCHANGED <<mysql, listener, setup, quit, wg>>

\* The client quits, leaves, or sends an empty or a broken packet: reading from
\* it or writing to it fails.
HangUp(c) ==
  /\ conn[c] \in {"greeted", "ready", "answering"}
  /\ Connection(c, "closing")
  /\ UNCHANGED <<mysql, listener, setup, quit, wg>>

EndConnection(c) ==
  /\ conn[c] = "closing"
  /\ Connection(c, "none")
  /\ wg' = wg - 1
  /\ UNCHANGED <<mysql, listener, setup, quit>>

-----------------------------------------------------------------------------

\* What the accept loop does whoever calls, ...
LoopStep ==
  \/ LookAtQuit
  \/ listener = "closed" /\ AcceptFails
  \/ \E c \in Clients : AddConnection(c)

\* ... what a connection does whatever its client does, ...
ConnectionStep(c) == Executed(c) \/ EndConnection(c)

\* ... and what takes a client, or an error of the network.
ClientStep(c) ==
  Accept(c) \/ (\E who \in People : Respond(c, who)) \/ SendCommand(c) \/ Written(c) \/ HangUp(c)

MySQLNext ==
  LoopStep \/ AcceptFails \/ \E c \in Clients : ConnectionStep(c) \/ ClientStep(c)
=============================================================================
