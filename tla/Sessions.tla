------------------------------ MODULE Sessions -------------------------------
(***************************************************************************)
(* Sessions of administrators, internal/admin/auth.go, and the requests    *)
(* that the admin HTTP server admits on them.  GetSession reads the map    *)
(* under its lock and looks at the expiry after it.                        *)
(***************************************************************************)
CONSTANTS Ids,       \* session identifiers, never used twice
          NoId,      \* the cookie of a client that has none
          Browsers   \* clients, one request at a time each

VARIABLES
  sessions,   \* the identifiers in the map
  expired,    \* those that are more than 24 hours old, in the map or not
  cookie,     \* what each client sends
  visit,      \* each client's request at the admin HTTP server
  loggedOut,  \* history: those that were logged out
  live        \* history: was its session good when the request arrived?

sessionVars == <<sessions, expired, cookie, visit, loggedOut, live>>

SessionsInit ==
  /\ sessions = {} /\ expired = {} /\ loggedOut = {}
  /\ cookie = [b \in Browsers |-> NoId]
  /\ visit = [b \in Browsers |-> "none"]
  /\ live = [b \in Browsers |-> FALSE]

Good(i) == i \in sessions \ expired

Visit(b, stage) == visit' = [visit EXCEPT ![b] = stage]

-----------------------------------------------------------------------------
(* Faulty variants of operators below, used by none of them.               *)

\* The sweep alone makes sessions end.
SweptOnly(i) == TRUE

-----------------------------------------------------------------------------

\* handleLogin with the right password: a new session, beside the one the
\* client may have.  A wrong password changes nothing.
Login(b, i) ==
  /\ visit[b] = "none"
  /\ i \notin sessions
  /\ \A x \in Browsers : cookie[x] # i
  /\ sessions' = sessions \cup {i}
  /\ expired' = expired \ {i}
  /\ loggedOut' = loggedOut \ {i}
  /\ cookie' = [cookie EXCEPT ![b] = i]
  /\ UNCHANGED <<visit, live>>

\* 24 hours pass.
Expire(i) ==
  /\ Good(i)
  /\ expired' = expired \cup {i}
  /\ UNCHANGED <<sessions, cookie, visit, loggedOut, live>>

\* cleanupExpired
Sweep ==
  /\ sessions \cap expired # {}
  /\ sessions' = sessions \ expired
  /\ UNCHANGED <<expired, cookie, visit, loggedOut, live>>

\* DeleteSession
Removed(i) == sessions \ {i}

\* handleLogout: a client need not obey when its cookie is cleared, and other
\* requests with that cookie may be under way.
Logout(b, forget) ==
  /\ Good(cookie[b])
  /\ sessions' = Removed(cookie[b])
  /\ loggedOut' = loggedOut \cup {cookie[b]}
  /\ cookie' = IF forget /\ visit[b] = "none" THEN [cookie EXCEPT ![b] = NoId] ELSE cookie
  /\ UNCHANGED <<expired, visit, live>>

\* A request to a protected page arrives, and its session is looked up; without
\* one it is turned away ...
Ask(b) ==
  /\ visit[b] = "none"
  /\ cookie[b] \in sessions
  /\ Visit(b, "found")
  /\ live' = [live EXCEPT ![b] = Good(cookie[b]) /\ cookie[b] \notin loggedOut]
  /\ UNCHANGED <<sessions, expired, cookie, loggedOut>>

\* The request holds the session, deleted meanwhile or not.
Unexpired(i) == i \notin expired

\* ... and is either too old, and deleted, or lets the request in.
CheckExpiry(b) ==
  /\ visit[b] = "found"
  /\ IF Unexpired(cookie[b])
     THEN Visit(b, "inside") /\ UNCHANGED <<sessions, live>>
     ELSE /\ Visit(b, "none")
          /\ live' = [live EXCEPT ![b] = FALSE]
          /\ sessions' = sessions \ {cookie[b]}
  /\ UNCHANGED <<expired, cookie, loggedOut>>

Leave(b) ==
  /\ visit[b] = "inside"
  /\ Visit(b, "none")
  /\ live' = [live EXCEPT ![b] = FALSE]
  /\ UNCHANGED <<sessions, expired, cookie, loggedOut>>
=============================================================================
