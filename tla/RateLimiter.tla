----------------------------- MODULE RateLimiter -----------------------------
(***************************************************************************)
(* internal/ratelimit/ratelimit.go: a fixed window of one minute for each  *)
(* user name.  The limits of a user are read from storage before the       *)
(* limiter's lock is taken, so Allow is two steps of its caller: LimitOf,  *)
(* then Count with what LimitOf said.                                      *)
(***************************************************************************)
EXTENDS Integers, Sequences

CONSTANTS Users,
          Limits,        \* requests per minute that rows of the table may hold
          DefaultLimit,  \* of users without an active row
          NoUser, NoWindow

ASSUME LimitsAssumption == Limits \subseteq Int /\ DefaultLimit \in Int

UserRow == [active : BOOLEAN, limit : Limits]

VARIABLES
  limiting,  \* the limiter is enabled, decided at startup
  users,     \* storage: the row of each user
  windows,   \* the window of each user; its age is current (under a minute), over
             \* (a minute) or stale (over five)
  admitted   \* history: the limit that each admission of a window was given

limiterVars == <<limiting, users, windows, admitted>>

LimiterInit ==
  /\ limiting \in BOOLEAN
  /\ users = [u \in Users |-> NoUser]
  /\ windows = [u \in Users |-> NoWindow]
  /\ admitted = [u \in Users |-> <<>>]

LimitOf(u) ==
  IF users[u] # NoUser /\ users[u].active THEN users[u].limit ELSE DefaultLimit

-----------------------------------------------------------------------------
(* A faulty variant of the operator below, used by none.                   *)

\* One admission too many.
FullPastTheLimit(requests, limit) == requests > limit

-----------------------------------------------------------------------------
Full(requests, limit) == requests >= limit

NewWindow == [requests |-> 0, tokens |-> 0, age |-> "current"]

Ended(u) == windows[u] = NoWindow \/ windows[u].age # "current"

\* The window Allow works on: a new one when there is none or a minute is over.
WindowOf(u) == IF Ended(u) THEN NewWindow ELSE windows[u]

Admits(u, limit) == ~ Full(WindowOf(u).requests, limit)

\* The rest of Allow, under the lock.  A refusal installs a new window too.
Count(u, limit) ==
  LET before == IF Ended(u) THEN <<>> ELSE admitted[u] IN
  IF Admits(u, limit)
  THEN /\ windows' = [windows EXCEPT ![u] = [WindowOf(u) EXCEPT !.requests = @ + 1]]
       /\ admitted' = [admitted EXCEPT ![u] = Append(before, limit)]
  ELSE /\ windows' = [windows EXCEPT ![u] = WindowOf(u)]
       /\ admitted' = [admitted EXCEPT ![u] = before]

\* Tokens go to the window there is, whichever window the request was in.
RecordTokens(u, n) ==
  windows' = IF limiting /\ windows[u] # NoWindow
             THEN [windows EXCEPT ![u].tokens = @ + n] ELSE windows

\* A minute passes, or five.
Elapse(u) ==
  /\ windows[u] # NoWindow
  /\ \/ windows[u].age = "current" /\ windows' = [windows EXCEPT ![u].age = "over"]
     \/ windows[u].age = "over" /\ windows' = [windows EXCEPT ![u].age = "stale"]
  /\ UNCHANGED <<limiting, users, admitted>>

\* The cleanup goroutine takes all windows away that ended long ago.
Cleanup ==
  /\ \E u \in Users : windows[u] # NoWindow /\ windows[u].age = "stale"
  /\ windows' = [u \in Users |-> IF windows[u] # NoWindow /\ windows[u].age = "stale"
                                 THEN NoWindow ELSE windows[u]]
  /\ UNCHANGED <<limiting, users, admitted>>

\* Changes of a user's limit between its reading and the count, and requests
\* that come together, let nobody through a full window: the n-th admission of
\* a window was given a limit of n or more, and all of them are counted.
WindowHonoursLimits ==
  \A u \in Users : windows[u] # NoWindow =>
    /\ windows[u].requests = Len(admitted[u])
    /\ \A n \in DOMAIN admitted[u] : n <= admitted[u][n]
=============================================================================
