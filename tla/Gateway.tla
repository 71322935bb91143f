------------------------------- MODULE Gateway -------------------------------
(***************************************************************************)
(* internal/proxy/proxy.go, the way of a chat completion through the proxy *)
(* up to where its handler forks: the rate limiter, the parsing of the     *)
(* body, and referee mode with the calls it makes.  What becomes of a chat *)
(* that is not in referee mode is one step here; Proxy takes it apart.     *)
(* Completions, embeddings and models pass by the rate limiter.            *)
(***************************************************************************)
EXTENDS RateLimiter, Referee, FiniteSetsExt

CONSTANTS Requests, Bodies,
          MaxEdits,     \* bound: changes an administrator makes
          MaxTokens,    \* bound: responses whose tokens a window counts
          NoVerdict

\* "stream" and "chat" differ in whose tokens are recorded.
Body == [kind : {"invalid", "chat", "stream", "streamedReferee"}]
        \cup [kind : {"referee"}, wish : Wishes]

ASSUME GatewayAssumption == Bodies \subseteq Body

VARIABLES
  user, body,   \* of each request
  pc,
  limit,        \* the limit getUserLimits gave a request
  targets,      \* the servers a referee request asks, one call each
  results,      \* how those calls have ended
  verdict,      \* the referee_info sent with a synthesis
  edits

requestVars == <<user, body, pc, limit, targets, results, verdict>>
vars == <<limiterVars, online, setting, requestVars, edits>>

Endings == {"refused", "badRequest", "failed", "answered", "synthesised", "panicked"}

Goto(r, label) == pc' = [pc EXCEPT ![r] = label]

Init ==
  /\ LimiterInit
  /\ online \in {Servers}
  /\ setting \in Settings
  /\ user \in [Requests -> Users]
  /\ body \in [Requests -> Bodies]
  /\ pc = [r \in Requests |-> "arrived"]
  /\ limit = [r \in Requests |-> DefaultLimit]
  /\ targets = [r \in Requests |-> <<>>]
  /\ results = [r \in Requests |-> <<>>]
  /\ verdict = [r \in Requests |-> NoVerdict]
  /\ edits = 0

-----------------------------------------------------------------------------
(* Rate limit and parsing                                                  *)

\* Allow, its first half: without a limiter everybody passes; a storage error
\* is an internal error.
ReadLimit(r) ==
  /\ pc[r] = "arrived"
  /\ \/ ~ limiting /\ Goto(r, "parse") /\ UNCHANGED limit
     \/ limiting /\ Goto(r, "failed") /\ UNCHANGED limit
     \/ limiting /\ limit' = [limit EXCEPT ![r] = LimitOf(user[r])] /\ Goto(r, "count")
  /\ UNCHANGED <<limiterVars, online, setting, user, body, targets, results,
                 verdict, edits>>

\* Its second half.
Allow(r) ==
  /\ pc[r] = "count"
  /\ Count(user[r], limit[r])
  /\ Goto(r, IF Admits(user[r], limit[r]) THEN "parse" ELSE "refused")
  /\ UNCHANGED <<limiting, users, online, setting, user, body, limit, targets,
                 results, verdict, edits>>

AfterParse(r) ==
  CASE body[r].kind = "invalid"           -> "badRequest"
    [] body[r].kind = "streamedReferee"   -> "badRequest"
    [] body[r].kind = "referee"           -> IF setting.enabled THEN "target"
                                                                ELSE "badRequest"
    [] body[r].kind \in {"chat", "stream"} -> "serve"

Parse(r) ==
  /\ pc[r] = "parse"
  /\ Goto(r, AfterParse(r))
  /\ UNCHANGED <<limiterVars, online, setting, user, body, limit, targets,
                 results, verdict, edits>>

Charge(r) ==
  IF windows[user[r]] # NoWindow /\ windows[user[r]].tokens = MaxTokens
  THEN UNCHANGED windows ELSE RecordTokens(user[r], 1)

\* All of routing, selection, cache, flights and calls.  Tokens are recorded
\* only by who made a call that was not streamed.
Serve(r) ==
  /\ pc[r] = "serve"
  /\ \/ Goto(r, "failed") /\ UNCHANGED windows
     \/ Goto(r, "answered") /\ UNCHANGED windows
     \/ body[r].kind = "chat" /\ Goto(r, "answered") /\ Charge(r)
  /\ UNCHANGED <<limiting, users, admitted, online, setting, user, body, limit,
                 targets, results, verdict, edits>>

-----------------------------------------------------------------------------
(* Referee mode                                                            *)

\* The table is read, an error or an empty choice of targets ends the request.
Target(r) ==
  /\ pc[r] = "target"
  /\ \/ /\ Goto(r, "failed")
        /\ UNCHANGED <<targets, results>>
     \/ \E chosen \in Targets(body[r].wish) \ {<<>>} :
          IF ~ Sliceable
          THEN Goto(r, "panicked") /\ UNCHANGED <<targets, results>>
          ELSE /\ targets' = [targets EXCEPT ![r] = Limited(chosen)]
               /\ results' = [results EXCEPT ![r] =
                                [i \in DOMAIN Limited(chosen) |-> "pending"]]
               /\ Goto(r, "asking")
  /\ UNCHANGED <<limiterVars, online, setting, user, body, limit, verdict, edits>>

\* One of the parallel calls ends, by its timeout if by nothing else.
Return(r, i) ==
  /\ i \in DOMAIN results[r]
  /\ results[r][i] = "pending"
  /\ \E result \in {"ok", "failed"} : results' = [results EXCEPT ![r][i] = result]
  /\ UNCHANGED <<limiterVars, online, setting, user, body, pc, limit, targets,
                 verdict, edits>>

Weigh(r) ==
  /\ pc[r] = "asking"
  /\ AllReturned(results[r])
  /\ Goto(r, IF Enough(results[r], body[r].wish) THEN "synthesize" ELSE "failed")
  /\ UNCHANGED <<limiterVars, online, setting, user, body, limit, targets,
                 results, verdict, edits>>

\* The table is read anew for a server that runs the referee's model.  The call
\* to it and the answer are one step more.
Synthesize(r) ==
  /\ pc[r] = "synthesize"
  /\ \/ /\ Goto(r, "failed")
        /\ UNCHANGED verdict
     \/ /\ online # {}
        /\ verdict' = [verdict EXCEPT ![r] =
                         Verdict(results[r], RefereeServer(body[r].wish.referee))]
        /\ Goto(r, "synthesizing")
  /\ UNCHANGED <<limiterVars, online, setting, user, body, limit, targets,
                 results, edits>>

Conclude(r) ==
  /\ pc[r] = "synthesizing"
  /\ \/ /\ Goto(r, "failed")
        /\ verdict' = [verdict EXCEPT ![r] = NoVerdict]
        /\ UNCHANGED windows
     \/ /\ Goto(r, "synthesised")
        /\ Charge(r)
        /\ UNCHANGED verdict
  /\ UNCHANGED <<limiting, users, admitted, online, setting, user, body, limit,
                 targets, results, edits>>

Step(r) ==
  \/ ReadLimit(r) \/ Allow(r) \/ Parse(r) \/ Serve(r) \/ Target(r) \/ Weigh(r)
  \/ Synthesize(r) \/ Conclude(r)

-----------------------------------------------------------------------------
(* The administrator and time                                              *)

Edit ==
  /\ edits < MaxEdits
  /\ edits' = edits + 1
  /\ \/ /\ \E u \in Users, row \in UserRow \cup {NoUser} :
             users[u] # row /\ users' = [users EXCEPT ![u] = row]
        /\ UNCHANGED online
     \/ /\ \E s \in Servers : online' = SymDiff(online, {s})
        /\ UNCHANGED users
  /\ UNCHANGED <<limiting, windows, admitted, setting, requestVars>>

Time ==
  /\ \/ \E u \in Users : Elapse(u)
     \/ Cleanup
  /\ UNCHANGED <<online, setting, requestVars, edits>>

Next ==
  \/ \E r \in Requests :
       Step(r) \/ \E i \in 1 .. Len(Table) + Cardinality(Labels) : Return(r, i)
  \/ Edit
  \/ Time

\* Handlers run on, and every call ends: it has a context timeout.
Fairness ==
  \A r \in Requests :
    WF_vars(Step(r)) /\ WF_vars(\E i \in DOMAIN results[r] : Return(r, i))

Spec == Init /\ [][Next]_vars /\ Fairness

-----------------------------------------------------------------------------
(* Properties                                                              *)

\* What referee mode says of itself is so: a synthesis goes out when every
\* provider that was asked has answered or failed, as many as the request or
\* the configuration demands have answered, and it counts each of them once.
ConsensusIsMet ==
  \A r \in Requests : pc[r] \in {"synthesizing", "synthesised"} =>
    LET v == verdict[r] IN
    /\ v.successful >= MinimumOf(body[r].wish)
    /\ v.queried = v.successful + v.failed
    /\ v.queried = Cardinality({i \in DOMAIN results[r] : results[r][i] # "pending"})
    /\ v.queried = Len(targets[r]) /\ v.queried <= setting.maxProviders

\* However its calls end, whatever is changed or forgotten meanwhile, every
\* request is answered, but for the one the negative provider limit takes away.
EveryRequestEnds == \A r \in Requests : <>(pc[r] \in Endings)
=============================================================================
