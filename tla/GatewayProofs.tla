--------------------------- MODULE GatewayProofs ---------------------------
(***************************************************************************)
(* Proofs about Gateway: the rate limiter's windows and referee mode, for  *)
(* any users, limits, requests, bodies, tables of servers and settings.    *)
(***************************************************************************)
EXTENDS Gateway, FiniteSetTheorems, TLAPS

Window == [requests : Nat, tokens : Nat, age : {"current", "over", "stale"}]

Result == {"pending", "ok", "failed"}

LimiterOK ==
  /\ users \in [Users -> UserRow \cup {NoUser}]
  /\ windows \in [Users -> Window \cup {NoWindow}]
  /\ admitted \in [Users -> Seq(Int)]
  /\ limit \in [Requests -> Int]
  /\ WindowHonoursLimits

\* What holds of a referee request's calls on its way to a synthesis.
Referees == {"asking", "synthesize", "synthesizing", "synthesised"}

CallsOK(r) ==
  /\ pc[r] = "target" => body[r].kind = "referee"
  /\ pc[r] \in Referees =>
       Len(targets[r]) = Len(results[r]) /\ Len(targets[r]) <= setting.maxProviders
  /\ pc[r] \in Referees \ {"asking"} =>
       AllReturned(results[r]) /\ Enough(results[r], body[r].wish)
  /\ pc[r] \in {"synthesizing", "synthesised"} =>
       \E server : verdict[r] = Verdict(results[r], server)

RefereesOK ==
  /\ setting \in Settings
  /\ user \in [Requests -> Users]
  /\ body \in [Requests -> Bodies]
  /\ DOMAIN pc = Requests
  /\ DOMAIN targets = Requests
  /\ results \in [Requests -> Seq(Result)]
  /\ DOMAIN verdict = Requests
  /\ \A r \in Requests : CallsOK(r)

IInv == LimiterOK /\ RefereesOK

-----------------------------------------------------------------------------
(* The limiter                                                             *)

\* The limit a user gets is an integer.
LEMMA LimitIsInteger ==
  ASSUME users \in [Users -> UserRow \cup {NoUser}], NEW u \in Users
  PROVE  LimitOf(u) \in Int
  BY LimitsAssumption DEF LimitOf, UserRow

\* A window admits one request more than it has, if the limit allows as many.
LEMMA CountKeeps ==
  ASSUME LimiterOK, NEW u \in Users, NEW n \in Int, Count(u, n),
         UNCHANGED <<users, limit>>
  PROVE  LimiterOK'
  <1> DEFINE w == WindowOf(u)
             before == IF Ended(u) THEN <<>> ELSE admitted[u]
  <1>1. /\ w \in Window
        /\ before \in Seq(Int)
        /\ w.requests = Len(before)
        /\ \A i \in DOMAIN before : i <= before[i]
    BY DEF LimiterOK, WindowHonoursLimits, WindowOf, Ended, NewWindow, Window
  <1>2. CASE Admits(u, n)
    <2> DEFINE after == Append(before, n)
               more == [w EXCEPT !.requests = @ + 1]
    <2>1. windows' = [windows EXCEPT ![u] = more]
          /\ admitted' = [admitted EXCEPT ![u] = after]
      BY <1>2 DEF Count
    <2>2. w.requests + 1 <= n
      BY <1>1, <1>2 DEF Admits, Full, Window
    <2>3. /\ more \in Window /\ after \in Seq(Int)
          /\ more.requests = Len(after)
      BY <1>1 DEF Window
    <2>4. \A i \in DOMAIN after : i <= after[i]
      BY <1>1, <2>2 DEF Window
    <2> HIDE DEF after, more
    <2>5. QED
      BY <2>1, <2>3, <2>4 DEF LimiterOK, WindowHonoursLimits
  <1>3. CASE ~ Admits(u, n)
    <2>1. windows' = [windows EXCEPT ![u] = w]
          /\ admitted' = [admitted EXCEPT ![u] = before]
      BY <1>3 DEF Count
    <2> HIDE DEF w, before
    <2>2. QED
      BY <1>1, <2>1 DEF LimiterOK, WindowHonoursLimits
  <1>4. QED
    BY <1>2, <1>3

\* Recording tokens counts no request.
LEMMA ChargeKeeps ==
  ASSUME LimiterOK, NEW r \in Requests, user[r] \in Users, Charge(r),
         UNCHANGED <<users, admitted, limit>>
  PROVE  LimiterOK'
  <1>1. CASE UNCHANGED windows
    BY <1>1 DEF LimiterOK, WindowHonoursLimits
  <1>2. CASE /\ windows[user[r]] # NoWindow
             /\ windows' = [windows EXCEPT ![user[r]].tokens = @ + 1]
    <2> DEFINE u == user[r]
               w == windows[u]
               more == [w EXCEPT !.tokens = @ + 1]
    <2>1. w \in Window
      BY <1>2 DEF LimiterOK
    <2>2. more \in Window /\ more.requests = w.requests
      BY <2>1 DEF Window
    <2>3. windows' = [windows EXCEPT ![user[r]] = more]
      BY <1>2 DEF LimiterOK
    <2> HIDE DEF more
    <2>4. QED
      BY <1>2, <2>2, <2>3 DEF LimiterOK, WindowHonoursLimits
  <1>3. QED
    BY <1>1, <1>2 DEF Charge, RecordTokens

\* Time makes a window older, or takes it away, and changes no count.
LEMMA TimeKeeps ==
  ASSUME LimiterOK, Time
  PROVE  LimiterOK'
  <1>0. UNCHANGED <<users, admitted, limit>>
    BY DEF Time, Elapse, Cleanup, requestVars
  <1>1. ASSUME NEW u \in Users, Elapse(u)
        PROVE  LimiterOK'
    <2>1. PICK age \in {"over", "stale"} :
            windows[u] # NoWindow /\ windows' = [windows EXCEPT ![u].age = age]
      BY <1>1 DEF Elapse
    <2> DEFINE older == [windows[u] EXCEPT !.age = age]
    <2>2. older \in Window /\ older.requests = windows[u].requests
      BY <2>1 DEF LimiterOK, Window
    <2>3. windows' = [windows EXCEPT ![u] = older]
      BY <2>1 DEF LimiterOK
    <2> HIDE DEF older
    <2>4. QED
      BY <1>0, <2>1, <2>2, <2>3 DEF LimiterOK, WindowHonoursLimits
  <1>2. CASE Cleanup
    BY <1>0, <1>2 DEF Cleanup, LimiterOK, WindowHonoursLimits
  <1>3. QED
    BY <1>1, <1>2 DEF Time

\* Every other step.
LEMMA LimiterFrame ==
  ASSUME LimiterOK, UNCHANGED <<users, windows, admitted, limit>>
  PROVE  LimiterOK'
  BY DEF LimiterOK, WindowHonoursLimits

\* No step breaks LimiterOK.
LEMMA LimiterPreserved == IInv /\ [Next]_vars => LimiterOK'
  <1> SUFFICES ASSUME IInv, [Next]_vars
               PROVE  LimiterOK'
    OBVIOUS
  <1>0. LimiterOK /\ \A r \in Requests : user[r] \in Users
    BY DEF IInv, RefereesOK
  <1>1. ASSUME NEW r \in Requests, ReadLimit(r)
        PROVE  LimiterOK'
    BY <1>0, <1>1, LimitIsInteger
       DEF ReadLimit, LimiterOK, WindowHonoursLimits, limiterVars
  <1>2. ASSUME NEW r \in Requests, Allow(r)
        PROVE  LimiterOK'
    <2>1. limit[r] \in Int /\ Count(user[r], limit[r]) /\ UNCHANGED <<users, limit>>
      BY <1>0, <1>2 DEF Allow, LimiterOK
    <2>2. QED
      BY <1>0, <2>1, CountKeeps
  <1>3. ASSUME NEW r \in Requests, Serve(r) \/ Conclude(r)
        PROVE  LimiterOK'
    BY <1>0, <1>3, ChargeKeeps, LimiterFrame DEF Serve, Conclude
  <1>4. ASSUME NEW r \in Requests,
               \/ Parse(r) \/ Target(r) \/ Weigh(r) \/ Synthesize(r)
               \/ \E i \in 1 .. Len(Table) + Cardinality(Labels) : Return(r, i)
        PROVE  LimiterOK'
    BY <1>0, <1>4, LimiterFrame
       DEF Parse, Target, Weigh, Synthesize, Return, limiterVars
  <1>5. CASE Edit
    BY <1>0, <1>5 DEF Edit, LimiterOK, WindowHonoursLimits, requestVars
  <1>6. CASE UNCHANGED vars
    BY <1>0, <1>6, LimiterFrame DEF vars, limiterVars, requestVars
  <1>7. QED
    BY <1>0, <1>1, <1>2, <1>3, <1>4, <1>5, <1>6, TimeKeeps DEF Next, Step

-----------------------------------------------------------------------------
(* Referee mode                                                            *)

\* Positions of servers can be counted, and so can labels.
LEMMA ChoicesAreFinite ==
  /\ \A P \in SUBSET DOMAIN Table : Cardinality(P) \in Nat
  /\ \A L \in SUBSET Labels : Cardinality(L) \in Nat
  <1>1. \E n \in Nat : DOMAIN Table = 1 .. n
    BY RefereeAssumption
  <1>2. IsFiniteSet(DOMAIN Table)
    BY <1>1, FS_Interval
  <1>3. QED
    BY <1>2, RefereeAssumption, FS_Subset, FS_CardinalityType

\* A choice of targets is a sequence.
LEMMA TargetsAreListed ==
  ASSUME NEW wish \in Wish, NEW chosen \in Targets(wish)
  PROVE  \E n \in Nat : chosen \in [1 .. n -> {chosen[i] : i \in 1 .. n}]
  <1>1. CASE wish.by = "models"
    <2> DEFINE served == {l \in wish.labels : OnlineOfType(LabelType[l]) # {}}
    <2>1. PICK order \in SetToSeqs(served) :
            chosen = [i \in DOMAIN order |-> FirstOf(OnlineOfType(LabelType[order[i]]))]
      BY <1>1 DEF Targets, TargetsByModel
    <2>2. wish.labels \in SUBSET Labels
      BY <1>1 DEF Wish
    <2>3. served \in SUBSET Labels
      BY <2>2
    <2>4. Cardinality(served) \in Nat
      BY <2>3, ChoicesAreFinite
    <2>5. DOMAIN order = 1 .. Cardinality(served)
      BY DEF SetToSeqs
    <2> HIDE DEF served
    <2>6. QED
      BY <2>1, <2>4, <2>5
  <1>2. CASE wish.by # "models"
    <2> DEFINE served == {i \in Online : wish.types = {} \/ TypeOf[Table[i]] \in wish.types}
    <2>1. PICK order \in SetToSeqs(served) :
            chosen = [i \in DOMAIN order |-> Table[order[i]]]
      BY <1>2 DEF Targets, TargetsByType
    <2>2. served \in SUBSET DOMAIN Table
      BY DEF Online
    <2>3. Cardinality(served) \in Nat
      BY <2>2, ChoicesAreFinite
    <2>4. DOMAIN order = 1 .. Cardinality(served)
      BY DEF SetToSeqs
    <2> HIDE DEF served
    <2>5. QED
      BY <2>1, <2>3, <2>4
  <1>3. QED
    BY <1>1, <1>2

\* What is left of it has no more than the providers allowed, numbered from 1.
LEMMA LimitedIsListed ==
  ASSUME NEW wish \in Wish, NEW chosen \in Targets(wish),
         setting.maxProviders \in Nat
  PROVE  \E n \in Nat : /\ DOMAIN Limited(chosen) = 1 .. n
                        /\ Len(Limited(chosen)) = n
                        /\ n <= setting.maxProviders
  <1> DEFINE m == setting.maxProviders
  <1>1. PICK n \in Nat : chosen \in [1 .. n -> {chosen[i] : i \in 1 .. n}]
    BY TargetsAreListed
  <1> DEFINE S == {chosen[i] : i \in 1 .. n}
  <1> HIDE DEF S
  <1>2. chosen \in [1 .. n -> S]
    BY <1>1 DEF S
  <1>3. chosen \in Seq(S) /\ Len(chosen) = n
    BY <1>2
  <1>4. CASE n > m
    <2>1. Limited(chosen) = SubSeq(chosen, 1, m)
      BY <1>3, <1>4 DEF Limited
    <2>2. /\ SubSeq(chosen, 1, m) \in Seq(S)
          /\ Len(SubSeq(chosen, 1, m)) = m
      BY <1>3, <1>4
    <2>3. QED
      BY <2>1, <2>2
  <1>5. CASE ~ (n > m)
    <2>1. Limited(chosen) = chosen
      BY <1>3, <1>5 DEF Limited
    <2>2. QED
      BY <1>2, <1>3, <1>5, <2>1
  <1>6. QED
    BY <1>4, <1>5

\* The providers that have answered, and those that have done anything, can be
\* counted; once all have, that is all of them.
LEMMA ResultsAreCounted ==
  ASSUME NEW s \in Seq(Result)
  PROVE  /\ Cardinality(Successes(s)) \in Nat
         /\ AllReturned(s) => Cardinality({i \in DOMAIN s : s[i] # "pending"}) = Len(s)
  <1>1. /\ DOMAIN s = 1 .. Len(s) /\ Len(s) \in Nat
        /\ IsFiniteSet(1 .. Len(s)) /\ Cardinality(1 .. Len(s)) = Len(s)
    <2>1. DOMAIN s = 1 .. Len(s) /\ Len(s) \in Nat
      OBVIOUS
    <2>2. ASSUME NEW n \in Nat
          PROVE  IsFiniteSet(1 .. n) /\ Cardinality(1 .. n) = n
      BY FS_Interval
    <2>3. QED
      BY <2>1, <2>2
  <1>2. Cardinality(Successes(s)) \in Nat
    BY <1>1, FS_Subset, FS_CardinalityType DEF Successes
  <1>3. AllReturned(s) => {i \in DOMAIN s : s[i] # "pending"} = 1 .. Len(s)
    BY <1>1 DEF AllReturned
  <1>4. QED
    BY <1>1, <1>2, <1>3

\* A step of r that leaves the calls, if it has made any, alone.
LEMMA CallsFrame ==
  ASSUME RefereesOK, NEW r \in Requests, NEW label, Goto(r, label),
         UNCHANGED <<setting, user, body, targets, results>>,
         DOMAIN verdict' = Requests,
         \A q \in Requests : q # r => verdict'[q] = verdict[q],
         CallsOK(r)'
  PROVE  RefereesOK'
  <1>1. /\ DOMAIN pc' = Requests /\ pc'[r] = label
        /\ \A q \in Requests : q # r => pc'[q] = pc[q]
    BY DEF RefereesOK, Goto
  <1>2. ASSUME NEW q \in Requests, q # r
        PROVE  CallsOK(q)'
    BY <1>1, <1>2 DEF RefereesOK, CallsOK, Enough, MinimumOf
  <1>3. QED
    BY <1>1, <1>2 DEF RefereesOK

\* A step of r to where no calls are made, or are any longer.
LEMMA ElsewhereKeeps ==
  ASSUME RefereesOK, NEW r \in Requests, NEW label, Goto(r, label),
         UNCHANGED <<setting, user, body, targets, results, verdict>>,
         label \notin Referees, label = "target" => body[r].kind = "referee"
  PROVE  RefereesOK'
  <1>1. pc'[r] = label
    BY DEF RefereesOK, Goto
  <1>2. CallsOK(r)'
    BY <1>1 DEF CallsOK, Referees
  <1>3. QED
    BY <1>2, CallsFrame DEF RefereesOK

\* Choosing the targets.
LEMMA TargetKeeps ==
  ASSUME RefereesOK, NEW r \in Requests, Target(r)
  PROVE  RefereesOK'
  <1>0. /\ pc[r] = "target" /\ body[r].kind = "referee"
        /\ UNCHANGED <<setting, user, body, verdict>>
    BY DEF Target, RefereesOK, CallsOK
  <1>1. CASE /\ Goto(r, "failed") \/ Goto(r, "panicked")
             /\ UNCHANGED <<targets, results>>
    BY <1>0, <1>1, ElsewhereKeeps DEF Referees
  <1>2. ASSUME NEW chosen \in Targets(body[r].wish) \ {<<>>}, Sliceable,
               targets' = [targets EXCEPT ![r] = Limited(chosen)],
               results' = [results EXCEPT ![r] =
                             [i \in DOMAIN Limited(chosen) |-> "pending"]],
               Goto(r, "asking")
        PROVE  RefereesOK'
    <2>1. body[r].wish \in Wish
      <3>1. body[r] \in Body /\ Wishes \subseteq Wish
        BY GatewayAssumption, RefereeAssumption DEF RefereesOK
      <3>2. body[r] \in [kind : {"referee"}, wish : Wishes]
        BY <1>0, <3>1 DEF Body
      <3>3. QED
        BY <3>1, <3>2
    <2>2. setting.maxProviders \in Nat
      BY <1>2, RefereeAssumption DEF RefereesOK, Sliceable
    <2>3. PICK n \in Nat : /\ DOMAIN Limited(chosen) = 1 .. n
                           /\ Len(Limited(chosen)) = n
                           /\ n <= setting.maxProviders
      BY <1>2, <2>1, <2>2, LimitedIsListed
    <2> DEFINE pending == [i \in 1 .. n |-> "pending"]
    <2>4. pending \in Seq(Result) /\ Len(pending) = n
      BY DEF Result
    <2>5. /\ results' = [results EXCEPT ![r] = pending]
          /\ targets'[r] = Limited(chosen)
          /\ pc'[r] = "asking"
          /\ DOMAIN targets' = Requests /\ DOMAIN pc' = Requests
          /\ \A q \in Requests : q # r => targets'[q] = targets[q] /\ pc'[q] = pc[q]
      BY <1>2, <2>3 DEF RefereesOK, Goto
    <2> HIDE DEF pending
    <2>6. /\ results' \in [Requests -> Seq(Result)]
          /\ results'[r] = pending
          /\ \A q \in Requests : q # r => results'[q] = results[q]
      BY <2>4, <2>5 DEF RefereesOK
    <2>7. CallsOK(r)'
      BY <1>0, <2>3, <2>4, <2>5, <2>6 DEF CallsOK, Referees
    <2>8. ASSUME NEW q \in Requests, q # r
          PROVE  CallsOK(q)'
      BY <1>0, <2>5, <2>6, <2>8 DEF RefereesOK, CallsOK, Enough, MinimumOf
    <2>9. QED
      BY <1>0, <2>5, <2>6, <2>7, <2>8 DEF RefereesOK
  <1>3. QED
    BY <1>1, <1>2 DEF Target

\* The end of a call.
LEMMA ReturnKeeps ==
  ASSUME RefereesOK, NEW r \in Requests, NEW i, Return(r, i)
  PROVE  RefereesOK'
  <1>1. PICK result \in {"ok", "failed"} : results' = [results EXCEPT ![r][i] = result]
    BY DEF Return
  <1>2. /\ i \in DOMAIN results[r] /\ results[r][i] = "pending"
        /\ results[r] \in Seq(Result)
        /\ UNCHANGED <<setting, user, body, pc, targets, verdict>>
    BY DEF Return, RefereesOK
  <1> DEFINE now == [results[r] EXCEPT ![i] = result]
  <1>3. now \in Seq(Result) /\ Len(now) = Len(results[r])
    BY <1>2 DEF Result
  <1>4. results' = [results EXCEPT ![r] = now]
    BY <1>1 DEF RefereesOK
  <1> HIDE DEF now
  <1>5. /\ results' \in [Requests -> Seq(Result)]
        /\ results'[r] = now
        /\ \A q \in Requests : q # r => results'[q] = results[q]
    BY <1>3, <1>4 DEF RefereesOK
  <1>6. ~ AllReturned(results[r])
    BY <1>2 DEF AllReturned
  <1>7. CallsOK(r)'
    BY <1>2, <1>3, <1>5, <1>6 DEF RefereesOK, CallsOK, Referees
  <1>8. ASSUME NEW q \in Requests, q # r
        PROVE  CallsOK(q)'
    BY <1>2, <1>5, <1>8 DEF RefereesOK, CallsOK, Enough, MinimumOf
  <1>9. QED
    BY <1>2, <1>5, <1>7, <1>8 DEF RefereesOK

\* Weighing what came back: only enough answers lead on.
LEMMA WeighKeeps ==
  ASSUME RefereesOK, NEW r \in Requests, Weigh(r)
  PROVE  RefereesOK'
  <1>0. /\ pc[r] = "asking" /\ AllReturned(results[r]) /\ DOMAIN verdict = Requests
        /\ UNCHANGED <<setting, user, body, targets, results, verdict>>
    BY DEF Weigh, RefereesOK
  <1>1. CASE Enough(results[r], body[r].wish) /\ Goto(r, "synthesize")
    <2>1. pc'[r] = "synthesize"
      BY <1>1 DEF RefereesOK, Goto
    <2>2. CallsOK(r)'
      BY <1>0, <1>1, <2>1 DEF RefereesOK, CallsOK, Referees, Enough, MinimumOf
    <2>3. QED
      BY <1>0, <1>1, <2>2, CallsFrame
  <1>2. CASE Goto(r, "failed")
    BY <1>0, <1>2, ElsewhereKeeps DEF Referees
  <1>3. QED
    BY <1>1, <1>2 DEF Weigh

\* Stating the verdict.
LEMMA SynthesizeKeeps ==
  ASSUME RefereesOK, NEW r \in Requests, Synthesize(r)
  PROVE  RefereesOK'
  <1>0. /\ pc[r] = "synthesize"
        /\ UNCHANGED <<setting, user, body, targets, results>>
    BY DEF Synthesize
  <1>1. CASE Goto(r, "failed") /\ UNCHANGED verdict
    BY <1>0, <1>1, ElsewhereKeeps DEF Referees
  <1>2. CASE /\ verdict' = [verdict EXCEPT ![r] =
                   Verdict(results[r], RefereeServer(body[r].wish.referee))]
             /\ Goto(r, "synthesizing")
    <2>1. /\ pc'[r] = "synthesizing" /\ DOMAIN verdict' = Requests
          /\ verdict'[r] = Verdict(results[r], RefereeServer(body[r].wish.referee))
          /\ \A q \in Requests : q # r => verdict'[q] = verdict[q]
      BY <1>2 DEF RefereesOK, Goto
    <2>2. CallsOK(r)'
      BY <1>0, <2>1 DEF RefereesOK, CallsOK, Referees, Enough, MinimumOf
    <2>3. QED
      BY <1>0, <1>2, <2>1, <2>2, CallsFrame
  <1>3. QED
    BY <1>1, <1>2 DEF Synthesize

\* Sending the synthesis, or failing to make it.
LEMMA ConcludeKeeps ==
  ASSUME RefereesOK, NEW r \in Requests, Conclude(r)
  PROVE  RefereesOK'
  <1>0. /\ pc[r] = "synthesizing"
        /\ UNCHANGED <<setting, user, body, targets, results>>
    BY DEF Conclude
  <1>1. CASE Goto(r, "failed") /\ verdict' = [verdict EXCEPT ![r] = NoVerdict]
    <2>1. /\ pc'[r] = "failed" /\ DOMAIN verdict' = Requests
          /\ \A q \in Requests : q # r => verdict'[q] = verdict[q]
      BY <1>1 DEF RefereesOK, Goto
    <2>2. CallsOK(r)'
      BY <2>1 DEF CallsOK, Referees
    <2>3. QED
      BY <1>0, <1>1, <2>1, <2>2, CallsFrame
  <1>2. CASE Goto(r, "synthesised") /\ UNCHANGED verdict
    <2>1. pc'[r] = "synthesised"
      BY <1>2 DEF RefereesOK, Goto
    <2>2. CallsOK(r)'
      BY <1>0, <1>2, <2>1 DEF RefereesOK, CallsOK, Referees, Enough, MinimumOf
    <2>3. QED
      BY <1>0, <1>2, <2>2, CallsFrame DEF RefereesOK
  <1>3. QED
    BY <1>1, <1>2 DEF Conclude

\* Every other step of other processes.
LEMMA RefereesFrame ==
  ASSUME RefereesOK, UNCHANGED <<setting, user, body, pc, targets, results, verdict>>
  PROVE  RefereesOK'
  BY DEF RefereesOK, CallsOK, Enough, MinimumOf

\* No step breaks RefereesOK.
LEMMA RefereesPreserved == IInv /\ [Next]_vars => RefereesOK'
  <1> SUFFICES ASSUME RefereesOK, [Next]_vars
               PROVE  RefereesOK'
    BY DEF IInv
  <1>1. ASSUME NEW r \in Requests, ReadLimit(r) \/ Allow(r) \/ Serve(r)
        PROVE  RefereesOK'
    BY <1>1, ElsewhereKeeps DEF ReadLimit, Allow, Serve, Referees
  <1>2. ASSUME NEW r \in Requests, Parse(r)
        PROVE  RefereesOK'
    <2>1. body[r].kind \in {"invalid", "chat", "stream", "streamedReferee", "referee"}
      BY GatewayAssumption DEF RefereesOK, Body
    <2>2. /\ AfterParse(r) \in {"badRequest", "target", "serve"}
          /\ AfterParse(r) = "target" => body[r].kind = "referee"
      BY <2>1 DEF AfterParse
    <2>3. QED
      BY <1>2, <2>2, ElsewhereKeeps DEF Parse, Referees
  <1>3. CASE Edit \/ Time \/ UNCHANGED vars
    BY <1>3, RefereesFrame DEF Edit, Time, requestVars, vars
  <1>4. QED
    BY <1>1, <1>2, <1>3, TargetKeeps, ReturnKeeps, WeighKeeps, SynthesizeKeeps,
       ConcludeKeeps DEF Next, Step

-----------------------------------------------------------------------------
(* The theorems                                                            *)

\* Every program start satisfies IInv.
LEMMA InitEstablishes == Init => IInv
  <1> SUFFICES ASSUME Init
               PROVE  IInv
    OBVIOUS
  <1>1. LimiterOK
    BY LimitsAssumption DEF Init, LimiterInit, LimiterOK, WindowHonoursLimits
  <1>2. RefereesOK
    BY DEF Init, RefereesOK, CallsOK, Referees
  <1>3. QED
    BY <1>1, <1>2 DEF IInv

\* IInv holds throughout.
LEMMA Inductive == Spec => []IInv
  <1>1. IInv /\ [Next]_vars => IInv'
    BY LimiterPreserved, RefereesPreserved DEF IInv
  <1>2. QED
    BY <1>1, InitEstablishes, PTL DEF Spec

\* No request gets through a full window, whatever happens to the limit between
\* its reading and the count.
THEOREM WindowsHonourLimits == Spec => []WindowHonoursLimits
  <1>1. IInv => WindowHonoursLimits
    BY DEF IInv, LimiterOK
  <1>2. QED
    BY <1>1, Inductive, PTL

\* A synthesis goes out on as many answers as were demanded, of providers that
\* have all come back, and what it says of them adds up.
THEOREM SynthesesHaveConsensus == Spec => []ConsensusIsMet
  <1>1. IInv => ConsensusIsMet
    <2> SUFFICES ASSUME IInv, NEW r \in Requests,
                        pc[r] \in {"synthesizing", "synthesised"}
                 PROVE  LET v == verdict[r] IN
                        /\ v.successful >= MinimumOf(body[r].wish)
                        /\ v.queried = v.successful + v.failed
                        /\ v.queried = Cardinality({i \in DOMAIN results[r] :
                                                      results[r][i] # "pending"})
                        /\ v.queried = Len(targets[r])
                        /\ v.queried <= setting.maxProviders
      BY DEF ConsensusIsMet
    <2>1. /\ results[r] \in Seq(Result)
          /\ Len(targets[r]) = Len(results[r])
          /\ Len(targets[r]) <= setting.maxProviders
          /\ AllReturned(results[r]) /\ Enough(results[r], body[r].wish)
      BY DEF IInv, RefereesOK, CallsOK, Referees
    <2>2. PICK server : verdict[r] = Verdict(results[r], server)
      BY DEF IInv, RefereesOK, CallsOK
    <2>3. /\ verdict[r].queried = Len(results[r])
          /\ verdict[r].successful = Cardinality(Successes(results[r]))
          /\ verdict[r].failed = Len(results[r]) - Cardinality(Successes(results[r]))
      BY <2>2 DEF Verdict
    <2>4. /\ Cardinality(Successes(results[r])) \in Nat
          /\ Cardinality({i \in DOMAIN results[r] : results[r][i] # "pending"})
               = Len(results[r])
      BY <2>1, ResultsAreCounted
    <2>5. QED
      BY <2>1, <2>3, <2>4 DEF Enough
  <1>2. QED
    BY <1>1, Inductive, PTL
=============================================================================
