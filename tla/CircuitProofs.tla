---------------------------- MODULE CircuitProofs ---------------------------
(***************************************************************************)
(* Proofs about CircuitManager and CircuitHistory, for any number of       *)
(* servers and callers, any integer thresholds and histories of any        *)
(* length: the counters of a breaker agree with its state, and they are    *)
(* exactly the runs of reports that they stand for.                        *)
(***************************************************************************)
EXTENDS CircuitHistory, TLAPS

\* A breaker record that is well typed and consistent.
Good(b) == b \in Breaker /\ Consistent(b)

IInv == TypeOK /\ CountersAgree

\* A new breaker is good.
LEMMA NewIsGood == Good(NewBreaker)
  BY DEF Good, NewBreaker, Breaker, State, Consistent

\* Updating three fields at once, as closing and tripping do, keeps the type.
LEMMA ThreeFields ==
  ASSUME NEW b \in Breaker, NEW st \in State, NEW n \in Nat
  PROVE  /\ [b EXCEPT !.state = st, !.failures = n, !.successes = 0] \in Breaker
         /\ [b EXCEPT !.failures = n, !.cooled = FALSE, !.state = st] \in Breaker
  <1>1. [b EXCEPT !.state = st] \in Breaker
    BY DEF Breaker
  <1>2. [b EXCEPT !.state = st, !.failures = n] \in Breaker
    BY <1>1 DEF Breaker
  <1>3. [b EXCEPT !.failures = n] \in Breaker
    BY DEF Breaker
  <1>4. [b EXCEPT !.failures = n, !.cooled = FALSE] \in Breaker
    BY <1>3 DEF Breaker
  <1>5. QED
    BY <1>2, <1>4 DEF Breaker

\* Each method of a breaker, and the passage of time, keeps it good.
LEMMA MethodsKeepGood ==
  ASSUME NEW b, Good(b)
  PROVE  /\ Good(AfterAllow(b))
         /\ Good(AfterSuccess(b))
         /\ Good(AfterFailure(b))
         /\ Good(AfterReset(b))
         /\ Good(AfterTimeout(b))
  <1> USE ThresholdAssumption, SuccessThresholdAssumption
  <1>1. Good(AfterAllow(b))
    BY DEF Good, Breaker, State, Consistent, AfterAllow
  <1>2. Good(AfterSuccess(b))
    <2>1. CASE b.state = "CLOSED"
      BY <2>1 DEF Good, Breaker, State, Consistent, AfterSuccess
    <2>2. CASE b.state = "OPEN"
      BY <2>2 DEF Good, Breaker, State, Consistent, AfterSuccess
    <2>3. CASE b.state = "HALF_OPEN" /\ b.successes + 1 < SuccessThreshold
      BY <2>3 DEF Good, Breaker, State, Consistent, AfterSuccess
    <2>4. CASE b.state = "HALF_OPEN" /\ b.successes + 1 >= SuccessThreshold
      <3>1. b.successes \in Nat
        BY DEF Good, Breaker
      <3>2. ~ (b.successes + 1 < SuccessThreshold)
        BY <2>4, <3>1
      <3>3. AfterSuccess(b) = [b EXCEPT !.state = "CLOSED", !.failures = 0,
                                        !.successes = 0]
        BY <2>4, <3>2 DEF AfterSuccess
      <3>4. AfterSuccess(b) \in Breaker
        <4>1. b \in Breaker /\ "CLOSED" \in State
          BY DEF Good, State
        <4>2. [b EXCEPT !.state = "CLOSED", !.failures = 0, !.successes = 0]
                \in Breaker
          BY <4>1, ThreeFields
        <4>3. QED
          BY <3>3, <4>2
      <3>5. /\ AfterSuccess(b).state = "CLOSED"
            /\ AfterSuccess(b).failures = 0
            /\ AfterSuccess(b).successes = 0
        BY <3>3 DEF Good, Breaker
      <3>6. QED
        BY <3>4, <3>5 DEF Good, Consistent
    <2>5. QED
      BY <2>1, <2>2, <2>3, <2>4 DEF Good, Breaker, State
  <1>3. Good(AfterFailure(b))
    <2>1. CASE b.state = "CLOSED" /\ b.failures + 1 < Threshold
      <3>1. AfterFailure(b) = [b EXCEPT !.failures = b.failures + 1,
                                        !.cooled = FALSE, !.state = "CLOSED"]
        BY <2>1 DEF AfterFailure
      <3>2. AfterFailure(b) \in Breaker
        <4>1. /\ b \in Breaker
              /\ "CLOSED" \in State
              /\ b.failures + 1 \in Nat
          BY DEF Good, State, Breaker
        <4>2. [b EXCEPT !.failures = b.failures + 1, !.cooled = FALSE,
                        !.state = "CLOSED"] \in Breaker
          BY <4>1, ThreeFields
        <4>3. QED
          BY <3>1, <4>2
      <3>3. /\ AfterFailure(b).state = "CLOSED"
            /\ AfterFailure(b).failures = b.failures + 1
            /\ AfterFailure(b).successes = b.successes
        BY <3>1 DEF Good, Breaker
      <3>4. b.state \in State /\ b.failures \in Nat
        BY DEF Good, Breaker
      <3>5. QED
        BY <2>1, <3>2, <3>3, <3>4 DEF Good, Consistent, State
    <2>2. CASE ~ (b.state = "CLOSED" /\ b.failures + 1 < Threshold)
      <3>1. AfterFailure(b) = [b EXCEPT !.failures = b.failures + 1,
                                        !.cooled = FALSE, !.state = "OPEN"]
        BY <2>2 DEF AfterFailure
      <3>2. AfterFailure(b) \in Breaker
        <4>1. /\ b \in Breaker
              /\ "OPEN" \in State
              /\ b.failures + 1 \in Nat
          BY DEF Good, State, Breaker
        <4>2. [b EXCEPT !.failures = b.failures + 1, !.cooled = FALSE,
                        !.state = "OPEN"] \in Breaker
          BY <4>1, ThreeFields
        <4>3. QED
          BY <3>1, <4>2
      <3>3. /\ AfterFailure(b).state = "OPEN"
            /\ AfterFailure(b).failures = b.failures + 1
            /\ AfterFailure(b).successes = b.successes
        BY <3>1 DEF Good, Breaker
      <3>4. b.state \in State /\ b.failures \in Nat
        BY DEF Good, Breaker
      <3>5. QED
        BY <2>2, <3>2, <3>3, <3>4 DEF Good, Consistent, State
    <2>3. QED
      BY <2>1, <2>2
  <1>4. Good(AfterReset(b))
    BY DEF Good, Breaker, State, Consistent, AfterReset
  <1>5. Good(AfterTimeout(b))
    BY DEF Good, Breaker, State, Consistent, AfterTimeout
  <1>6. QED
    BY <1>1, <1>2, <1>3, <1>4, <1>5

\* Asking the manager for a breaker yields a good one, created or not.
LEMMA GetIsGood ==
  ASSUME IInv, NEW s \in Servers
  PROVE  Good(Get(breakers, s))
  BY NewIsGood DEF IInv, TypeOK, CountersAgree, Get, Good

\* Storing a good breaker keeps every breaker of the map good.
LEMMA UpdateKeepsInv ==
  ASSUME IInv, NEW s \in Servers, NEW b, Good(b),
         breakers' = Update(breakers, s, b),
         using' \in [Callers -> Servers \cup {NoServer}]
  PROVE  IInv'
  BY DEF IInv, TypeOK, CountersAgree, Update, Good

\* IInv is inductive.
LEMMA IInvPreserved == IInv /\ [Next]_vars => IInv'
  <1> SUFFICES ASSUME IInv, [Next]_vars PROVE IInv'
    OBVIOUS
  <1>1. ASSUME NEW c \in Callers, NEW s \in Servers, Admit(c, s)
        PROVE  IInv'
    <2>1. Good(AfterAllow(Get(breakers, s)))
      BY GetIsGood, MethodsKeepGood
    <2>2. using' \in [Callers -> Servers \cup {NoServer}]
      BY <1>1 DEF Admit, IInv, TypeOK
    <2>3. QED
      BY <1>1, <2>1, <2>2, UpdateKeepsInv DEF Admit
  <1>2. ASSUME NEW c \in Callers, NEW s \in Servers, ReportSuccess(c, s)
        PROVE  IInv'
    <2>1. Good(AfterSuccess(Get(breakers, s)))
      BY GetIsGood, MethodsKeepGood
    <2>2. using' \in [Callers -> Servers \cup {NoServer}]
      BY <1>2 DEF ReportSuccess, IInv, TypeOK
    <2>3. QED
      BY <1>2, <2>1, <2>2, UpdateKeepsInv DEF ReportSuccess
  <1>3. ASSUME NEW c \in Callers, NEW s \in Servers, ReportFailure(c, s)
        PROVE  IInv'
    <2>1. Good(AfterFailure(Get(breakers, s)))
      BY GetIsGood, MethodsKeepGood
    <2>2. using' \in [Callers -> Servers \cup {NoServer}]
      BY <1>3 DEF ReportFailure, IInv, TypeOK
    <2>3. QED
      BY <1>3, <2>1, <2>2, UpdateKeepsInv DEF ReportFailure
  <1>4. ASSUME NEW s \in Servers, Timeout(s)
        PROVE  IInv'
    <2>1. Good(AfterTimeout(breakers[s]))
      BY <1>4, GetIsGood, MethodsKeepGood DEF Timeout, Get
    <2>2. using' \in [Callers -> Servers \cup {NoServer}]
      BY <1>4 DEF Timeout, IInv, TypeOK
    <2>3. QED
      BY <1>4, <2>1, <2>2, UpdateKeepsInv DEF Timeout
  <1>5. ASSUME NEW s \in Servers, Remove(s)
        PROVE  IInv'
    BY <1>5 DEF Remove, IInv, TypeOK, CountersAgree
  <1>6. CASE Reset
    <2>1. \A s \in DOMAIN breakers : Good(AfterReset(breakers[s]))
      BY MethodsKeepGood DEF IInv, TypeOK, CountersAgree, Good
    <2>2. QED
      BY <1>6, <2>1 DEF Reset, IInv, TypeOK, CountersAgree, Good
  <1>7. CASE UNCHANGED vars
    BY <1>7 DEF vars, IInv, TypeOK, CountersAgree, Consistent
  <1>8. QED
    BY <1>1, <1>2, <1>3, <1>4, <1>5, <1>6, <1>7 DEF Next

\* The initial state satisfies IInv.
LEMMA IInvInit == Init => IInv
  BY DEF Init, IInv, TypeOK, CountersAgree

\* Type correctness of the breaker map and of the callers.
THEOREM TypeCorrect == Spec => []TypeOK
  <1>1. IInv => TypeOK
    BY DEF IInv
  <1>2. QED
    BY IInvInit, IInvPreserved, <1>1, PTL DEF Spec

\* In every reachable state, every breaker's counters agree with its state.
THEOREM CountersAlwaysAgree == Spec => []CountersAgree
  <1>1. IInv => CountersAgree
    BY DEF IInv
  <1>2. QED
    BY IInvInit, IInvPreserved, <1>1, PTL DEF Spec

\* An open breaker lets nobody through before its timeout has elapsed since
\* the last failure, however reports interleave.
THEOREM NeverReopensEarly == Spec => OpenUntilCooled
  <1> DEFINE A == \A s \in DOMAIN breakers :
                    /\ breakers[s].state = "OPEN"
                    /\ Get(breakers', s).state # "OPEN"
                    => \/ breakers[s].cooled
                            /\ Get(breakers', s).state = "HALF_OPEN"
                       \/ Reset
                       \/ Remove(s)
  <1>1. IInv /\ [Next]_vars => [A]_vars
    <2> SUFFICES ASSUME IInv, Next,
                        NEW s \in DOMAIN breakers,
                        breakers[s].state = "OPEN",
                        Get(breakers', s).state # "OPEN",
                        ~ Reset, ~ Remove(s)
                 PROVE  breakers[s].cooled /\ Get(breakers', s).state = "HALF_OPEN"
      OBVIOUS
    <2>0. breakers[s] \in Breaker /\ s \in Servers
      BY DEF IInv, TypeOK
    <2>1. ASSUME NEW c \in Callers, NEW t \in Servers, Admit(c, t)
          PROVE  breakers[s].cooled /\ Get(breakers', s).state = "HALF_OPEN"
      BY <2>0, <2>1 DEF Admit, Update, Get, AfterAllow, Allows, Breaker
    <2>2. ASSUME NEW c \in Callers, NEW t \in Servers, ReportSuccess(c, t)
          PROVE  FALSE
      BY <2>0, <2>2 DEF ReportSuccess, Update, Get, AfterSuccess, Breaker
    <2>3. ASSUME NEW c \in Callers, NEW t \in Servers, ReportFailure(c, t)
          PROVE  FALSE
      BY <2>0, <2>3 DEF ReportFailure, Update, Get, AfterFailure, Breaker
    <2>4. ASSUME NEW t \in Servers, Timeout(t)
          PROVE  FALSE
      BY <2>0, <2>4 DEF Timeout, Update, Get, AfterTimeout, Breaker
    <2>5. ASSUME NEW t \in Servers, Remove(t)
          PROVE  FALSE
      <3>1. t # s
        BY <2>5
      <3>2. QED
        BY <2>0, <2>5, <3>1 DEF Remove, Get
    <2>6. QED
      BY <2>1, <2>2, <2>3, <2>4, <2>5 DEF Next
  <1>2. QED
    BY IInvInit, IInvPreserved, <1>1, PTL DEF Spec, OpenUntilCooled

-----------------------------------------------------------------------------
(* Histories                                                               *)

\* What breaker b must know of history h: closed, its failure counter is the
\* length of the maximal run of failures h ends with; half-open, its success
\* counter is the number of successes since the probe.
Tells(b, h) ==
  /\ b.state = "CLOSED" =>
       /\ EndsWith(h, "fail", b.failures)
       /\ b.failures < Len(h) => h[Len(h) - b.failures] # "fail"
  /\ b.state = "HALF_OPEN" =>
       /\ EndsWith(h, "ok", b.successes)
       /\ b.successes < Len(h)
       /\ h[Len(h) - b.successes] = "probe"

HInv ==
  /\ IInv
  /\ history \in [Servers -> Seq(Event)]
  /\ \A s \in Servers : Tells(Get(breakers, s), history[s])

-----------------------------------------------------------------------------
\* Appending an event makes a sequence one longer and keeps the rest.
LEMMA AppendEvent ==
  ASSUME NEW h \in Seq(Event), NEW e \in Event
  PROVE  /\ Append(h, e) \in Seq(Event)
         /\ Len(Append(h, e)) = Len(h) + 1
         /\ Len(h) \in Nat
         /\ Append(h, e)[Len(h) + 1] = e
         /\ \A i \in 1 .. Len(h) : Append(h, e)[i] = h[i]
  OBVIOUS

\* A run grows by one with each event of its kind.
LEMMA RunGrows ==
  ASSUME NEW h \in Seq(Event), NEW e \in Event, NEW n \in Nat,
         EndsWith(h, e, n)
  PROVE  EndsWith(Append(h, e), e, n + 1)
  <1>1. n + 1 <= Len(Append(h, e))
    BY AppendEvent DEF EndsWith
  <1>2. ASSUME NEW i \in 1 .. Len(Append(h, e)),
               i > Len(Append(h, e)) - (n + 1)
        PROVE  Append(h, e)[i] = e
    <2>1. CASE i = Len(h) + 1
      BY <2>1, AppendEvent
    <2>2. CASE i # Len(h) + 1
      <3>1. i \in 1 .. Len(h) /\ i > Len(h) - n
        BY <1>2, <2>2, AppendEvent
      <3>2. QED
        BY <3>1, AppendEvent DEF EndsWith
    <2>3. QED
      BY <2>1, <2>2
  <1>3. QED
    BY <1>1, <1>2 DEF EndsWith

\* Every sequence ends with an empty run.
LEMMA EmptyRun ==
  ASSUME NEW h \in Seq(Event), NEW e \in Event
  PROVE  EndsWith(h, e, 0)
  BY DEF EndsWith

\* The type of a breaker's fields.
LEMMA FieldTypes ==
  ASSUME NEW b, Good(b)
  PROVE  /\ b \in Breaker
         /\ b.state \in State
         /\ b.failures \in Nat
         /\ b.successes \in Nat
  BY DEF Good, Breaker

-----------------------------------------------------------------------------
\* Each method of a breaker keeps it telling its history, the call's event
\* included.
LEMMA SuccessTells ==
  ASSUME NEW b, Good(b), NEW h \in Seq(Event), Tells(b, h)
  PROVE  Tells(AfterSuccess(b), Append(h, "ok"))
  <1> DEFINE g == Append(h, "ok")
             a == AfterSuccess(b)
  <1>1. /\ g \in Seq(Event) /\ Len(g) = Len(h) + 1 /\ Len(h) \in Nat
        /\ g[Len(g)] = "ok"
        /\ \A i \in 1 .. Len(h) : g[i] = h[i]
    BY AppendEvent DEF Event
  <1>2. EndsWith(g, "fail", 0)
    BY <1>1, EmptyRun DEF Event
  <1>3. CASE b.state = "CLOSED"
    <2>1. a.state = "CLOSED" /\ a.failures = 0
      BY <1>3, FieldTypes DEF AfterSuccess, Breaker
    <2>2. QED
      BY <1>1, <1>2, <2>1 DEF Tells
  <1>4. CASE b.state = "OPEN"
    BY <1>4 DEF AfterSuccess, Tells
  <1>5. CASE b.state = "HALF_OPEN" /\ b.successes + 1 < SuccessThreshold
    <2>1. a.state = "HALF_OPEN" /\ a.successes = b.successes + 1
      <3>1. a = [b EXCEPT !.successes = b.successes + 1]
        BY <1>5, FieldTypes, SuccessThresholdAssumption DEF AfterSuccess
      <3>2. QED
        BY <1>5, <3>1, FieldTypes DEF Breaker
    <2>2. EndsWith(g, "ok", b.successes + 1)
      BY <1>5, FieldTypes, RunGrows DEF Tells, Event
    <2>3. /\ b.successes + 1 < Len(g)
          /\ Len(g) - (b.successes + 1) \in 1 .. Len(h)
          /\ Len(g) - (b.successes + 1) = Len(h) - b.successes
      BY <1>1, <1>5, FieldTypes DEF Tells
    <2>4. g[Len(g) - (b.successes + 1)] = "probe"
      BY <1>1, <1>5, <2>3 DEF Tells
    <2>5. QED
      BY <2>1, <2>2, <2>3, <2>4 DEF Tells
  <1>6. CASE b.state = "HALF_OPEN" /\ ~ (b.successes + 1 < SuccessThreshold)
    <2>1. b.successes + 1 >= SuccessThreshold
      BY <1>6, FieldTypes, SuccessThresholdAssumption
    <2>2. a = [b EXCEPT !.state = "CLOSED", !.failures = 0, !.successes = 0]
      BY <1>6, <2>1 DEF AfterSuccess
    <2>3. a.state = "CLOSED" /\ a.failures = 0
      BY <2>2, FieldTypes DEF Breaker
    <2>4. QED
      BY <1>1, <1>2, <2>3 DEF Tells
  <1>7. QED
    BY <1>3, <1>4, <1>5, <1>6, FieldTypes DEF State

\* The fields of a breaker that has recorded a failure.
LEMMA FailureFields ==
  ASSUME NEW b, Good(b)
  PROVE  /\ AfterFailure(b).state =
              IF b.state = "CLOSED" /\ b.failures + 1 < Threshold
              THEN "CLOSED" ELSE "OPEN"
         /\ AfterFailure(b).failures = b.failures + 1
  BY FieldTypes DEF AfterFailure, Breaker

\* A failure keeps a breaker telling its history, the failure included.
LEMMA FailureTells ==
  ASSUME NEW b, Good(b), NEW h \in Seq(Event), Tells(b, h)
  PROVE  Tells(AfterFailure(b), Append(h, "fail"))
  <1> DEFINE g == Append(h, "fail")
             a == AfterFailure(b)
  <1>1. CASE b.state = "CLOSED" /\ b.failures + 1 < Threshold
    <2>1. a.state = "CLOSED" /\ a.failures = b.failures + 1
      BY <1>1, FailureFields
    <2>2. EndsWith(g, "fail", b.failures + 1)
      BY <1>1, FieldTypes, RunGrows DEF Tells, Event
    <2>3. ASSUME b.failures + 1 < Len(g)
          PROVE  g[Len(g) - (b.failures + 1)] # "fail"
      <3>1. /\ Len(g) = Len(h) + 1 /\ Len(h) \in Nat
            /\ \A i \in 1 .. Len(h) : g[i] = h[i]
        BY AppendEvent DEF Event
      <3>2. /\ b.failures < Len(h)
            /\ Len(h) - b.failures \in 1 .. Len(h)
            /\ Len(g) - (b.failures + 1) = Len(h) - b.failures
        BY <2>3, <3>1, FieldTypes
      <3>3. QED
        BY <1>1, <3>1, <3>2 DEF Tells
    <2>4. QED
      BY <2>1, <2>2, <2>3 DEF Tells
  <1>2. CASE ~ (b.state = "CLOSED" /\ b.failures + 1 < Threshold)
    BY <1>2, FailureFields DEF Tells
  <1>3. QED
    BY <1>1, <1>2

\* So does the call of Allow that turns it half-open.
LEMMA ProbeTells ==
  ASSUME NEW b, Good(b), NEW h \in Seq(Event), b.state = "OPEN", b.cooled
  PROVE  Tells(AfterAllow(b), Append(h, "probe"))
  <1> DEFINE g == Append(h, "probe")
             a == AfterAllow(b)
  <1>1. a.state = "HALF_OPEN" /\ a.successes = 0
    BY FieldTypes DEF AfterAllow, Breaker
  <1>2. g \in Seq(Event) /\ Len(g) > 0 /\ g[Len(g)] = "probe" /\ Len(g) \in Nat
    BY AppendEvent DEF Event
  <1>3. EndsWith(g, "ok", 0)
    BY <1>2, EmptyRun DEF Event
  <1>4. QED
    BY <1>1, <1>2, <1>3 DEF Tells

\* After a reset or a removal the breaker is closed, with no failure counted.
LEMMA ResetTells ==
  ASSUME NEW b, NEW h \in Seq(Event), b.state = "CLOSED", b.failures = 0
  PROVE  Tells(b, Append(h, "reset"))
  <1> DEFINE g == Append(h, "reset")
  <1>1. g \in Seq(Event) /\ Len(g) > 0 /\ g[Len(g)] = "reset" /\ Len(g) \in Nat
    BY AppendEvent DEF Event
  <1>2. EndsWith(g, "fail", 0)
    BY <1>1, EmptyRun DEF Event
  <1>3. QED
    BY <1>1, <1>2 DEF Tells

-----------------------------------------------------------------------------
\* The initial state satisfies HInv.
LEMMA HInvInit == HInit => HInv
  <1> SUFFICES ASSUME HInit PROVE HInv
    OBVIOUS
  <1>1. IInv /\ history \in [Servers -> Seq(Event)]
    BY IInvInit DEF HInit
  <1>2. ASSUME NEW s \in Servers
        PROVE  Tells(Get(breakers, s), history[s])
    <2>1. Get(breakers, s) = NewBreaker /\ history[s] = <<>>
      BY DEF HInit, Init, Get
    <2>2. EndsWith(<<>>, "fail", 0) /\ Len(<<>>) = 0
      BY DEF EndsWith
    <2>3. QED
      BY <2>1, <2>2 DEF Tells, NewBreaker
  <1>3. QED
    BY <1>1, <1>2 DEF HInv

\* Every step of HNext is a step of Next.
LEMMA HNextIsNext == [HNext]_hvars => [Next]_vars
  BY DEF HNext, HAdmit, HReportSuccess, HReportFailure, HTimeout, HRemove,
         HReset, Next, hvars, vars

\* Storing breaker b for s changes what Get answers for s, and only for s.
LEMMA GetAfterUpdate ==
  ASSUME NEW s \in Servers, NEW t \in Servers, NEW b,
         breakers' = Update(breakers, s, b)
  PROVE  Get(breakers', t) = IF t = s THEN b ELSE Get(breakers, t)
  BY DEF Get, Update

\* One server's breaker and history change together; the others keep theirs.
LEMMA OneServerTells ==
  ASSUME HInv, NEW s \in Servers, NEW b, NEW e \in Event,
         breakers' = Update(breakers, s, b),
         history' = [history EXCEPT ![s] = Append(@, e)],
         Tells(b, Append(history[s], e))
  PROVE  \A t \in Servers : Tells(Get(breakers', t), history'[t])
  <1> SUFFICES ASSUME NEW t \in Servers
               PROVE  Tells(Get(breakers', t), history'[t])
    OBVIOUS
  <1>1. CASE t = s
    <2>1. history'[t] = Append(history[s], e)
      BY <1>1 DEF HInv
    <2>2. QED
      BY <1>1, <2>1, GetAfterUpdate
  <1>2. CASE t # s
    <2>1. history'[t] = history[t]
      BY <1>2 DEF HInv
    <2>2. QED
      BY <1>2, <2>1, GetAfterUpdate DEF HInv
  <1>3. QED
    BY <1>1, <1>2

\* A step that stores a breaker that tells the same history as before.
LEMMA SameHistoryTells ==
  ASSUME HInv, NEW s \in Servers, NEW b,
         breakers' = Update(breakers, s, b),
         history' = history,
         Tells(b, history[s])
  PROVE  \A t \in Servers : Tells(Get(breakers', t), history'[t])
  BY GetAfterUpdate DEF HInv

\* Appending one event keeps the histories well typed.
LEMMA LogTypes ==
  ASSUME history \in [Servers -> Seq(Event)], NEW s \in Servers,
         NEW e \in Event, history' = [history EXCEPT ![s] = Append(@, e)]
  PROVE  history' \in [Servers -> Seq(Event)]
  <1>1. Append(history[s], e) \in Seq(Event)
    BY AppendEvent
  <1>2. QED
    BY <1>1

\* HInv is inductive.
LEMMA HInvPreserved == HInv /\ [HNext]_hvars => HInv'
  <1> SUFFICES ASSUME HInv, [HNext]_hvars PROVE HInv'
    OBVIOUS
  <1> USE DEF Event
  <1>0. IInv'
    BY IInvPreserved, HNextIsNext DEF HInv
  <1>g. \A s \in Servers : /\ Good(Get(breakers, s))
                          /\ history[s] \in Seq(Event)
                          /\ Tells(Get(breakers, s), history[s])
    BY GetIsGood DEF HInv
  <1>1. ASSUME NEW c \in Callers, NEW s \in Servers, HAdmit(c, s)
        PROVE  HInv'
    <2>1. breakers' = Update(breakers, s, AfterAllow(Get(breakers, s)))
      BY <1>1 DEF HAdmit, Admit
    <2>2. CASE Get(breakers, s).state = "OPEN"
      <3>1. Get(breakers, s).cooled
        BY <1>1, <2>2 DEF HAdmit, Admit, Allows
      <3>2. Tells(AfterAllow(Get(breakers, s)), Append(history[s], "probe"))
        BY <1>g, <2>2, <3>1, ProbeTells
      <3>3. history' = [history EXCEPT ![s] = Append(@, "probe")]
        BY <1>1, <2>2 DEF HAdmit, Log
      <3>4. history' \in [Servers -> Seq(Event)]
        BY <3>3, LogTypes DEF HInv
      <3>5. \A t \in Servers : Tells(Get(breakers', t), history'[t])
        BY <2>1, <3>2, <3>3, OneServerTells
      <3>6. QED
        BY <1>0, <3>4, <3>5 DEF HInv
    <2>3. CASE Get(breakers, s).state # "OPEN"
      <3>1. AfterAllow(Get(breakers, s)) = Get(breakers, s)
        BY <2>3 DEF AfterAllow
      <3>2. history' = history
        BY <1>1, <2>3 DEF HAdmit
      <3>3. \A t \in Servers : Tells(Get(breakers', t), history'[t])
        BY <1>g, <2>1, <3>1, <3>2, SameHistoryTells
      <3>4. QED
        BY <1>0, <3>2, <3>3 DEF HInv
    <2>4. QED
      BY <2>2, <2>3
  <1>2. ASSUME NEW c \in Callers, NEW s \in Servers, HReportSuccess(c, s)
        PROVE  HInv'
    <2>1. breakers' = Update(breakers, s, AfterSuccess(Get(breakers, s)))
      BY <1>2 DEF HReportSuccess, ReportSuccess
    <2>2. history' = [history EXCEPT ![s] = Append(@, "ok")]
      BY <1>2 DEF HReportSuccess, Log
    <2>3. Tells(AfterSuccess(Get(breakers, s)), Append(history[s], "ok"))
      BY <1>g, SuccessTells
    <2>4. history' \in [Servers -> Seq(Event)]
      BY <2>2, LogTypes DEF HInv
    <2>5. \A t \in Servers : Tells(Get(breakers', t), history'[t])
      BY <2>1, <2>2, <2>3, OneServerTells
    <2>6. QED
      BY <1>0, <2>4, <2>5 DEF HInv
  <1>3. ASSUME NEW c \in Callers, NEW s \in Servers, HReportFailure(c, s)
        PROVE  HInv'
    <2>1. breakers' = Update(breakers, s, AfterFailure(Get(breakers, s)))
      BY <1>3 DEF HReportFailure, ReportFailure
    <2>2. history' = [history EXCEPT ![s] = Append(@, "fail")]
      BY <1>3 DEF HReportFailure, Log
    <2>3. Tells(AfterFailure(Get(breakers, s)), Append(history[s], "fail"))
      BY <1>g, FailureTells
    <2>4. history' \in [Servers -> Seq(Event)]
      BY <2>2, LogTypes DEF HInv
    <2>5. \A t \in Servers : Tells(Get(breakers', t), history'[t])
      BY <2>1, <2>2, <2>3, OneServerTells
    <2>6. QED
      BY <1>0, <2>4, <2>5 DEF HInv
  <1>4. ASSUME NEW s \in Servers, HTimeout(s)
        PROVE  HInv'
    <2>1. /\ breakers' = Update(breakers, s, AfterTimeout(breakers[s]))
          /\ history' = history
          /\ breakers[s] = Get(breakers, s)
      BY <1>4 DEF HTimeout, Timeout, Get
    <2>2. Tells(AfterTimeout(Get(breakers, s)), history[s])
      BY <1>g, FieldTypes DEF Tells, AfterTimeout, Breaker
    <2>3. \A t \in Servers : Tells(Get(breakers', t), history'[t])
      BY <2>1, <2>2, SameHistoryTells
    <2>4. QED
      BY <1>0, <2>1, <2>3 DEF HInv
  <1>5. ASSUME NEW s \in Servers, HRemove(s)
        PROVE  HInv'
    <2>1. /\ \A t \in Servers : Get(breakers', t) =
                IF t = s THEN NewBreaker ELSE Get(breakers, t)
          /\ history' = [history EXCEPT ![s] = Append(@, "reset")]
      BY <1>5 DEF HRemove, Remove, Log, Get
    <2>2. Tells(NewBreaker, Append(history[s], "reset"))
      BY <1>g, ResetTells DEF NewBreaker
    <2>3. history' \in [Servers -> Seq(Event)]
      BY <2>1, LogTypes DEF HInv
    <2>4. ASSUME NEW t \in Servers
          PROVE  Tells(Get(breakers', t), history'[t])
      <3>1. history'[t] = IF t = s THEN Append(history[s], "reset")
                                   ELSE history[t]
        BY <2>1 DEF HInv
      <3>2. QED
        BY <1>g, <2>1, <2>2, <3>1
    <2>5. QED
      BY <1>0, <2>3, <2>4 DEF HInv
  <1>6. CASE HReset
    <2>1. ASSUME NEW t \in Servers
          PROVE  /\ history'[t] \in Seq(Event)
                 /\ Tells(Get(breakers', t), history'[t])
      <3>1. CASE t \in DOMAIN breakers
        <4>1. history'[t] = Append(history[t], "reset")
          BY <1>6, <3>1 DEF HReset
        <4>2. Get(breakers', t) = AfterReset(Get(breakers, t))
          BY <1>6, <3>1 DEF HReset, Reset, Get
        <4>3. /\ AfterReset(Get(breakers, t)).state = "CLOSED"
              /\ AfterReset(Get(breakers, t)).failures = 0
          BY <1>g, FieldTypes DEF AfterReset, Breaker
        <4>4. QED
          BY <1>g, <4>1, <4>2, <4>3, ResetTells, AppendEvent
      <3>2. CASE t \notin DOMAIN breakers
        <4>1. history'[t] = history[t] /\ Get(breakers', t) = Get(breakers, t)
          BY <1>6, <3>2 DEF HReset, Reset, Get
        <4>2. QED
          BY <1>g, <4>1
      <3>3. QED
        BY <3>1, <3>2
    <2>2. history' \in [Servers -> Seq(Event)]
      BY <1>6, <2>1 DEF HReset
    <2>3. QED
      BY <1>0, <2>1, <2>2 DEF HInv
  <1>7. CASE UNCHANGED hvars
    BY <1>0, <1>7 DEF hvars, HInv, Tells, EndsWith
  <1>8. QED
    BY <1>1, <1>2, <1>3, <1>4, <1>5, <1>6, <1>7 DEF HNext

-----------------------------------------------------------------------------
\* HInv holds in every reachable state.
LEMMA HInvariant == HSpec => []HInv
  BY HInvInit, HInvPreserved, PTL DEF HSpec

\* HInv implies the invariants the runs check.
LEMMA HInvImplies ==
  ASSUME HInv
  PROVE  HTypeOK /\ ClosedMeansNoFailureRun /\ HalfOpenMeansProbing
  <1>1. HTypeOK
    BY DEF HInv, IInv, HTypeOK
  <1>2. ASSUME NEW s \in Servers, Get(breakers, s).state = "CLOSED",
               Threshold >= 1, EndsWith(history[s], "fail", Threshold)
        PROVE  FALSE
    <2> DEFINE b == Get(breakers, s)
               h == history[s]
    <2>1. /\ b.failures \in Nat /\ Good(b)
          /\ h \in Seq(Event) /\ Len(h) \in Nat
      BY GetIsGood, FieldTypes DEF HInv
    <2>2. b.failures < Threshold
      BY <1>2, <2>1, ThresholdAssumption DEF Good, Consistent
    <2>3. b.failures < Len(h) /\ Len(h) - b.failures \in 1 .. Len(h)
      BY <1>2, <2>1, <2>2, ThresholdAssumption DEF EndsWith
    <2>4. h[Len(h) - b.failures] # "fail"
      BY <1>2, <2>3 DEF HInv, Tells
    <2>5. Len(h) - b.failures > Len(h) - Threshold
      BY <2>1, <2>2, ThresholdAssumption
    <2>6. QED
      BY <1>2, <2>3, <2>4, <2>5 DEF EndsWith
  <1>3. HalfOpenMeansProbing
    BY DEF HInv, Tells, HalfOpenMeansProbing
  <1>4. QED
    BY <1>1, <1>2, <1>3 DEF ClosedMeansNoFailureRun

\* A closed breaker has never just seen Threshold failures in a row, whatever
\* the interleaving of callers, timeouts, resets and removals.
THEOREM FailureRunAlwaysTrips == HSpec => []ClosedMeansNoFailureRun
  BY HInvariant, HInvImplies, PTL

\* A half-open breaker has seen only successes since its probe and has counted
\* each of them.
THEOREM HalfOpenCountsProbes == HSpec => []HalfOpenMeansProbing
  BY HInvariant, HInvImplies, PTL

\* Only a reset, a removal or a success can leave a breaker closed, and only a
\* failure can trip a closed one.
LEMMA TripStep ==
  ASSUME HInv, HNext, NEW s \in Servers,
         Get(breakers, s).state = "CLOSED", Get(breakers', s).state = "OPEN"
  PROVE  /\ history'[s] = Append(history[s], "fail")
         /\ Get(breakers, s).failures + 1 >= Threshold
  <1>g. \A t \in Servers : Good(Get(breakers, t))
    BY GetIsGood DEF HInv
  <1>1. ASSUME NEW c \in Callers, NEW t \in Servers, HAdmit(c, t)
        PROVE  FALSE
    <2>1. Get(breakers', s) = IF s = t THEN AfterAllow(Get(breakers, t))
                                       ELSE Get(breakers, s)
      BY <1>1, GetAfterUpdate DEF HAdmit, Admit
    <2>2. s = t
      BY <2>1
    <2>3. AfterAllow(Get(breakers, t)) = Get(breakers, t)
      BY <2>2 DEF AfterAllow
    <2>4. QED
      BY <2>1, <2>2, <2>3
  <1>2. ASSUME NEW c \in Callers, NEW t \in Servers, HReportSuccess(c, t)
        PROVE  FALSE
    <2>1. Get(breakers', s) = IF s = t THEN AfterSuccess(Get(breakers, t))
                                       ELSE Get(breakers, s)
      BY <1>2, GetAfterUpdate DEF HReportSuccess, ReportSuccess
    <2>2. s = t
      BY <2>1
    <2>3. AfterSuccess(Get(breakers, t)).state = "CLOSED"
      BY <1>g, <2>2, FieldTypes DEF AfterSuccess, Breaker
    <2>4. QED
      BY <2>1, <2>2, <2>3
  <1>3. ASSUME NEW c \in Callers, NEW t \in Servers, HReportFailure(c, t)
        PROVE  /\ history'[s] = Append(history[s], "fail")
               /\ Get(breakers, s).failures + 1 >= Threshold
    <2>1. Get(breakers', s) = IF s = t THEN AfterFailure(Get(breakers, t))
                                       ELSE Get(breakers, s)
      BY <1>3, GetAfterUpdate DEF HReportFailure, ReportFailure
    <2>2. s = t
      BY <2>1
    <2>3. history'[s] = Append(history[s], "fail")
      <3>1. history \in [Servers -> Seq(Event)]
        BY DEF HInv
      <3>2. history' = [history EXCEPT ![t] = Append(@, "fail")]
        BY <1>3 DEF HReportFailure, Log
      <3>3. QED
        BY <2>2, <3>1, <3>2
    <2>4. ~ (Get(breakers, s).failures + 1 < Threshold)
      BY <1>g, <2>1, <2>2, FailureFields
    <2>5. QED
      BY <1>g, <2>3, <2>4, FieldTypes, ThresholdAssumption
  <1>4. ASSUME NEW t \in Servers, HTimeout(t)
        PROVE  FALSE
    <2>1. Get(breakers', s) = IF s = t THEN AfterTimeout(Get(breakers, t))
                                       ELSE Get(breakers, s)
      BY <1>4, GetAfterUpdate DEF HTimeout, Timeout, Get
    <2>2. s = t
      BY <2>1
    <2>3. AfterTimeout(Get(breakers, t)).state = Get(breakers, t).state
      BY <1>g, FieldTypes DEF AfterTimeout, Breaker
    <2>4. QED
      BY <2>1, <2>2, <2>3
  <1>5. ASSUME NEW t \in Servers, HRemove(t)
        PROVE  FALSE
    BY <1>5 DEF HRemove, Remove, Get, NewBreaker
  <1>6. CASE HReset
    <2>1. CASE s \in DOMAIN breakers
      <3>1. Get(breakers', s) = AfterReset(Get(breakers, s))
        BY <1>6, <2>1 DEF HReset, Reset, Get
      <3>2. AfterReset(Get(breakers, s)).state = "CLOSED"
        BY <1>g, FieldTypes DEF AfterReset, Breaker
      <3>3. QED
        BY <3>1, <3>2
    <2>2. CASE s \notin DOMAIN breakers
      BY <1>6, <2>2 DEF HReset, Reset, Get, NewBreaker
    <2>3. QED
      BY <2>1, <2>2
  <1>7. QED
    BY <1>1, <1>2, <1>3, <1>4, <1>5, <1>6 DEF HNext

\* A closed breaker trips only on a run of Threshold failures.
THEOREM OnlyFailureRunsTrip == HSpec => TripsOnlyOnFailureRun
  <1> DEFINE A == \A s \in Servers :
                    /\ Get(breakers, s).state = "CLOSED"
                    /\ Get(breakers', s).state = "OPEN"
                    => \/ EndsWith(history'[s], "fail", Threshold)
                       \/ Threshold < 1 /\ EndsWith(history'[s], "fail", 1)
  <1>1. HInv /\ [HNext]_hvars => [A]_hvars
    <2> SUFFICES ASSUME HInv, HNext, NEW s \in Servers,
                        Get(breakers, s).state = "CLOSED",
                        Get(breakers', s).state = "OPEN"
                 PROVE  \/ EndsWith(history'[s], "fail", Threshold)
                        \/ Threshold < 1 /\ EndsWith(history'[s], "fail", 1)
      OBVIOUS
    <2> DEFINE n == Get(breakers, s).failures
    <2>1. /\ history'[s] = Append(history[s], "fail")
          /\ n + 1 >= Threshold
      BY TripStep
    <2>2. /\ n \in Nat
          /\ history[s] \in Seq(Event)
          /\ EndsWith(history[s], "fail", n)
      BY GetIsGood, FieldTypes DEF HInv, Tells
    <2>3. EndsWith(history'[s], "fail", n + 1)
      BY <2>1, <2>2, RunGrows DEF Event
    <2>4. Len(history'[s]) \in Nat
      BY <2>1, <2>2, AppendEvent DEF Event
    <2>5. QED
      BY <2>1, <2>2, <2>3, <2>4, ThresholdAssumption DEF EndsWith
  <1>2. QED
    BY HInvariant, <1>1, PTL DEF HSpec, TripsOnlyOnFailureRun

\* A breaker that was not closed closes by the last success it needs, a reset
\* or a removal.
LEMMA CloseStep ==
  ASSUME HInv, HNext, NEW s \in Servers,
         Get(breakers, s).state # "CLOSED", Get(breakers', s).state = "CLOSED"
  PROVE  \/ /\ history'[s] = Append(history[s], "ok")
            /\ Get(breakers, s).state = "HALF_OPEN"
            /\ Get(breakers, s).successes + 1 >= SuccessThreshold
         \/ history'[s] = Append(history[s], "reset")
  <1>g. /\ \A t \in Servers : Good(Get(breakers, t))
        /\ history \in [Servers -> Seq(Event)]
    BY GetIsGood DEF HInv
  <1>d. s \in DOMAIN breakers
    BY DEF Get, NewBreaker
  <1>1. ASSUME NEW c \in Callers, NEW t \in Servers, HAdmit(c, t)
        PROVE  FALSE
    <2>1. Get(breakers', s) = IF s = t THEN AfterAllow(Get(breakers, t))
                                       ELSE Get(breakers, s)
      BY <1>1, GetAfterUpdate DEF HAdmit, Admit
    <2>2. AfterAllow(Get(breakers, s)).state # "CLOSED"
      BY <1>g, FieldTypes DEF AfterAllow, Breaker
    <2>3. QED
      BY <2>1, <2>2
  <1>2. ASSUME NEW c \in Callers, NEW t \in Servers, HReportSuccess(c, t)
        PROVE  /\ history'[s] = Append(history[s], "ok")
               /\ Get(breakers, s).state = "HALF_OPEN"
               /\ Get(breakers, s).successes + 1 >= SuccessThreshold
    <2>1. Get(breakers', s) = IF s = t THEN AfterSuccess(Get(breakers, t))
                                       ELSE Get(breakers, s)
      BY <1>2, GetAfterUpdate DEF HReportSuccess, ReportSuccess
    <2>2. s = t
      BY <2>1
    <2>3. history'[s] = Append(history[s], "ok")
      <3>1. history' = [history EXCEPT ![t] = Append(@, "ok")]
        BY <1>2 DEF HReportSuccess, Log
      <3>2. QED
        BY <1>g, <2>2, <3>1
    <2>4. Get(breakers, s).state = "HALF_OPEN"
      BY <1>g, <2>1, <2>2, FieldTypes DEF AfterSuccess, State
    <2>5. ASSUME Get(breakers, s).successes + 1 < SuccessThreshold
          PROVE  FALSE
      <3>1. ~ (Get(breakers, s).successes + 1 >= SuccessThreshold)
        BY <1>g, <2>5, FieldTypes, SuccessThresholdAssumption
      <3>2. AfterSuccess(Get(breakers, s)) =
              [Get(breakers, s) EXCEPT !.successes = @ + 1]
        BY <2>4, <2>5, <3>1 DEF AfterSuccess
      <3>3. AfterSuccess(Get(breakers, s)).state = "HALF_OPEN"
        BY <1>g, <2>4, <3>2, FieldTypes DEF Breaker
      <3>4. QED
        BY <2>1, <2>2, <3>3
    <2>6. QED
      BY <1>g, <2>3, <2>4, <2>5, FieldTypes, SuccessThresholdAssumption
  <1>3. ASSUME NEW c \in Callers, NEW t \in Servers, HReportFailure(c, t)
        PROVE  FALSE
    <2>1. Get(breakers', s) = IF s = t THEN AfterFailure(Get(breakers, t))
                                       ELSE Get(breakers, s)
      BY <1>3, GetAfterUpdate DEF HReportFailure, ReportFailure
    <2>2. AfterFailure(Get(breakers, s)).state = "OPEN"
      BY <1>g, FailureFields
    <2>3. QED
      BY <2>1, <2>2
  <1>4. ASSUME NEW t \in Servers, HTimeout(t)
        PROVE  FALSE
    <2>1. Get(breakers', s) = IF s = t THEN AfterTimeout(Get(breakers, t))
                                       ELSE Get(breakers, s)
      BY <1>4, GetAfterUpdate DEF HTimeout, Timeout, Get
    <2>2. AfterTimeout(Get(breakers, s)).state = Get(breakers, s).state
      BY <1>g, FieldTypes DEF AfterTimeout, Breaker
    <2>3. QED
      BY <2>1, <2>2
  <1>5. ASSUME NEW t \in Servers, HRemove(t)
        PROVE  history'[s] = Append(history[s], "reset")
    <2>1. s = t
      BY <1>5, <1>d DEF HRemove, Remove, Get
    <2>2. history' = [history EXCEPT ![t] = Append(@, "reset")]
      BY <1>5 DEF HRemove, Log
    <2>3. QED
      BY <1>g, <2>1, <2>2
  <1>6. ASSUME HReset
        PROVE  history'[s] = Append(history[s], "reset")
    BY <1>6, <1>d DEF HReset
  <1>7. QED
    BY <1>1, <1>2, <1>3, <1>4, <1>5, <1>6 DEF HNext

\* A breaker closes only on a run of SuccessThreshold successes made after its
\* probe, or on a reset or a removal.
THEOREM OnlySuccessRunsClose == HSpec => ClosesOnlyOnSuccessRun
  <1> DEFINE A == \A s \in Servers :
                    /\ Get(breakers, s).state # "CLOSED"
                    /\ Get(breakers', s).state = "CLOSED"
                    => \/ EndsWith(history'[s], "ok", SuccessThreshold)
                       \/ SuccessThreshold < 1 /\ EndsWith(history'[s], "ok", 1)
                       \/ EndsWith(history'[s], "reset", 1)
  <1>1. HInv /\ [HNext]_hvars => [A]_hvars
    <2> SUFFICES ASSUME HInv, HNext, NEW s \in Servers,
                        Get(breakers, s).state # "CLOSED",
                        Get(breakers', s).state = "CLOSED"
                 PROVE  \/ EndsWith(history'[s], "ok", SuccessThreshold)
                        \/ SuccessThreshold < 1 /\ EndsWith(history'[s], "ok", 1)
                        \/ EndsWith(history'[s], "reset", 1)
      OBVIOUS
    <2> DEFINE n == Get(breakers, s).successes
    <2>1. n \in Nat /\ history[s] \in Seq(Event)
      BY GetIsGood, FieldTypes DEF HInv
    <2>2. CASE history'[s] = Append(history[s], "reset")
      <3>1. EndsWith(history'[s], "reset", 0 + 1)
        BY <2>1, <2>2, EmptyRun, RunGrows DEF Event
      <3>2. QED
        BY <3>1
    <2>3. CASE /\ history'[s] = Append(history[s], "ok")
               /\ Get(breakers, s).state = "HALF_OPEN"
               /\ n + 1 >= SuccessThreshold
      <3>1. EndsWith(history[s], "ok", n)
        BY <2>3 DEF HInv, Tells
      <3>2. EndsWith(history'[s], "ok", n + 1)
        BY <2>1, <2>3, <3>1, RunGrows DEF Event
      <3>3. Len(history'[s]) \in Nat
        BY <2>1, <2>3, AppendEvent DEF Event
      <3>4. QED
        BY <2>1, <2>3, <3>2, <3>3, SuccessThresholdAssumption DEF EndsWith
    <2>4. QED
      BY <2>2, <2>3, CloseStep
  <1>2. QED
    BY HInvariant, <1>1, PTL DEF HSpec, ClosesOnlyOnSuccessRun
=============================================================================
