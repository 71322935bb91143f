--------------------------- MODULE CircuitManager ---------------------------
(***************************************************************************)
(* The breaker map of circuit.Manager shared by concurrent callers.  A     *)
(* caller asks Allow before it uses a server and later reports how the     *)
(* request went; nothing ties the report to the state the breaker was in   *)
(* when the caller was let through, so reports arrive late and out of      *)
(* order with respect to the breaker's own transitions.                    *)
(***************************************************************************)
EXTENDS CircuitBreaker

CONSTANTS Servers,
          Callers,
          NoServer,     \* what a caller that uses no server holds
          MaxFailures   \* bound on a breaker's failure counter

ASSUME NoServerAssumption == NoServer \notin Servers
ASSUME MaxFailuresAssumption == MaxFailures \in Nat

VARIABLES breakers,  \* Manager.breakers: name -> breaker, only for names in use
          using      \* the server each caller was let through to, or NoServer

vars == <<breakers, using>>

TypeOK ==
  /\ DOMAIN breakers \subseteq Servers
  /\ \A s \in DOMAIN breakers : breakers[s] \in Breaker
  /\ using \in [Callers -> Servers \cup {NoServer}]

Init ==
  /\ breakers = [s \in {} |-> NewBreaker]
  /\ using = [c \in Callers |-> NoServer]

\* The breaker of s is asked and lets the caller through.  A refusal changes
\* nothing and is a stuttering step.
Admit(c, s) ==
  /\ using[c] = NoServer
  /\ Allows(Get(breakers, s))
  /\ breakers' = Update(breakers, s, AfterAllow(Get(breakers, s)))
  /\ using' = [using EXCEPT ![c] = s]

ReportSuccess(c, s) ==
  /\ using[c] = s
  /\ breakers' = Update(breakers, s, AfterSuccess(Get(breakers, s)))
  /\ using' = [using EXCEPT ![c] = NoServer]

ReportFailure(c, s) ==
  /\ using[c] = s
  /\ Get(breakers, s).failures < MaxFailures
  /\ breakers' = Update(breakers, s, AfterFailure(Get(breakers, s)))
  /\ using' = [using EXCEPT ![c] = NoServer]

\* The clock reaches lastFailure + timeout.
Timeout(s) ==
  /\ s \in DOMAIN breakers
  /\ ~ breakers[s].cooled
  /\ breakers' = Update(breakers, s, AfterTimeout(breakers[s]))
  /\ UNCHANGED using

Reset ==
  /\ breakers' = [s \in DOMAIN breakers |-> AfterReset(breakers[s])]
  /\ UNCHANGED using

Remove(s) ==
  /\ breakers' = [x \in DOMAIN breakers \ {s} |-> breakers[x]]
  /\ UNCHANGED using

Next ==
  \/ \E c \in Callers, s \in Servers :
       \/ Admit(c, s)
       \/ ReportSuccess(c, s)
       \/ ReportFailure(c, s)
  \/ \E s \in Servers : Timeout(s) \/ Remove(s)
  \/ Reset

Spec == Init /\ [][Next]_vars

\* Time passes, every provider call ends (it has a client timeout), and there
\* is traffic for every server.
Fairness ==
  /\ \A s \in Servers :
       /\ WF_vars(Timeout(s))
       /\ SF_vars(\E c \in Callers : Admit(c, s))
  /\ \A c \in Callers :
       WF_vars(\E s \in Servers : ReportSuccess(c, s) \/ ReportFailure(c, s))

FairSpec == Spec /\ Fairness

-----------------------------------------------------------------------------
(* Properties                                                              *)

Consistent(b) ==
  /\ b.state = "CLOSED" =>
       /\ b.failures = 0 \/ b.failures < Threshold
       /\ b.successes = 0
  /\ b.state = "HALF_OPEN" => b.successes = 0 \/ b.successes < SuccessThreshold
  /\ b.state # "CLOSED" => b.failures >= 1 /\ b.failures >= Threshold

\* The counters agree with the state: a breaker that is not closed still
\* remembers at least Threshold failures, a closed one is short of them and
\* holds no half-open progress, and a half-open one is short of the successes
\* that close it.  Thresholds below 1 behave as 1.
CountersAgree == \A s \in DOMAIN breakers : Consistent(breakers[s])

\* A breaker goes from open to half-open only when its timeout has elapsed
\* since the LAST failure, late reports included, and reaches closed from open
\* only through half-open, unless an operator resets or removes it.
OpenUntilCooled ==
  [][\A s \in DOMAIN breakers :
       /\ breakers[s].state = "OPEN"
       /\ Get(breakers', s).state # "OPEN"
       => \/ breakers[s].cooled /\ Get(breakers', s).state = "HALF_OPEN"
          \/ Reset
          \/ Remove(s)]_vars

\* Once reports of failure stop coming in for s, its breaker ends up closed
\* for good: no order of late reports, timeouts and probes leaves a server
\* that works shut out.
RecoversWhenFailuresStop ==
  \A s \in Servers :
    <>[][\A c \in Callers : ~ ReportFailure(c, s)]_vars
      => <>[](Get(breakers, s).state = "CLOSED")
=============================================================================
