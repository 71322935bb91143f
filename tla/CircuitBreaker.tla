--------------------------- MODULE CircuitBreaker ---------------------------
(***************************************************************************)
(* One circuit breaker of internal/circuit/circuit.go as a record, and its *)
(* methods as functions from the record before the call to the record      *)
(* after it.  Every method runs under the breaker's own mutex, so each is  *)
(* one indivisible step wherever it is used.                               *)
(*                                                                         *)
(* Time is abstracted to one bit: "cooled" says that at least `timeout`    *)
(* has elapsed since lastFailure.  A new breaker has a zero lastFailure,   *)
(* which is infinitely long ago.                                           *)
(***************************************************************************)
EXTENDS Integers

CONSTANTS Threshold,        \* failures to open
          SuccessThreshold  \* successes to close from half-open

\* Both come from the configuration file, which accepts any integer.
ASSUME ThresholdAssumption == Threshold \in Int
ASSUME SuccessThresholdAssumption == SuccessThreshold \in Int

State == {"CLOSED", "OPEN", "HALF_OPEN"}

Breaker == [state : State, failures : Nat, successes : Nat, cooled : BOOLEAN]

NewBreaker ==
  [state |-> "CLOSED", failures |-> 0, successes |-> 0, cooled |-> TRUE]

-----------------------------------------------------------------------------
(* Faulty variants of the methods below.  Nothing uses them: putting one   *)
(* in the place of its method shows which property notices.                *)

\* Allow keeps the successes counted before the breaker opened again.
AllowKeepsSuccesses(b) ==
  IF b.state = "OPEN" /\ b.cooled THEN [b EXCEPT !.state = "HALF_OPEN"] ELSE b

\* Allow starts the count of successes over at every call.
AllowRestartsCount(b) ==
  IF b.state = "HALF_OPEN" \/ (b.state = "OPEN" /\ b.cooled)
  THEN [b EXCEPT !.state = "HALF_OPEN", !.successes = 0]
  ELSE b

\* A success closes the breaker from any state.
SuccessAlwaysCloses(b) ==
  [b EXCEPT !.state = "CLOSED", !.failures = 0, !.successes = 0]

\* A success in the closed state leaves the failures counted.
SuccessKeepsFailures(b) ==
  CASE b.state # "HALF_OPEN" -> b
    [] b.state = "HALF_OPEN" /\ b.successes + 1 < SuccessThreshold ->
         [b EXCEPT !.successes = @ + 1]
    [] b.state = "HALF_OPEN" /\ b.successes + 1 >= SuccessThreshold ->
         [b EXCEPT !.state = "CLOSED", !.failures = 0, !.successes = 0]

\* The breaker opens one failure late.
FailureTripsLate(b) ==
  [b EXCEPT
     !.failures = @ + 1,
     !.cooled   = FALSE,
     !.state    = IF b.state = "CLOSED" /\ b.failures + 1 <= Threshold
                  THEN "CLOSED" ELSE "OPEN"]

-----------------------------------------------------------------------------
\* What Allow answers.
Allows(b) == b.state = "OPEN" => b.cooled

\* What Allow does to the breaker: an open one that has cooled becomes
\* half-open.  A half-open breaker lets every caller through.
AfterAllow(b) ==
  IF b.state = "OPEN" /\ b.cooled
  THEN [b EXCEPT !.state = "HALF_OPEN", !.successes = 0]
  ELSE b

AfterSuccess(b) ==
  CASE b.state = "CLOSED" -> [b EXCEPT !.failures = 0]
    [] b.state = "OPEN"   -> b
    [] b.state = "HALF_OPEN" /\ b.successes + 1 < SuccessThreshold ->
         [b EXCEPT !.successes = @ + 1]
    [] b.state = "HALF_OPEN" /\ b.successes + 1 >= SuccessThreshold ->
         [b EXCEPT !.state = "CLOSED", !.failures = 0, !.successes = 0]

\* Whatever the state, a failure is counted and restarts the timeout.
AfterFailure(b) ==
  [b EXCEPT
     !.failures = @ + 1,
     !.cooled   = FALSE,
     !.state    = IF b.state = "CLOSED" /\ b.failures + 1 < Threshold
                  THEN "CLOSED" ELSE "OPEN"]

AfterReset(b) ==
  [b EXCEPT !.state = "CLOSED", !.failures = 0, !.successes = 0]

\* The passage of `timeout` since the last failure.
AfterTimeout(b) == [b EXCEPT !.cooled = TRUE]

-----------------------------------------------------------------------------
(* The manager's map from server names to breakers.                        *)

\* A breaker exists once some call has asked for it.
Get(breakers, s) == IF s \in DOMAIN breakers THEN breakers[s] ELSE NewBreaker

\* The map after s's breaker, created if need be, has become b.
Update(breakers, s, b) ==
  [x \in DOMAIN breakers \cup {s} |-> IF x = s THEN b ELSE breakers[x]]
=============================================================================
