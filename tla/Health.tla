------------------------------- MODULE Health --------------------------------
(***************************************************************************)
(* The health checker, internal/health/health.go: one goroutine that asks  *)
(* every server at once, waits for them all, and starts over at the next   *)
(* tick.  The balancer reads the status under a read lock, and registers a *)
(* callback that is called with the lock released.                         *)
(***************************************************************************)
CONSTANTS Watched,     \* servers, by name
          ProviderOf   \* [Watched -> provider types]

\* How a server answers a probe.  "failing" stands for the statuses from 500
\* on, "refusing" for those from 300 to 499, "dead" for no answer.
Answer == {"ok", "refusing", "failing", "dead"}
Below500 == {"ok", "refusing"}

VARIABLES
  checker,   \* the goroutine: resting, checking, over
  stopCh,    \* closed?
  check,     \* of each server, its check in the current round
  status,    \* of each server, whether it is healthy, once it was checked
  told,      \* what the callback was last told, unhealthy before
  alive      \* history: did the server answer, below 500, when it was last checked?

healthVars == <<checker, stopCh, check, status, told, alive>>

HealthInit ==
  /\ checker = "resting"
  /\ stopCh = FALSE
  /\ check = [s \in Watched |-> "none"]
  /\ status = [s \in Watched |-> "unknown"]
  /\ told = [s \in Watched |-> "unhealthy"]
  /\ alive = [s \in Watched |-> FALSE]

-----------------------------------------------------------------------------
(* Faulty variants of operators below, used by none of them.               *)

\* checkAll returns without waiting for the checks.
NothingToWaitFor == checker = "checking"

-----------------------------------------------------------------------------
(* Checks                                                                  *)

\* checkServer's probes.  OpenAI and Ollama list their models, Anthropic is
\* asked for any page, everything else for its models and, if that gets no
\* answer, for any page.
Verdict(provider, first, second) ==
  CASE provider \in {"openai", "azure", "ollama"} -> first = "ok"
    [] provider = "anthropic" -> first \in Below500
    [] OTHER -> (IF first = "dead" THEN second ELSE first) \in Below500

\* checkAll reads the servers and starts a check of each that is not offline;
\* a storage error starts none.
StartRound(due) ==
  /\ checker = "resting"
  /\ checker' = "checking"
  /\ check' = [s \in Watched |-> IF s \in due THEN "asking" ELSE check[s]]
  /\ UNCHANGED <<stopCh, status, told, alive>>

\* The status is written under the lock ...
Record(s, first, second) ==
  LET healthy == Verdict(ProviderOf[s], first, second)
      now == IF healthy THEN "healthy" ELSE "unhealthy"
      changed == healthy # (status[s] = "healthy")
  IN /\ check[s] = "asking"
     /\ status' = [status EXCEPT ![s] = now]
     /\ alive' = [alive EXCEPT ![s] = (IF first = "dead" THEN second ELSE first) \in Below500]
     /\ check' = [check EXCEPT ![s] = IF changed THEN now ELSE "none"]
     /\ UNCHANGED <<checker, stopCh, told>>

\* ... and a change is told after it.
Notify(s) ==
  /\ check[s] \in {"healthy", "unhealthy"}
  /\ told' = [told EXCEPT ![s] = check[s]]
  /\ check' = [check EXCEPT ![s] = "none"]
  /\ UNCHANGED <<checker, stopCh, status, alive>>

\* wg.Wait
RoundOver == checker = "checking" /\ \A s \in Watched : check[s] = "none"

EndRound ==
  /\ RoundOver
  /\ checker' = "resting"
  /\ UNCHANGED <<stopCh, check, status, told, alive>>

\* With a tick waiting as well, either may be taken.
QuitChecking ==
  /\ checker = "resting" /\ stopCh
  /\ checker' = "over"
  /\ UNCHANGED <<stopCh, check, status, told, alive>>

StopChecker ==
  /\ stopCh' = TRUE
  /\ UNCHANGED <<checker, check, status, told, alive>>

\* A server no check has recorded yet counts as healthy.
IsHealthy(s) == status[s] # "unhealthy"

HealthNext ==
  \/ \E due \in SUBSET Watched : StartRound(due)
  \/ \E s \in Watched :
       \/ \E first, second \in Answer : Record(s, first, second)
       \/ Notify(s)
  \/ EndRound
  \/ QuitChecking

-----------------------------------------------------------------------------
(* Properties                                                              *)

\* Whenever no check of a server is under way, what the callback was last told
\* is what IsHealthy answers for it, except that nobody is told of a server
\* that fails its first check or has had none; and a server is healthy only if
\* it answered its last check, with no status from 500 on.
NoticesAreCurrent ==
  \A s \in Watched :
    /\ check[s] = "none" /\ status[s] # "unknown" => told[s] = status[s]
    /\ status[s] = "healthy" => IsHealthy(s) /\ alive[s]
=============================================================================
