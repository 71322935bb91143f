--------------------------- MODULE CircuitHistory ---------------------------
(***************************************************************************)
(* CircuitManager with a history variable: for every server, the sequence  *)
(* of everything its breaker was told.  The breaker keeps two counters and *)
(* a state; the properties below say what those must mean in terms of the  *)
(* reports that were actually made.                                        *)
(***************************************************************************)
EXTENDS CircuitManager, Sequences

CONSTANT MaxEvents   \* bound on the length of a server's history

ASSUME MaxEventsAssumption == MaxEvents \in Nat

VARIABLE history   \* for each server, a sequence of events

hvars == <<breakers, using, history>>

\* "ok" and "fail" are reports, "probe" an Allow that turned an open breaker
\* half-open, "reset" a Reset or a Remove.
Event == {"ok", "fail", "probe", "reset"}

Log(s, e) ==
  /\ Len(history[s]) < MaxEvents
  /\ history' = [history EXCEPT ![s] = Append(@, e)]

HInit == Init /\ history = [s \in Servers |-> <<>>]

HAdmit(c, s) ==
  /\ Admit(c, s)
  /\ IF Get(breakers, s).state = "OPEN" THEN Log(s, "probe")
                                        ELSE UNCHANGED history

HReportSuccess(c, s) == ReportSuccess(c, s) /\ Log(s, "ok")

HReportFailure(c, s) == ReportFailure(c, s) /\ Log(s, "fail")

HTimeout(s) == Timeout(s) /\ UNCHANGED history

HRemove(s) == Remove(s) /\ Log(s, "reset")

HReset ==
  /\ Reset
  /\ \A s \in DOMAIN breakers : Len(history[s]) < MaxEvents
  /\ history' = [s \in Servers |-> IF s \in DOMAIN breakers
                                   THEN Append(history[s], "reset")
                                   ELSE history[s]]

HNext ==
  \/ \E c \in Callers, s \in Servers :
       \/ HAdmit(c, s)
       \/ HReportSuccess(c, s)
       \/ HReportFailure(c, s)
  \/ \E s \in Servers : HTimeout(s) \/ HRemove(s)
  \/ HReset

HSpec == HInit /\ [][HNext]_hvars

-----------------------------------------------------------------------------
(* Properties                                                              *)

\* The last n events of h are all e.
EndsWith(h, e, n) ==
  /\ n <= Len(h)
  /\ \A i \in 1 .. Len(h) : i > Len(h) - n => h[i] = e

HTypeOK == TypeOK /\ history \in [Servers -> Seq(Event)]

\* A breaker that is closed has not just seen Threshold failures in a row:
\* it never keeps letting requests through to a server that reached the limit,
\* whatever successes came before the run of failures.
ClosedMeansNoFailureRun ==
  \A s \in Servers :
    Get(breakers, s).state = "CLOSED" /\ Threshold >= 1
      => ~ EndsWith(history[s], "fail", Threshold)

\* A half-open breaker has seen nothing but successes since its probe, fewer
\* than the number that closes it, and that number is what it has counted.
HalfOpenMeansProbing ==
  \A s \in Servers :
    LET b == Get(breakers, s)
        n == Len(history[s])
    IN b.state = "HALF_OPEN" =>
         /\ EndsWith(history[s], "ok", b.successes)
         /\ b.successes < n
         /\ history[s][n - b.successes] = "probe"

\* The breaker trips exactly on a run of Threshold failures since it last
\* closed or saw a success, or on any failure while half-open; so a server
\* whose failures are interleaved with enough successes is never shut out.
TripsOnlyOnFailureRun ==
  [][\A s \in Servers :
       /\ Get(breakers, s).state = "CLOSED"
       /\ Get(breakers', s).state = "OPEN"
       => \/ EndsWith(history'[s], "fail", Threshold)
          \/ Threshold < 1 /\ EndsWith(history'[s], "fail", 1)]_hvars

\* The breaker closes only when the last SuccessThreshold reports, all made
\* after the probe that half-opened it, were successes, or on a reset.
ClosesOnlyOnSuccessRun ==
  [][\A s \in Servers :
       /\ Get(breakers, s).state # "CLOSED"
       /\ Get(breakers', s).state = "CLOSED"
       => \/ EndsWith(history'[s], "ok", SuccessThreshold)
          \/ SuccessThreshold < 1 /\ EndsWith(history'[s], "ok", 1)
          \/ EndsWith(history'[s], "reset", 1)]_hvars
=============================================================================
