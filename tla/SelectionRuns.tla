--------------------------- MODULE SelectionRuns ---------------------------
(***************************************************************************)
(* Long runs of selections among a fixed list of candidates: what the      *)
(* algorithms of Selection promise is a share of the traffic over time,    *)
(* never one pick.                                                         *)
(***************************************************************************)
EXTENDS Selection

CONSTANTS MaxServers,  \* bound on the number of candidates
          MaxWeight,   \* bound on a weight
          MaxPicks     \* bound on the length of a run

ASSUME BoundsAssumption ==
  MaxServers \in Nat /\ MaxWeight \in Nat /\ MaxPicks \in Nat

VARIABLES rows,      \* the candidates
          policy,    \* the algorithm of this run
          picks,     \* how often each candidate was picked and not released
          counter    \* the hostgroup's round-robin counter, picks so far

runVars == <<rows, policy, picks, counter>>

RunInit ==
  /\ rows \in UNION {[1 .. n -> [weight : 0 .. MaxWeight]] : n \in 1 .. MaxServers}
  /\ policy \in {"weighted_round_robin", "least_connections", "random"}
  /\ picks = [i \in DOMAIN rows |-> 0]
  /\ counter = 0

Candidates ==
  CASE policy = "weighted_round_robin" -> WeightedRoundRobin(rows, counter + 1)
    [] policy = "least_connections"    -> LeastConnections(rows, picks)
    [] policy = "random"               -> WeightedRandom(rows)

Select ==
  /\ counter < MaxPicks
  /\ counter' = counter + 1
  /\ \E i \in Candidates : picks' = [picks EXCEPT ![i] = @ + 1]
  /\ UNCHANGED <<rows, policy>>

RunSpec == RunInit /\ [][Select]_runVars

-----------------------------------------------------------------------------
(* Properties                                                              *)

\* Every selection picks exactly one server, whatever the weights and however far
\* the counter has come, except that the random algorithm may pick any server of
\* positive weight, or any server at all when every weight is zero.
AlwaysOnePick ==
  /\ Candidates # {}
  /\ policy # "random" => \A i, j \in Candidates : i = j
  /\ policy = "random" /\ TotalWeight(rows) > 0 =>
       \A i \in Candidates : rows[i].weight > 0

\* Round robin gives every server its weight's share exactly: each full round
\* of the total weight picks each server as often as its weight says, and all
\* equally when every weight is zero.
RoundRobinShares ==
  policy = "weighted_round_robin" =>
    LET total == TotalWeight(rows)
        round == IF total = 0 THEN Cardinality(DOMAIN rows) ELSE total
        share(i) == IF total = 0 THEN 1 ELSE rows[i].weight
    IN counter % round = 0 =>
         \A i \in DOMAIN rows : picks[i] = (counter \div round) * share(i)

\* Least connections keeps the loads level: no server's weight-adjusted load
\* runs more than one ahead of another's while requests only arrive.
LoadsStayLevel ==
  policy = "least_connections" =>
    \A i, j \in DOMAIN rows :
      Adjusted(picks[i], rows[i].weight) <= Adjusted(picks[j], rows[j].weight) + 1
=============================================================================
