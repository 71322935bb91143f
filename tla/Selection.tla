----------------------------- MODULE Selection -----------------------------
(***************************************************************************)
(* How internal/balancer/balancer.go picks one server among those that     *)
(* passed its filter.  "rows" maps the positions of the candidates in      *)
(* their hostgroup's list to their rows, each with a weight; every         *)
(* operator returns the set of positions the code may pick, a singleton    *)
(* when the code is deterministic.  Weights are naturals: the schema does  *)
(* not forbid a negative one, which is not modelled.                       *)
(***************************************************************************)
EXTENDS Integers, FiniteSets, Functions

Before(rows, i) == {j \in DOMAIN rows : j < i}

WeightOf(rows, positions) ==
  SumFunctionOnSet([i \in DOMAIN rows |-> rows[i].weight], positions)

TotalWeight(rows) == WeightOf(rows, DOMAIN rows)

-----------------------------------------------------------------------------
(* Faulty variants of the operators below, used by none of them.           *)

\* Both ends of a candidate's stretch belong to it.
AtPositionInclusive(rows, pos) ==
  {i \in DOMAIN rows :
     LET start == WeightOf(rows, Before(rows, i))
     IN start <= pos /\ pos <= start + rows[i].weight}

\* Positions counted from one.
AtPositionFromOne(rows, pos) ==
  {i \in DOMAIN rows :
     LET start == WeightOf(rows, Before(rows, i))
     IN start < pos /\ pos <= start + rows[i].weight}

\* Round robin that does not look at weights.
RoundRobinUnweighted(rows, counter) ==
  {i \in DOMAIN rows :
     Cardinality(Before(rows, i)) = counter % Cardinality(DOMAIN rows)}

\* Connection counts compared without the weights.
LeastConnectionsUnweighted(rows, conns) ==
  {i \in DOMAIN rows :
     /\ \A j \in DOMAIN rows : conns[i] <= conns[j]
     /\ \A j \in Before(rows, i) : conns[i] < conns[j]}

-----------------------------------------------------------------------------
\* The candidate whose stretch of the total weight contains pos: the first
\* one whose running sum exceeds pos.
AtPosition(rows, pos) ==
  {i \in DOMAIN rows :
     LET start == WeightOf(rows, Before(rows, i))
     IN start <= pos /\ pos < start + rows[i].weight}

\* counter is the hostgroup's counter after it was incremented.
WeightedRoundRobin(rows, counter) ==
  IF TotalWeight(rows) = 0
  THEN {i \in DOMAIN rows :
          Cardinality(Before(rows, i)) = counter % Cardinality(DOMAIN rows)}
  ELSE AtPosition(rows, counter % TotalWeight(rows))

WeightedRandom(rows) ==
  IF TotalWeight(rows) = 0
  THEN DOMAIN rows
  ELSE UNION {AtPosition(rows, r) : r \in 0 .. TotalWeight(rows) - 1}

\* Integer division that truncates toward zero, as Go's does: a connection
\* count may be negative.
Quotient(a, b) == IF a >= 0 THEN a \div b ELSE - ((- a) \div b)

Adjusted(load, weight) == IF weight > 0 THEN Quotient(load, weight) ELSE load

\* The first candidate with the least weight-adjusted connection count.
LeastConnections(rows, conns) ==
  LET adjusted(i) == Adjusted(conns[i], rows[i].weight)
  IN {i \in DOMAIN rows :
        /\ \A j \in DOMAIN rows : adjusted(i) <= adjusted(j)
        /\ \A j \in Before(rows, i) : adjusted(i) < adjusted(j)}
=============================================================================
