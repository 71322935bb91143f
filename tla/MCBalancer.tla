----------------------------- MODULE MCBalancer -----------------------------
(* TLC instances of Balancer: two servers, the default hostgroup and one   *)
(* more.                                                                   *)
EXTENDS Balancer, TLC

CONSTANTS s1, s2

MCServers == {s1, s2}

Srv(s, weight, status) == [name |-> s, weight |-> weight, status |-> status]

\* One server in the default hostgroup, beside one taken out of service; the
\* other hostgroup has never had any.
Start ==
  (0 :> <<Srv(s1, 1, "ONLINE"), Srv(s2, 0, "SHUNNED")>>) @@ (1 :> <<>>)

\* The second server gone, the first one moved to the other hostgroup.
Moved ==
  (0 :> <<Srv(s2, 0, "OFFLINE")>>) @@ (1 :> <<Srv(s1, 1, "ONLINE")>>)

\* Both servers in the other hostgroup.
Gathered ==
  (0 :> <<>>) @@ (1 :> <<Srv(s1, 2, "ONLINE"), Srv(s2, 1, "ONLINE")>>)

ThreeTables == <<Start, Moved, Gathered>>

Symmetry == Permutations(Requests) \cup Permutations(Loaders)
=============================================================================
