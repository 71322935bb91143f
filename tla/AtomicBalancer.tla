--------------------------- MODULE AtomicBalancer ---------------------------
(***************************************************************************)
(* What SelectServer, ReleaseServer and LoadServers promise those who call *)
(* them at the same time: each looks like one step.  A selection takes a   *)
(* server that the table of that very moment has ONLINE and counts a       *)
(* connection for it, a release takes the connection back, if the table    *)
(* still has the server, and a new table starts at zero.  This is the      *)
(* balancer as Proxy uses it.                                              *)
(***************************************************************************)
EXTENDS Integers

CONSTANTS Callers,   \* requests
          Servers,
          Listed,    \* table to the servers it has
          Online,    \* table to those of them that may be selected
          None

VARIABLES table,  \* the table in effect
          held,   \* the server each caller holds
          count   \* the connection count of each server

Init ==
  /\ table \in DOMAIN Listed
  /\ held = [c \in Callers |-> None]
  /\ count = [s \in Servers |-> 0]

Take(c) ==
  /\ held[c] = None
  /\ \E s \in Online[table] :
       /\ held' = [held EXCEPT ![c] = s]
       /\ count' = [count EXCEPT ![s] = @ + 1]
  /\ UNCHANGED table

Give(c) ==
  /\ held[c] # None
  /\ held' = [held EXCEPT ![c] = None]
  /\ count' = IF held[c] \in Listed[table]
              THEN [count EXCEPT ![held[c]] = @ - 1] ELSE count
  /\ UNCHANGED table

\* A release that overlaps the change of tables counts as made just before it.
Replace ==
  /\ table' \in DOMAIN Listed
  /\ count' = [s \in Servers |-> 0]
  /\ DOMAIN held' = Callers
  /\ \A c \in Callers : held'[c] \in {held[c], None}

Next == (\E c \in Callers : Take(c) \/ Give(c)) \/ Replace

Spec == Init /\ [][Next]_<<table, held, count>>
=============================================================================
