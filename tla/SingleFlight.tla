---------------------------- MODULE SingleFlight ----------------------------
(***************************************************************************)
(* What Cache.DeduplicatedCall promises its callers: while a call for a    *)
(* key is under way nobody begins another one, whoever comes joins it, and *)
(* the result it ends with is what each of them is given, once.  A call    *)
(* that has ended may be joined until it is forgotten; nothing says when   *)
(* that is, or that every call ends.                                       *)
(***************************************************************************)
CONSTANTS Callers, Results, None

VARIABLES key,       \* the key of each caller
          leader,    \* the caller whose call each one takes part in
          joinable,  \* the leaders whose call may be joined
          result,    \* what the call of each leader has ended with
          got        \* what each caller has been given

Init ==
  /\ leader = [c \in Callers |-> None]
  /\ joinable = {}
  /\ result = [c \in Callers |-> None]
  /\ got = [c \in Callers |-> None]

Lead(c) ==
  /\ leader[c] = None
  /\ \A d \in joinable : key[d] # key[c]
  /\ leader' = [leader EXCEPT ![c] = c]
  /\ joinable' = joinable \cup {c}
  /\ UNCHANGED <<result, got>>

Share(c) ==
  /\ leader[c] = None
  /\ \E d \in joinable :
       /\ key[d] = key[c]
       /\ leader' = [leader EXCEPT ![c] = d]
  /\ UNCHANGED <<joinable, result, got>>

\* Only a call that could be joined until now ends.
Finish(c) ==
  /\ c \in joinable
  /\ result[c] = None
  /\ \E v \in Results : result' = [result EXCEPT ![c] = v]
  /\ UNCHANGED <<leader, joinable, got>>

Deliver(c) ==
  /\ leader[c] # None
  /\ result[leader[c]] # None
  /\ got[c] = None
  /\ got' = [got EXCEPT ![c] = result[leader[c]]]
  /\ UNCHANGED <<leader, joinable, result>>

Forget(c) ==
  /\ c \in joinable
  /\ result[c] # None
  /\ joinable' = joinable \ {c}
  /\ UNCHANGED <<leader, result, got>>

Next ==
  /\ \E c \in Callers : Lead(c) \/ Share(c) \/ Finish(c) \/ Deliver(c) \/ Forget(c)
  /\ UNCHANGED key

Spec == Init /\ [][Next]_<<key, leader, joinable, result, got>>
=============================================================================
