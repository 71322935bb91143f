------------------------------ MODULE LossyCache ------------------------------
(***************************************************************************)
(* What the response cache promises its callers: the answer to a get is    *)
(* the value set last for the key asked, or none.  A value may be lost at  *)
(* any time, never another one found in its place: only a set stores, the  *)
(* value it was called with, under the key it was called with.  This is    *)
(* the cache as Proxy sees it.                                             *)
(***************************************************************************)
CONSTANTS Keys, Values, Callers, NoValue

VARIABLES store,  \* the value of each key
          asked,  \* the call each caller has made and that is not over
          got     \* the answer to each caller, until its next call

Idle == [do |-> "nothing"]

Init ==
  /\ store = [k \in Keys |-> NoValue]
  /\ asked = [c \in Callers |-> Idle]
  /\ got = [c \in Callers |-> NoValue]

\* Keys other than those in `but` keep their value or lose it.
MayLose(but) ==
  /\ DOMAIN store' = Keys
  /\ \A k \in Keys \ but : store'[k] \in {store[k], NoValue}

Ask(c, call) ==
  /\ asked[c] = Idle
  /\ asked' = [asked EXCEPT ![c] = call]
  /\ got' = [got EXCEPT ![c] = NoValue]
  /\ UNCHANGED store

AskGet(c) == \E k \in Keys : Ask(c, [do |-> "get", key |-> k])

AskSet(c) ==
  \E k \in Keys, v \in Values : Ask(c, [do |-> "set", key |-> k, value |-> v])

Over(c) == asked' = [asked EXCEPT ![c] = Idle]

Answer(c) ==
  /\ asked[c].do = "get"
  /\ \E v \in {store[asked[c].key], NoValue} : got' = [got EXCEPT ![c] = v]
  /\ MayLose({})
  /\ Over(c)

Put(c) ==
  /\ asked[c].do = "set"
  /\ store'[asked[c].key] = asked[c].value
  /\ MayLose({asked[c].key})
  /\ Over(c)
  /\ UNCHANGED got

Lose == MayLose({}) /\ UNCHANGED <<asked, got>>

Next ==
  \/ \E c \in Callers : AskGet(c) \/ AskSet(c) \/ Answer(c) \/ Put(c)
  \/ Lose

Spec == Init /\ [][Next]_<<store, asked, got>>
=============================================================================
