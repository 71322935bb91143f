------------------------------ MODULE MCProxy ------------------------------
(* Instances of Proxy for TLC.                                             *)
EXTENDS Proxy

ask1(kind, key, temperature, rest) ==
  [kind |-> kind, key |-> key, temperature |-> temperature, rest |-> rest]

\* Bodies of every kind: three chat bodies that share a key, of which one may not
\* be cached, a streamed one and an embedding.
AllAsks == {ask1("chat", "k1", "unset", "same"),
            ask1("chat", "k1", "unset", "other"),
            ask1("chat", "k1", "positive", "same"),
            ask1("plain", "k2", "zero", "same"),
            ask1("embedding", "k3", "unset", "same")}

\* One body of each kind.
MixedAsks == {a \in AllAsks : a.rest = "same" /\ a.temperature # "positive"}

\* max_retries below zero, and one retry.
Limits == {-1, 1}
=============================================================================
