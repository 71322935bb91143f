---------------------------- MODULE MCControlPlane ----------------------------
EXTENDS ControlPlane, TLC

CONSTANTS plain, broken, twin, off, m1, m2

Empty == [text |-> "empty", hits |-> {}]

\* Numbers run against priorities, of which two are equal.
MCRuleOf ==
  plain :> [number |-> 0, active |-> TRUE, priority |-> 2, destination |-> 1,
            model |-> [text |-> "regex", hits |-> {m1, m2}], prompt |-> Empty,
            user |-> Empty] @@
  broken :> [number |-> 1, active |-> TRUE, priority |-> 1, destination |-> 2,
             model |-> [text |-> "broken", hits |-> {m1}],
             prompt |-> [text |-> "broken", hits |-> {}], user |-> Empty] @@
  twin :> [number |-> 3, active |-> TRUE, priority |-> 2, destination |-> 4,
           model |-> [text |-> "regex", hits |-> {m2}], prompt |-> Empty,
           user |-> Empty] @@
  off :> [number |-> 2, active |-> FALSE, priority |-> 1, destination |-> 3,
          model |-> Empty, prompt |-> Empty, user |-> Empty]

Symmetry ==
  Permutations(Names) \cup Permutations(Loaders) \cup Permutations(CryptKeys)

MCQueries == [model : {m1, m2}, prompt : {m1}, user : {m1}]
=============================================================================
