------------------------------- MODULE Referee -------------------------------
(***************************************************************************)
(* internal/referee/referee.go: one question asked of several providers at *)
(* once, and a synthesis of what they answer.  The engine reads the server *)
(* table by itself, twice and at different moments; it asks neither the    *)
(* balancer nor the breakers.                                              *)
(***************************************************************************)
EXTENDS Integers, SequencesExt, FiniteSets

CONSTANTS Table,         \* the server names in the order GetServers returns them
          TypeOf,        \* the provider type of each
          Labels,        \* keys of provider_models, in any spelling
          LabelType,     \* the provider type a label is equal to but for case
          Wishes,        \* what requests ask of referee mode
          RefereeModels, \* each named by the provider type its name suggests
          Settings       \* what the configuration may say of referee mode

Servers == ToSet(Table)

\* "models" asks one server for each label that has a model; "types" asks all
\* servers of the given types, of every type when there is none.  min is 0 when
\* the request leaves the minimum to the configuration.
Wish == [by : {"models"}, labels : SUBSET Labels, min : Nat, referee : RefereeModels]
        \cup [by : {"types"}, types : SUBSET {TypeOf[s] : s \in Servers},
              min : Nat, referee : RefereeModels]

ASSUME RefereeAssumption ==
  /\ Settings \subseteq [enabled : BOOLEAN, maxProviders : Int, minResponses : Int]
  /\ Table \in Seq(Servers) /\ IsFiniteSet(Labels)
  /\ DOMAIN TypeOf = Servers /\ DOMAIN LabelType = Labels
  /\ Wishes \subseteq Wish

VARIABLES
  online,   \* storage: the servers whose status is ONLINE
  setting   \* the configuration, never checked for sense

-----------------------------------------------------------------------------
(* Faulty variants of operators below, used by none of them.               *)

\* A call that fails does not say that it is over.
AllSucceeded(results) == \A i \in DOMAIN results : results[i] = "ok"

\* A failed provider counts as one that has responded.
EnoughReturns(results, wish) == Len(results) >= setting.minResponses

-----------------------------------------------------------------------------
\* Positions in the table, of the servers that are online and of a type.
Online == {i \in DOMAIN Table : Table[i] \in online}

OnlineOfType(t) == {i \in Online : TypeOf[Table[i]] = t}

FirstOf(positions) == Table[Min(positions)]

\* The labels that have a server, each with the first server of its type; the
\* order is that of a map.  Labels that differ in case ask one server twice.
TargetsByModel(labels) ==
  LET served == {l \in labels : OnlineOfType(LabelType[l]) # {}} IN
  {[i \in DOMAIN order |-> FirstOf(OnlineOfType(LabelType[order[i]]))] :
     order \in SetToSeqs(served)}

\* All of the types, in the order of the table.
TargetsByType(types) ==
  LET served == {i \in Online : types = {} \/ TypeOf[Table[i]] \in types}
      inOrder == {s \in SetToSeqs(served) : \A i, j \in DOMAIN s : i < j => s[i] < s[j]} IN
  {[i \in DOMAIN s |-> Table[s[i]]] : s \in inOrder}

Targets(wish) == IF wish.by = "models" THEN TargetsByModel(wish.labels)
                                       ELSE TargetsByType(wish.types)

\* targets[:maxProviders]; the caller sees to it that the bound is not negative.
Limited(targets) ==
  IF Len(targets) > setting.maxProviders
  THEN SubSeq(targets, 1, setting.maxProviders) ELSE targets

\* Slicing with a negative bound panics.
Sliceable == setting.maxProviders >= 0

MinimumOf(wish) == IF wish.min > 0 THEN wish.min ELSE setting.minResponses

\* executeParallel waits for all of its goroutines.
AllReturned(results) == \A i \in DOMAIN results : results[i] # "pending"

Successes(results) == {i \in DOMAIN results : results[i] = "ok"}

Enough(results, wish) == Cardinality(Successes(results)) >= MinimumOf(wish)

\* findServerForModel: the first server of the type the model's name suggests,
\* else the first there is.
RefereeServer(model) ==
  FirstOf(IF OnlineOfType(model) # {} THEN OnlineOfType(model) ELSE Online)

\* RefereeInfo, and how many responses went into the prompt.
Verdict(results, server) ==
  [queried    |-> Len(results),
   successful |-> Cardinality(Successes(results)),
   failed     |-> Len(results) - Cardinality(Successes(results)),
   by         |-> server]
=============================================================================
