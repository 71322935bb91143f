-------------------------------- MODULE Router --------------------------------
(***************************************************************************)
(* internal/router/router.go: the routing rules in effect and what they    *)
(* make of a request.  A pattern is what it can do to a request: a text    *)
(* that is empty, a regular expression with the strings it matches, or one *)
(* that does not compile.                                                  *)
(***************************************************************************)
EXTENDS Integers, SequencesExt, FiniteSets

CONSTANTS Rows,       \* rows that ai_routing_rules may have
          RuleOf,     \* what is in each
          Strings,    \* models, prompts and user names of requests
          Queries

Pattern == [text : {"empty", "regex", "broken"}, hits : SUBSET Strings]

\* "hits" of a model pattern that does not compile are what it matches as a
\* glob, those of a user pattern the user of that very name.
Rule == [number : Nat, active : BOOLEAN, priority : Int, destination : Nat,
         model : Pattern, prompt : Pattern, user : Pattern]

Query == [model : Strings, prompt : Strings, user : Strings]

ASSUME RouterAssumption ==
  RuleOf \in [Rows -> Rule] /\ IsFiniteSet(Rows) /\ Queries \subseteq Query

DefaultHostgroup == 0

VARIABLES
  rules,   \* the compiled rules, in the order they are tried
  basis    \* history: the rows the compiled rules were made from

routerVars == <<rules, basis>>

-----------------------------------------------------------------------------
(* Faulty variants of operators below, used by none of them.               *)

\* Rules are left in the order of their numbers.
ByNumber(order) ==
  \A i, j \in DOMAIN order : i < j => RuleOf[order[i]].number <= RuleOf[order[j]].number

-----------------------------------------------------------------------------
\* matchRule: a prompt pattern that does not compile matches everything.
Matches(row, q) ==
  LET rule == RuleOf[row] IN
  /\ rule.model.text = "empty" \/ q.model \in rule.model.hits
  /\ rule.prompt.text # "regex" \/ q.prompt \in rule.prompt.hits
  /\ rule.user.text = "empty" \/ q.user \in rule.user.hits

ByPriority(order) ==
  \A i, j \in DOMAIN order : i < j => RuleOf[order[i]].priority <= RuleOf[order[j]].priority

Active(snapshot) == {row \in snapshot : RuleOf[row].active}

\* What LoadRules may make of the rows it has read: the sort is not stable.
Compiled(snapshot) ==
  {order \in SetToSeqs(Active(snapshot)) : ByPriority(order)}

InstallRules(snapshot) ==
  /\ rules' \in Compiled(snapshot)
  /\ basis' = snapshot

\* The first rule that matches decides.
RouteRequest(q) ==
  LET hits == {i \in DOMAIN rules : Matches(rules[i], q)}
  IN IF hits = {} THEN DefaultHostgroup ELSE RuleOf[rules[Min(hits)]].destination

-----------------------------------------------------------------------------
\* The rules of the table that the rules in effect were read from, and nothing
\* else, decide: of the active rules that fit a request, those with the lowest
\* number in their priority field, one of which sends it on; no rule, hostgroup 0.
\* "Lower = higher priority" is router.go:74's rule.  admin_panel.go:1118 tells
\* administrators "Higher = matched first", the reverse, and 1108 that the prompt's
\* pattern is one of request paths: both are wrong of this code.
RoutedByPriority ==
  \A q \in Queries :
    LET fit    == {row \in basis : RuleOf[row].active /\ Matches(row, q)}
        lowest == {row \in fit : \A other \in fit :
                                   RuleOf[row].priority <= RuleOf[other].priority}
    IN RouteRequest(q) \in IF fit = {} THEN {DefaultHostgroup}
                           ELSE {RuleOf[row].destination : row \in lowest}
=============================================================================
