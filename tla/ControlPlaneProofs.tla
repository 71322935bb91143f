------------------------- MODULE ControlPlaneProofs -------------------------
(***************************************************************************)
(* Proofs about ControlPlane and Router: loads, sealed keys and the order  *)
(* of rules, for any servers, rules, keys, edits, restarts and loads.      *)
(***************************************************************************)
EXTENDS ControlPlane, FiniteSetTheorems, WellFoundedInduction, TLAPS

\* A sealed key opens to what was sent.
KeyOK(s) == servers[s] # NoRow /\ sent[s].seals = <<>> =>
              Decrypt(servers[s].key) = sent[s]

KeysInv ==
  /\ crypt \in CryptKeys \cup {NoCrypt}
  /\ servers \in [Names -> [status : Status, key : Key] \cup {NoRow}]
  /\ sent \in [Names -> Key]
  /\ form # NoForm => form \in [name : Names, status : Status]
  /\ \A s \in Names : KeyOK(s)

\* Clean rows are still those of the table.
LoaderOK(l) ==
  /\ loader[l].reading \in Tables =>
       DOMAIN loader[l] = {"reading", "then", "clean", "rows"}
  /\ loader[l].reading = "servers" =>
       /\ loader[l].then \in {"nothing", "rules next"}
       /\ loader[l].clean => loader[l].rows = Opened(servers)
  /\ loader[l].reading = "rules" =>
       /\ loader[l].rows \subseteq Rows
       /\ loader[l].clean => loader[l].rows = ruleRows

LoadsInv ==
  /\ DOMAIN loader = Loaders
  /\ \A l \in Loaders : LoaderOK(l)
  /\ LoneLoadSettles

RulesInv ==
  /\ ruleRows \subseteq Rows
  /\ basis \subseteq Rows
  /\ rules \in Compiled(basis)

IInv == KeysInv /\ LoadsInv /\ RulesInv

-----------------------------------------------------------------------------
(* The order of rules                                                      *)

\* A non-empty set of naturals has a smallest member, and Min is it.
LEMMA MinIsSmallest ==
  ASSUME NEW S \in SUBSET Nat, S # {}
  PROVE  Min(S) \in S /\ \A n \in S : Min(S) <= n
  <1> DEFINE R == OpToRel(<, Nat)
  <1>1. PICK m \in S : \A n \in S : ~ (<<n, m>> \in R)
    <2>1. IsWellFoundedOn(R, Nat)
      BY NatLessThanWellFounded
    <2> HIDE DEF R
    <2> QED
      BY <2>1, WFMin
  <1>2. ASSUME NEW n \in S
        PROVE  m <= n
    <2>1. <<n, m>> \in R <=> n < m
      BY DEF OpToRel
    <2> HIDE DEF R
    <2>2. ~ (n < m)
      BY <1>1, <2>1
    <2>3. QED
      BY <2>2
  <1>3. QED
    BY <1>2 DEF Min

\* The compiled rules are all the active rules there are.
LEMMA CompiledIsActive ==
  ASSUME NEW snapshot \in SUBSET Rows, NEW order \in Compiled(snapshot)
  PROVE  /\ DOMAIN order \in SUBSET Nat
         /\ \A i \in DOMAIN order : order[i] \in Active(snapshot)
         /\ \A row \in Active(snapshot) : \E i \in DOMAIN order : order[i] = row
         /\ ByPriority(order)
  <1> DEFINE S == Active(snapshot)
             D == 1 .. Cardinality(S)
  <1>1. IsFiniteSet(S) /\ Cardinality(S) \in Nat
    BY RouterAssumption, FS_Subset, FS_CardinalityType DEF Active
  <1>2. order \in [D -> S] /\ \A i, j \in D : i # j => order[i] # order[j]
    BY DEF Compiled, SetToSeqs
  <1>3. IsFiniteSet(D) /\ Cardinality(D) = Cardinality(S)
    BY <1>1, FS_Interval
  <1>4. order \in Surjection(D, S)
    <2>1. order \in Injection(D, S)
      BY <1>2 DEF Injection, IsInjective
    <2> HIDE DEF S, D
    <2>2. QED
      BY <2>1, <1>1, <1>3, FS_Injection
  <1>5. ByPriority(order)
    BY DEF Compiled
  <1>6. QED
    BY <1>1, <1>2, <1>4, <1>5 DEF Surjection

\* Rules compiled from rows that are compiled by priority route by priority.
LEMMA CompiledRoutes ==
  ASSUME RulesInv
  PROVE  RoutedByPriority
  <1> SUFFICES ASSUME NEW q \in Queries
               PROVE  LET fit    == {row \in basis : RuleOf[row].active /\ Matches(row, q)}
                          lowest == {row \in fit : \A other \in fit :
                                       RuleOf[row].priority <= RuleOf[other].priority}
                      IN RouteRequest(q) \in IF fit = {} THEN {DefaultHostgroup}
                                             ELSE {RuleOf[row].destination : row \in lowest}
    BY DEF RoutedByPriority
  <1> DEFINE fit    == {row \in basis : RuleOf[row].active /\ Matches(row, q)}
             lowest == {row \in fit : \A other \in fit :
                          RuleOf[row].priority <= RuleOf[other].priority}
             hits   == {i \in DOMAIN rules : Matches(rules[i], q)}
  <1>1. /\ DOMAIN rules \in SUBSET Nat
        /\ \A i \in DOMAIN rules : rules[i] \in Active(basis)
        /\ \A row \in Active(basis) : \E i \in DOMAIN rules : rules[i] = row
        /\ ByPriority(rules)
    BY CompiledIsActive DEF RulesInv
  <1>2. \A i \in hits : rules[i] \in fit
    BY <1>1 DEF Active
  <1>3. \A row \in fit : \E i \in hits : rules[i] = row
    BY <1>1 DEF Active
  <1>4. CASE hits = {}
    <2>1. RouteRequest(q) = DefaultHostgroup
      BY <1>4 DEF RouteRequest
    <2>2. fit = {}
      BY <1>3, <1>4
    <2>3. QED
      BY <2>1, <2>2
  <1>5. CASE hits # {}
    <2> DEFINE first == Min(hits)
    <2>1. first \in hits /\ \A i \in hits : first <= i
      <3>1. hits \in SUBSET Nat
        BY <1>1
      <3> HIDE DEF hits
      <3>2. QED
        BY <3>1, <1>5, MinIsSmallest
    <2>2. RouteRequest(q) = RuleOf[rules[first]].destination
      BY <1>5 DEF RouteRequest
    <2> HIDE DEF first
    <2>3. \A row \in fit : RuleOf[row].priority \in Int
      BY RouterAssumption DEF RulesInv, Rule
    <2>4. ASSUME NEW other \in fit
          PROVE  RuleOf[rules[first]].priority <= RuleOf[other].priority
      <3>1. PICK i \in hits : rules[i] = other
        BY <1>3
      <3>2. first \in Nat /\ i \in Nat /\ first <= i
        BY <1>1, <2>1
      <3>3. CASE first < i
        BY <1>1, <2>1, <3>1, <3>3 DEF ByPriority
      <3>4. CASE first = i
        BY <2>3, <3>1, <3>4
      <3>5. QED
        BY <3>2, <3>3, <3>4
    <2>5. rules[first] \in lowest
      BY <1>2, <2>1, <2>4
    <2> HIDE DEF fit, lowest
    <2>6. fit # {}
      BY <1>2, <2>1
    <2>7. QED
      BY <2>2, <2>5, <2>6 DEF fit, lowest
  <1>6. QED
    BY <1>4, <1>5

-----------------------------------------------------------------------------
(* Keys                                                                    *)

\* What is sealed once opens to what was sealed.
LEMMA SealOpens ==
  ASSUME NEW key \in Key, key.seals = <<>>
  PROVE  Decrypt(Encrypt(key)) = key
  <1>1. CASE crypt = NoCrypt \/ key = EmptyKey
    BY <1>1 DEF Encrypt, Decrypt
  <1>2. CASE ~ (crypt = NoCrypt \/ key = EmptyKey)
    <2> DEFINE sealed == [key EXCEPT !.seals = <<crypt>>]
    <2>1. Encrypt(key) = sealed
      BY <1>2 DEF Encrypt
    <2>2. /\ sealed \in [secret : {key.secret}, seals : {<<crypt>>}]
          /\ sealed.seals = <<crypt>>
      BY DEF Key
    <2>3. <<crypt>> # <<>>
      OBVIOUS
    <2>4. Front(<<crypt>>) = <<>>
      BY DEF Front
    <2>5. Decrypt(sealed) = [sealed EXCEPT !.seals = <<>>]
      BY <2>2, <2>3, <2>4 DEF Decrypt
    <2>6. [sealed EXCEPT !.seals = <<>>] = key
      BY DEF Key
    <2> HIDE DEF sealed
    <2>7. QED
      BY <2>1, <2>5, <2>6
  <1>3. QED
    BY <1>1, <1>2

\* Sealing a key of this process makes a key.
LEMMA SealIsKey ==
  ASSUME NEW key \in Key, crypt \in CryptKeys \cup {NoCrypt}
  PROVE  Encrypt(key) \in Key
  BY DEF Encrypt, Key

\* Keys that clients send are keys.
LEMMA SentAreKeys ==
  ASSUME KeysInv, NEW s \in Names
  PROVE  /\ Typed \subseteq Key
         /\ BodyKeys(s) \subseteq Key
  <1>1. <<>> \in Seq(CryptKeys)
    OBVIOUS
  <1>2. Typed \subseteq Key
    <2>1. EmptyKey \in Key
      BY <1>1 DEF Key, EmptyKey
    <2>2. [secret : Secrets, seals : {<<>>}] \subseteq Key
      BY <1>1 DEF Key
    <2>3. QED
      BY <2>1, <2>2 DEF Typed
  <1>3. servers[s] # NoRow => servers[s].key \in Key
    BY DEF KeysInv
  <1>4. QED
    BY <1>2, <1>3 DEF BodyKeys

-----------------------------------------------------------------------------
(* Loads                                                                   *)

\* An edit of a table spoils what was read of it, and nothing else.
LEMMA ChangeKeepsLoads ==
  ASSUME LoadsInv, NEW table \in Tables, Change(table),
         table = "servers" => UNCHANGED ruleRows,
         table = "rules" => UNCHANGED servers
  PROVE  LoadsInv'
  <1>1. loader' = Stale(table) /\ suspect' = suspect \cup {table}
        /\ UNCHANGED <<runtime, basis>>
    BY DEF Change, routerVars
  <1>2. DOMAIN loader' = Loaders
    BY <1>1 DEF Stale
  <1>3. ASSUME NEW l \in Loaders
        PROVE  LoaderOK(l)'
    <2>1. LoaderOK(l)
      BY DEF LoadsInv
    <2>2. CASE Reading(l, table)
      <3>1. loader'[l] = [loader[l] EXCEPT !.clean = FALSE]
        BY <1>1, <2>2 DEF Stale
      <3>2. DOMAIN loader[l] = {"reading", "then", "clean", "rows"}
        BY <2>1, <2>2 DEF LoaderOK, Reading
      <3>3. /\ DOMAIN loader'[l] = {"reading", "then", "clean", "rows"}
            /\ loader'[l].reading = loader[l].reading
            /\ loader'[l].then = loader[l].then
            /\ loader'[l].clean = FALSE
            /\ loader'[l].rows = loader[l].rows
        BY <3>1, <3>2
      <3>4. QED
        BY <2>1, <3>3 DEF LoaderOK
    <2>3. CASE ~ Reading(l, table)
      <3>1. loader'[l] = loader[l]
        BY <1>1, <2>3 DEF Stale
      <3>2. CASE table = "servers"
        BY <2>1, <2>3, <3>1, <3>2 DEF LoaderOK, Reading
      <3>3. CASE table = "rules"
        <4>1. servers' = servers
          BY <3>3
        <4>2. Opened(servers)' = Opened(servers)
          BY <4>1
        <4>3. QED
          BY <2>1, <2>3, <3>1, <3>3, <4>2 DEF LoaderOK, Reading
      <3>4. QED
        BY <3>2, <3>3 DEF Tables
    <2>4. QED
      BY <2>2, <2>3
  <1>4. LoneLoadSettles'
    <2>1. CASE table = "servers"
      BY <1>1, <2>1 DEF LoadsInv, LoneLoadSettles
    <2>2. CASE table = "rules"
      <3>1. servers' = servers /\ runtime' = runtime
        BY <1>1, <2>2
      <3>2. Opened(servers)' = Opened(servers)
        BY <3>1
      <3>3. QED
        BY <1>1, <2>2, <3>1, <3>2 DEF LoadsInv, LoneLoadSettles
    <2>3. QED
      BY <2>1, <2>2 DEF Tables
  <1>5. QED
    BY <1>2, <1>3, <1>4 DEF LoadsInv

\* Loads look at the tables, and at nothing else that edits and forms change.
LEMMA LoadsFrame ==
  ASSUME LoadsInv, UNCHANGED <<servers, ruleRows, runtime, basis, loader, suspect>>
  PROVE  LoadsInv'
  <1>1. Opened(servers)' = Opened(servers)
    OBVIOUS
  <1>2. QED
    BY <1>1 DEF LoadsInv, LoaderOK, LoneLoadSettles

\* Reading a table spoils the other loads of it.
LEMMA ReadKeeps ==
  ASSUME LoadsInv, RulesInv, NEW l \in Loaders, NEW table \in Tables,
         NEW then \in {"nothing", "rules next"}, Read(l, table, then),
         UNCHANGED <<servers, ruleRows, runtime, routerVars, suspect>>
  PROVE  LoadsInv'
  <1>1. Opened(servers)' = Opened(servers)
    OBVIOUS
  <1> DEFINE new == [reading |-> table, then |-> then, clean |-> Alone(l, table),
                     rows |-> IF table = "servers" THEN Opened(servers) ELSE ruleRows]
  <1>2. loader' = [Stale(table) EXCEPT ![l] = new]
    BY DEF Read
  <1>3. DOMAIN loader' = Loaders
    BY <1>2 DEF Stale
  <1>4. ASSUME NEW m \in Loaders
        PROVE  LoaderOK(m)'
    <2>1. CASE m = l
      <3>1. loader'[l] = new
        BY <1>2 DEF Stale
      <3>2. /\ DOMAIN new = {"reading", "then", "clean", "rows"}
            /\ new.reading = table /\ new.then = then
            /\ new.rows = IF table = "servers" THEN Opened(servers) ELSE ruleRows
        OBVIOUS
      <3> HIDE DEF new
      <3>3. QED
        BY <1>1, <2>1, <3>1, <3>2 DEF LoaderOK, Tables, RulesInv
    <2>2. CASE m # l
      <3>1. loader'[m] = Stale(table)[m]
        BY <1>2, <2>2 DEF Stale
      <3>2. LoaderOK(m)
        BY DEF LoadsInv
      <3>3. CASE Reading(m, table)
        <4>1. loader'[m] = [loader[m] EXCEPT !.clean = FALSE]
          BY <3>1, <3>3 DEF Stale
        <4>2. DOMAIN loader[m] = {"reading", "then", "clean", "rows"}
          BY <3>2, <3>3 DEF LoaderOK, Reading
        <4>3. /\ DOMAIN loader'[m] = {"reading", "then", "clean", "rows"}
              /\ loader'[m].reading = loader[m].reading
              /\ loader'[m].then = loader[m].then
              /\ loader'[m].clean = FALSE
              /\ loader'[m].rows = loader[m].rows
          BY <4>1, <4>2
        <4>4. QED
          BY <3>2, <4>3 DEF LoaderOK
      <3>4. CASE ~ Reading(m, table)
        BY <1>1, <3>1, <3>2, <3>4 DEF LoaderOK, Stale
      <3>5. QED
        BY <3>3, <3>4
    <2>3. QED
      BY <2>1, <2>2
  <1>5. LoneLoadSettles'
    BY <1>1 DEF LoadsInv, LoneLoadSettles, routerVars
  <1>6. QED
    BY <1>3, <1>4, <1>5 DEF LoadsInv

-----------------------------------------------------------------------------
(* The actions                                                             *)

LEMMA InitHolds == ASSUME Init PROVE IInv
  <1>1. KeysInv
    <2>1. EmptyKey \in Key
      BY DEF EmptyKey, Key
    <2>2. QED
      BY <2>1 DEF Init, KeysInv, KeyOK
  <1>2. LoadsInv
    BY DEF Init, LoadsInv, LoaderOK, LoneLoadSettles, Idle, Tables
  <1>3. RulesInv
    BY FirstRowsAssumption DEF Init, RulesInv
  <1>4. QED
    BY <1>1, <1>2, <1>3 DEF IInv

\* What holds of keys needs the table, the form and the key of the process.
LEMMA KeysFrame ==
  ASSUME KeysInv, UNCHANGED <<crypt, servers, sent, form>>
  PROVE  KeysInv'
  BY DEF KeysInv, KeyOK

LEMMA RulesFrame ==
  ASSUME RulesInv, UNCHANGED <<ruleRows, routerVars>>
  PROVE  RulesInv'
  BY DEF RulesInv, routerVars

LEMMA InstallRulesKeeps ==
  ASSUME RulesInv, NEW snapshot \in SUBSET Rows, InstallRules(snapshot),
         UNCHANGED ruleRows
  PROVE  RulesInv'
  BY DEF RulesInv, InstallRules

LEMMA RestartKeeps ==
  ASSUME IInv, NEW with \in CryptKeys \cup {NoCrypt}, Restart(with)
  PROVE  IInv'
  <1>1. KeysInv'
    BY DEF IInv, KeysInv, KeyOK, Restart, tableVars
  <1>2. RulesInv'
    BY InstallRulesKeeps DEF IInv, RulesInv, Restart, tableVars
  <1>3. LoadsInv'
    <2>1. /\ loader' = [l \in Loaders |-> Idle]
          /\ runtime' = IF AllReadable(with) THEN Opened(servers) ELSE <<>>
          /\ suspect' = IF AllReadable(with) THEN {} ELSE {"servers"}
          /\ basis' = ruleRows
          /\ servers' = servers /\ ruleRows' = ruleRows
      BY DEF Restart, tableVars, InstallRules
    <2>2. Opened(servers)' = Opened(servers)
      BY <2>1
    <2>3. LoneLoadSettles'
      BY <2>1, <2>2 DEF LoneLoadSettles
    <2>4. QED
      BY <2>1, <2>3 DEF LoadsInv, LoaderOK, Idle, Tables
  <1>4. QED
    BY <1>1, <1>2, <1>3 DEF IInv

\* A row is written with the key that is sent for it.
LEMMA WriteKeepsKeys ==
  ASSUME KeysInv, NEW s \in Names, NEW status \in Status, NEW key \in Key,
         servers' = [servers EXCEPT ![s] = [status |-> status, key |-> Encrypt(key)]],
         sent' = [sent EXCEPT ![s] = key],
         UNCHANGED crypt,
         form' = form \/ form' = NoForm
  PROVE  KeysInv'
  <1>1. Encrypt(key) \in Key
    BY SealIsKey DEF KeysInv
  <1>2. servers' \in [Names -> [status : Status, key : Key] \cup {NoRow}]
    BY <1>1 DEF KeysInv
  <1>3. sent' \in [Names -> Key]
    BY DEF KeysInv
  <1>4. ASSUME NEW n \in Names
        PROVE  KeyOK(n)'
    <2>1. CASE n = s
      <3>1. servers'[n].key = Encrypt(key) /\ sent'[n] = key
        BY <2>1 DEF KeysInv
      <3>2. key.seals = <<>> => Decrypt(Encrypt(key)) = key
        BY SealOpens
      <3>3. QED
        BY <3>1, <3>2 DEF KeyOK, Decrypt
    <2>2. CASE n # s
      <3>1. servers'[n] = servers[n] /\ sent'[n] = sent[n]
        BY <2>2 DEF KeysInv
      <3>2. KeyOK(n)
        BY DEF KeysInv
      <3>3. QED
        BY <3>1, <3>2 DEF KeyOK, Decrypt
    <2>3. QED
      BY <2>1, <2>2
  <1>5. QED
    BY <1>2, <1>3, <1>4 DEF KeysInv

LEMMA InsertServerKeeps ==
  ASSUME IInv, NEW s \in Names, NEW key \in Typed, InsertServer(s, key)
  PROVE  IInv'
  <1>1. LoadsInv'
    BY ChangeKeepsLoads DEF IInv, InsertServer, Tables
  <1>2. KeysInv'
    <2>1. key \in Key /\ "ONLINE" \in Status
      BY SentAreKeys DEF IInv, Status
    <2>2. QED
      BY <2>1, WriteKeepsKeys DEF IInv, InsertServer, Change
  <1>3. RulesInv'
    BY RulesFrame DEF IInv, InsertServer, Change
  <1>4. QED
    BY <1>1, <1>2, <1>3 DEF IInv

LEMMA UpdateServerKeeps ==
  ASSUME IInv, NEW s \in Names, NEW status \in Status, NEW key \in BodyKeys(s),
         UpdateServer(s, status, key), form' = form \/ form' = NoForm
  PROVE  IInv'
  <1>1. LoadsInv'
    BY ChangeKeepsLoads DEF IInv, UpdateServer, Tables
  <1>2. KeysInv'
    <2>1. key \in Key
      BY SentAreKeys DEF IInv
    <2>2. CASE servers[s] = NoRow
      BY <2>2 DEF IInv, KeysInv, KeyOK, UpdateServer, Change
    <2>3. CASE servers[s] # NoRow
      BY <2>1, <2>3, WriteKeepsKeys DEF IInv, UpdateServer, Change
    <2>4. QED
      BY <2>2, <2>3
  <1>3. RulesInv'
    BY RulesFrame DEF IInv, UpdateServer, Change
  <1>4. QED
    BY <1>1, <1>2, <1>3 DEF IInv

LEMMA DeleteServerKeeps ==
  ASSUME IInv, NEW s \in Names, DeleteServer(s)
  PROVE  IInv'
  <1>1. LoadsInv'
    BY ChangeKeepsLoads DEF IInv, DeleteServer, Tables
  <1>2. KeysInv'
    BY DEF IInv, KeysInv, KeyOK, DeleteServer, Change
  <1>3. RulesInv'
    BY RulesFrame DEF IInv, DeleteServer, Change
  <1>4. QED
    BY <1>1, <1>2, <1>3 DEF IInv

LEMMA OpenFormKeeps ==
  ASSUME IInv, NEW s \in Names, OpenForm(s)
  PROVE  IInv'
  <1>1. LoadsInv'
    BY LoadsFrame DEF IInv, OpenForm, tableVars, routerVars
  <1>2. KeysInv'
    BY DEF IInv, KeysInv, KeyOK, OpenForm, tableVars
  <1>3. RulesInv'
    BY RulesFrame DEF IInv, OpenForm, tableVars
  <1>4. QED
    BY <1>1, <1>2, <1>3 DEF IInv

LEMMA SaveFormKeeps ==
  ASSUME IInv, NEW status \in Status, NEW key \in Typed, SaveForm(status, key)
  PROVE  IInv'
  <1>1. form.name \in Names
    BY DEF SaveForm, IInv, KeysInv
  <1>2. key \in BodyKeys(form.name)
    BY DEF BodyKeys
  <1>3. QED
    BY <1>1, <1>2, UpdateServerKeeps DEF SaveForm

LEMMA InsertRuleKeeps ==
  ASSUME IInv, NEW row \in Rows, InsertRule(row)
  PROVE  IInv'
  <1>1. LoadsInv'
    BY ChangeKeepsLoads DEF IInv, InsertRule, Tables
  <1>2. KeysInv'
    BY KeysFrame DEF IInv, InsertRule, Change
  <1>3. RulesInv'
    BY DEF IInv, RulesInv, InsertRule, Change, routerVars
  <1>4. QED
    BY <1>1, <1>2, <1>3 DEF IInv

LEMMA DeleteRuleKeeps ==
  ASSUME IInv, NEW number, DeleteRule(number)
  PROVE  IInv'
  <1>1. LoadsInv'
    BY ChangeKeepsLoads DEF IInv, DeleteRule, Tables
  <1>2. KeysInv'
    BY KeysFrame DEF IInv, DeleteRule, Change
  <1>3. RulesInv'
    BY DEF IInv, RulesInv, DeleteRule, Change, routerVars
  <1>4. QED
    BY <1>1, <1>2, <1>3 DEF IInv

LEMMA ReadingKeeps ==
  ASSUME IInv, NEW l \in Loaders,
         \/ \E then \in {"nothing", "rules next"} : ReadServers(l, then)
         \/ ReadRules(l)
  PROVE  IInv'
  <1>1. /\ UNCHANGED <<crypt, tableVars, runtime, routerVars, form, suspect>>
        /\ \E table \in Tables, then \in {"nothing", "rules next"} : Read(l, table, then)
    BY DEF ReadServers, ReadRules, Tables
  <1>2. LoadsInv'
    BY <1>1, ReadKeeps DEF IInv, tableVars
  <1>3. KeysInv'
    BY <1>1, KeysFrame DEF IInv, tableVars
  <1>4. RulesInv'
    BY <1>1, RulesFrame DEF IInv, tableVars
  <1>5. QED
    BY <1>2, <1>3, <1>4 DEF IInv

\* Clean rows are those of the table, and settle it.
LEMMA InstallServersKeeps ==
  ASSUME IInv, NEW l \in Loaders, InstallServers(l)
  PROVE  IInv'
  <1>1. /\ Reading(l, "servers")
        /\ runtime' = loader[l].rows
        /\ suspect' = IF loader[l].clean THEN suspect \ {"servers"}
                                          ELSE suspect \cup {"servers"}
        /\ loader' = [loader EXCEPT ![l] = [reading |-> loader[l].then]]
        /\ UNCHANGED <<crypt, tableVars, routerVars, form>>
    BY DEF InstallServers, Replaced, AfterInstall, Clean
  <1>2. Opened(servers)' = Opened(servers)
    BY <1>1 DEF tableVars
  <1>3. LoaderOK(l)
    BY DEF IInv, LoadsInv
  <1>4. LoneLoadSettles'
    BY <1>1, <1>2, <1>3 DEF IInv, LoadsInv, LoneLoadSettles, LoaderOK, Reading, tableVars,
                            routerVars
  <1>5. ASSUME NEW m \in Loaders
        PROVE  LoaderOK(m)'
    <2>1. CASE m = l
      <3>1. loader'[m] = [reading |-> loader[l].then]
        BY <1>1, <2>1 DEF IInv, LoadsInv
      <3>2. loader[l].then \in {"nothing", "rules next"}
        BY <1>1, <1>3 DEF LoaderOK, Reading
      <3>3. loader'[m].reading = loader[l].then
        BY <3>1
      <3>4. QED
        BY <3>2, <3>3 DEF LoaderOK, Tables
    <2>2. CASE m # l
      <3>1. loader'[m] = loader[m]
        BY <1>1, <2>2 DEF IInv, LoadsInv
      <3>2. LoaderOK(m)
        BY DEF IInv, LoadsInv
      <3>3. QED
        BY <1>1, <1>2, <3>1, <3>2 DEF LoaderOK, tableVars
    <2>3. QED
      BY <2>1, <2>2
  <1>6. LoadsInv'
    BY <1>1, <1>4, <1>5 DEF IInv, LoadsInv
  <1>7. KeysInv' /\ RulesInv'
    BY <1>1, KeysFrame, RulesFrame DEF IInv, tableVars
  <1>8. QED
    BY <1>6, <1>7 DEF IInv

LEMMA LoadRulesKeeps ==
  ASSUME IInv, NEW l \in Loaders, LoadRules(l)
  PROVE  IInv'
  <1>1. /\ Reading(l, "rules")
        /\ InstallRules(loader[l].rows)
        /\ suspect' = IF loader[l].clean THEN suspect \ {"rules"}
                                          ELSE suspect \cup {"rules"}
        /\ loader' = [loader EXCEPT ![l] = Idle]
        /\ UNCHANGED <<crypt, tableVars, runtime, form>>
    BY DEF LoadRules, AfterInstall, Clean
  <1>2. Opened(servers)' = Opened(servers)
    BY <1>1 DEF tableVars
  <1>3. LoaderOK(l)
    BY DEF IInv, LoadsInv
  <1>4. LoneLoadSettles'
    BY <1>1, <1>2, <1>3 DEF IInv, LoadsInv, LoneLoadSettles, LoaderOK, Reading, tableVars,
                            InstallRules
  <1>5. ASSUME NEW m \in Loaders
        PROVE  LoaderOK(m)'
    <2>1. CASE m = l
      BY <1>1, <2>1 DEF IInv, LoadsInv, LoaderOK, Idle, Tables
    <2>2. CASE m # l
      <3>1. loader'[m] = loader[m]
        BY <1>1, <2>2 DEF IInv, LoadsInv
      <3>2. LoaderOK(m)
        BY DEF IInv, LoadsInv
      <3>3. QED
        BY <1>1, <1>2, <3>1, <3>2 DEF LoaderOK, tableVars
    <2>3. QED
      BY <2>1, <2>2
  <1>6. LoadsInv'
    BY <1>1, <1>4, <1>5 DEF IInv, LoadsInv
  <1>7. KeysInv'
    BY <1>1, KeysFrame DEF IInv, tableVars
  <1>8. RulesInv'
    BY <1>1, <1>3, InstallRulesKeeps DEF IInv, LoaderOK, Reading, tableVars
  <1>9. QED
    BY <1>6, <1>7, <1>8 DEF IInv

LEMMA StutterKeeps == ASSUME IInv, UNCHANGED vars PROVE IInv'
  <1>1. LoadsInv'
    BY LoadsFrame DEF IInv, vars, tableVars, routerVars
  <1>2. KeysInv' /\ RulesInv'
    BY KeysFrame, RulesFrame DEF IInv, vars, tableVars
  <1>3. QED
    BY <1>1, <1>2 DEF IInv

LEMMA NextKeeps == ASSUME IInv, [Next]_vars PROVE IInv'
  BY RestartKeeps, InsertServerKeeps, UpdateServerKeeps, DeleteServerKeeps, OpenFormKeeps,
     SaveFormKeeps, InsertRuleKeeps, DeleteRuleKeeps, ReadingKeeps, InstallServersKeeps,
     LoadRulesKeeps, StutterKeeps
  DEF Next

-----------------------------------------------------------------------------
(* What the invariant gives                                                *)

LEMMA AlwaysIInv == Spec => []IInv
  BY InitHolds, NextKeeps, PTL DEF Spec

\* Storage and the two LoadX functions: a load that ran by itself, on a table
\* nobody has edited since, has made the runtime the table, for good.
THEOREM LoadsSettle == Spec => []LoneLoadSettles
  BY AlwaysIInv, PTL DEF IInv, LoadsInv

\* EncryptAPIKey and DecryptAPIKey with their prefix: whatever keys processes
\* are started with, a key that reaches a provider is the one sent in the clear.
THEOREM KeysSurvive == Spec => []KeysComeBack
  <1>1. IInv => KeysComeBack
    <2> SUFFICES ASSUME IInv, NEW s \in DOMAIN runtime, servers[s] # NoRow,
                        "servers" \notin suspect, sent[s].seals = <<>>
                 PROVE  runtime[s].key = sent[s]
      BY DEF KeysComeBack
    <2>1. runtime = Opened(servers)
      BY DEF IInv, LoadsInv, LoneLoadSettles
    <2>2. s \in Enrolled(servers) /\ s \in Names
      BY <2>1 DEF Opened, Enrolled
    <2>3. servers[s] \in [status : Status, key : Key]
      BY <2>2 DEF IInv, KeysInv
    <2>4. runtime[s].key = Decrypt(servers[s].key)
      BY <2>1, <2>2, <2>3 DEF Opened
    <2>5. QED
      BY <2>2, <2>4 DEF IInv, KeysInv, KeyOK
  <1>2. QED
    BY <1>1, AlwaysIInv, PTL

\* Router.LoadRules and RouteRequest: unstable sort, equal priorities, broken
\* patterns and overlapping loads or not, a rule that fits and that no other such
\* rule has a lower number in its priority field than decides.
THEOREM RoutesByPriority == Spec => []RoutedByPriority
  <1>1. IInv => RoutedByPriority
    BY CompiledRoutes DEF IInv
  <1>2. QED
    BY <1>1, AlwaysIInv, PTL
=============================================================================
