----------------------------- MODULE ControlPlane -----------------------------
(***************************************************************************)
(* The administrators' side: internal/admin/admin.go and admin_panel.go    *)
(* edit the tables of internal/storage/storage.go, which seals API keys    *)
(* with internal/crypto/crypto.go, and LOAD commands bring the tables to   *)
(* the balancer and the router.  A crash or a restart (cmd/mindbalancer)   *)
(* loses everything but the tables, and may come with another encryption   *)
(* key.                                                                    *)
(***************************************************************************)
EXTENDS Router

CONSTANTS Names,      \* of servers
          Secrets,    \* API keys as providers issue them
          NoSecret,   \* the empty key
          CryptKeys,  \* encryption keys the process may be started with
          NoCrypt,    \* started without
          Loaders,
          NoRow, NoForm,
          FirstRows,  \* rules in the table before the first start
          MaxEdits, MaxRestarts   \* bounds

ASSUME FirstRowsAssumption == FirstRows \subseteq Rows

\* An API key and the encryption keys it is sealed with, the last one outside.
Key == [secret : Secrets \cup {NoSecret}, seals : Seq(CryptKeys)]
EmptyKey == [secret |-> NoSecret, seals |-> <<>>]
Typed == {EmptyKey} \cup [secret : Secrets, seals : {<<>>}]

Status == {"ONLINE", "OFFLINE"}

VARIABLES
  crypt,    \* the encryption key of this process
  servers,  \* ai_servers: of each name, its status and key
  ruleRows, \* ai_routing_rules
  runtime,  \* the balancer's servers, keys opened
  form,     \* the edit form an administrator has open in the panel
  loader,   \* what each load has read and not yet installed
  sent,     \* history: the key that was last sent for each server
  suspect,  \* history: tables the runtime may differ from
  edits, restarts

tableVars == <<servers, ruleRows, sent>>
vars == <<crypt, tableVars, runtime, routerVars, form, loader, suspect, edits,
          restarts>>

Idle == [reading |-> "nothing"]
Tables == {"servers", "rules"}

-----------------------------------------------------------------------------
(* Faulty variants of operators below, used by none of them.               *)

\* Loads add to the servers that are there.
RuntimeBeside(rows) == [s \in DOMAIN rows \cup DOMAIN runtime |->
                          IF s \in DOMAIN rows THEN rows[s] ELSE runtime[s]]

\* The keys of the rows are taken as they are.
DecryptNothing(key) == key

-----------------------------------------------------------------------------
(* Keys                                                                    *)

Encrypt(key) ==
  IF crypt = NoCrypt \/ key = EmptyKey THEN key
  ELSE [key EXCEPT !.seals = Append(@, crypt)]

\* A text without the prefix of sealed ones is taken for plain.
Readable(with, key) ==
  key.seals # <<>> => with # NoCrypt /\ Last(key.seals) = with

Decrypt(key) == IF key.seals = <<>> THEN key ELSE [key EXCEPT !.seals = Front(@)]

\* GetServersWithDecryptedKeys: one key that cannot be opened fails them all.
AllReadable(with) == \A s \in Names : servers[s] # NoRow => Readable(with, servers[s].key)

\* What LoadServers makes of the rows.
Enrolled(table) == {s \in Names : table[s] # NoRow /\ table[s].status # "OFFLINE"}

Opened(table) ==
  [s \in Enrolled(table) |-> [table[s] EXCEPT !.key = Decrypt(@)]]

-----------------------------------------------------------------------------
(* Starting                                                                *)

Init ==
  /\ crypt \in CryptKeys \cup {NoCrypt}
  /\ servers = [s \in Names |-> NoRow]
  /\ ruleRows = FirstRows
  /\ runtime = Opened(servers)
  /\ rules \in Compiled(FirstRows) /\ basis = FirstRows
  /\ form = NoForm
  /\ loader = [l \in Loaders |-> Idle]
  /\ sent = [s \in Names |-> EmptyKey]
  /\ suspect = {}
  /\ edits = 0 /\ restarts = 0

\* The process dies, or is stopped, and starts on the tables it left.  A load
\* that fails at startup is only logged: the proxy then has no servers.
Restart(with) ==
  /\ restarts < MaxRestarts
  /\ restarts' = restarts + 1
  /\ crypt' = with
  /\ runtime' = IF AllReadable(with) THEN Opened(servers) ELSE <<>>
  /\ InstallRules(ruleRows)
  /\ suspect' = IF AllReadable(with) THEN {} ELSE {"servers"}
  /\ form' = NoForm
  /\ loader' = [l \in Loaders |-> Idle]
  /\ UNCHANGED <<tableVars, edits>>

-----------------------------------------------------------------------------
(* Edits                                                                   *)

Reading(l, table) == loader[l].reading = table

\* Loads that have read a table are out of date once it changes.
Stale(table) ==
  [l \in Loaders |-> IF Reading(l, table) THEN [loader[l] EXCEPT !.clean = FALSE]
                                          ELSE loader[l]]

Change(table) ==
  /\ edits < MaxEdits
  /\ edits' = edits + 1
  /\ suspect' = suspect \cup {table}
  /\ loader' = Stale(table)
  /\ UNCHANGED <<crypt, runtime, routerVars, restarts>>

\* POST /api/servers and INSERT INTO ai_servers; a name that exists is an error.
InsertServer(s, key) ==
  /\ servers[s] = NoRow
  /\ Change("servers")
  /\ servers' = [servers EXCEPT ![s] = [status |-> "ONLINE", key |-> Encrypt(key)]]
  /\ sent' = [sent EXCEPT ![s] = key]
  /\ UNCHANGED <<ruleRows, form>>

\* PUT /api/servers/<name>: every column is written from the body, whatever it
\* leaves out; there may be no row.
UpdateServer(s, status, key) ==
  /\ Change("servers")
  /\ servers' = IF servers[s] = NoRow THEN servers
                ELSE [servers EXCEPT ![s] = [status |-> status, key |-> Encrypt(key)]]
  /\ sent' = IF servers[s] = NoRow THEN sent ELSE [sent EXCEPT ![s] = key]
  /\ UNCHANGED ruleRows

DeleteServer(s) ==
  /\ Change("servers")
  /\ servers' = [servers EXCEPT ![s] = NoRow]
  /\ UNCHANGED <<ruleRows, form, sent>>

\* A client may send a key it was issued, none, or the text GET showed it.
BodyKeys(s) == Typed \cup IF servers[s] = NoRow THEN {} ELSE {servers[s].key}

\* The panel fills its form from the row, but for the key, and writes it back
\* when the administrator saves, whatever has happened to the row meanwhile.
OpenForm(s) ==
  /\ form = NoForm
  /\ servers[s] # NoRow
  /\ form' = [name |-> s, status |-> servers[s].status]
  /\ UNCHANGED <<crypt, tableVars, runtime, routerVars, loader, suspect, edits,
                 restarts>>

\* The field is left empty, or a new key is typed into it.
SaveForm(status, key) ==
  /\ form # NoForm
  /\ UpdateServer(form.name, status, key)
  /\ form' = NoForm

\* Rule numbers are unique, and the panel gives every rule the number 0.
InsertRule(row) ==
  /\ \A other \in ruleRows : RuleOf[other].number # RuleOf[row].number
  /\ RuleOf[row].active
  /\ Change("rules")
  /\ ruleRows' = ruleRows \cup {row}
  /\ UNCHANGED <<servers, sent, form>>

DeleteRule(number) ==
  /\ Change("rules")
  /\ ruleRows' = {row \in ruleRows : RuleOf[row].number # number}
  /\ UNCHANGED <<servers, sent, form>>

-----------------------------------------------------------------------------
(* Loads                                                                   *)

Alone(l, table) == \A m \in Loaders \ {l} : ~ Reading(m, table)

\* The table is read before the lock is taken.  Loads that overlap install in
\* either order, and no longer know whose rows stay.
Read(l, table, then) ==
  loader' = [Stale(table) EXCEPT ![l] =
               [reading |-> table, then |-> then, clean |-> Alone(l, table),
                rows |-> IF table = "servers" THEN Opened(servers) ELSE ruleRows]]

ReadServers(l, then) ==
  /\ loader[l] = Idle
  /\ AllReadable(crypt)
  /\ Read(l, "servers", then)
  /\ UNCHANGED <<crypt, tableVars, runtime, routerVars, form, suspect, edits,
                 restarts>>

ReadRules(l) ==
  /\ loader[l] = Idle \/ loader[l] = [reading |-> "rules next"]
  /\ Read(l, "rules", "nothing")
  /\ UNCHANGED <<crypt, tableVars, runtime, routerVars, form, suspect, edits,
                 restarts>>

Clean(l) == loader[l].clean

AfterInstall(l, table) ==
  suspect' = IF Clean(l) THEN suspect \ {table} ELSE suspect \cup {table}

\* The table is replaced as a whole.
Replaced(rows) == rows

\* POST /api/reload goes on with the rules, LOAD AI SERVERS is over.
InstallServers(l) ==
  /\ Reading(l, "servers")
  /\ runtime' = Replaced(loader[l].rows)
  /\ AfterInstall(l, "servers")
  /\ loader' = [loader EXCEPT ![l] = [reading |-> loader[l].then]]
  /\ UNCHANGED <<crypt, tableVars, routerVars, form, edits, restarts>>

LoadRules(l) ==
  /\ Reading(l, "rules")
  /\ InstallRules(loader[l].rows)
  /\ AfterInstall(l, "rules")
  /\ loader' = [loader EXCEPT ![l] = Idle]
  /\ UNCHANGED <<crypt, tableVars, runtime, form, edits, restarts>>

Next ==
  \/ \E with \in CryptKeys \cup {NoCrypt} : Restart(with)
  \/ \E s \in Names :
       \/ \E key \in Typed : InsertServer(s, key)
       \/ \E status \in Status, key \in BodyKeys(s) :
            UpdateServer(s, status, key) /\ UNCHANGED form
       \/ DeleteServer(s)
       \/ OpenForm(s)
  \/ \E status \in Status, key \in Typed : SaveForm(status, key)
  \/ \E row \in Rows : InsertRule(row) \/ DeleteRule(RuleOf[row].number)
  \/ \E l \in Loaders :
       \/ \E then \in {"nothing", "rules next"} : ReadServers(l, then)
       \/ ReadRules(l)
       \/ InstallServers(l)
       \/ LoadRules(l)

Spec == Init /\ [][Next]_vars

-----------------------------------------------------------------------------
(* Properties                                                              *)

\* A load brings the runtime up to the table: if nobody edited the table since
\* it was read and no other load of it was under way, the runtime is the table
\* from then on, until the next edit, whatever else is loaded, edited, failed
\* or restarted.
LoneLoadSettles ==
  /\ "servers" \notin suspect => runtime = Opened(servers)
  /\ "rules" \notin suspect => basis = ruleRows

\* A key that was sent in the clear reaches the providers as it was sent, if it
\* reaches them at all: sealed, re-sealed by edits, read by processes with other
\* encryption keys or none, it is never sent out sealed or as another one.
KeysComeBack ==
  \A s \in DOMAIN runtime :
    servers[s] # NoRow /\ "servers" \notin suspect /\ sent[s].seals = <<>> =>
      runtime[s].key = sent[s]

-----------------------------------------------------------------------------
\* "Leave empty to keep existing key when editing".
EmptyFieldKeepsKey ==
  [][\A s \in Names, status \in Status :
       form # NoForm /\ form.name = s /\ servers[s] # NoRow /\ SaveForm(status, EmptyKey) =>
         servers'[s].key = servers[s].key]_vars
=============================================================================
