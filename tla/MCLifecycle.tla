----------------------------- MODULE MCLifecycle -----------------------------
EXTENDS Lifecycle, TLC

CONSTANT s1

MCOrder == <<"admin", "proxy">>

\* The provider type with the most ways to answer.
MCProviderOf == s1 :> "google"

MCPeople == [username : {"admin"}, password : {"right", "wrong"}, loopback : {FALSE}]

MCMySQLSetup == {[username |-> "admin", password |-> "right"]}
=============================================================================
