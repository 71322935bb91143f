------------------------------ MODULE MCGateway ------------------------------
EXTENDS Gateway, TLC

CONSTANTS a1, a2, b1, openai, anthropic, lower, upper, other

MCTable == <<a1, b1, a2>>
MCTypeOf == a1 :> openai @@ a2 :> openai @@ b1 :> anthropic

\* "openai", "OpenAI" and "anthropic" as keys of provider_models.
MCLabelType == lower :> openai @@ upper :> openai @@ other :> anthropic

MCWishes ==
  {[by |-> "models", labels |-> {lower, upper, other}, min |-> 0, referee |-> anthropic],
   [by |-> "types", types |-> {openai}, min |-> 1, referee |-> openai]}

MCSettings ==
  {[enabled |-> TRUE, maxProviders |-> 2, minResponses |-> 2],
   [enabled |-> TRUE, maxProviders |-> -1, minResponses |-> 0],
   [enabled |-> FALSE, maxProviders |-> 4, minResponses |-> 2]}

MCBodies ==
  {[kind |-> "invalid"], [kind |-> "streamedReferee"], [kind |-> "chat"]}
  \cup [kind : {"referee"}, wish : MCWishes]
=============================================================================
