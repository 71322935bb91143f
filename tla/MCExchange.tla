----------------------------- MODULE MCExchange -----------------------------
(***************************************************************************)
(* Exchange with every conversation of at most three messages, and streams *)
(* of at most three lines through a channel of two events.                 *)
(***************************************************************************)
EXTENDS Exchange

MCConversations == UNION {[1 .. n -> Message] : n \in 0 .. 3}

MCStreamed == {<<[role |-> "user", content |-> "short"]>>}

MCAnswers ==
  [blocks : UNION {[1 .. n -> {"text", "other"}] : n \in 0 .. 2},
   stop : {"complete", "limit", "filter"}]
=============================================================================
