--------------------------- MODULE MCResponseCache ---------------------------
EXTENDS ResponseCache, TLC

CONSTANTS k1, k2, k3, k4, small, large

MCShardOf == k1 :> 1 @@ k2 :> 1 @@ k3 :> 1 @@ k4 :> 2
MCSize == small :> 1 @@ large :> 4
MCPackedSize == small :> 2 @@ large :> 3

\* Two shards: a share of the memory is 3, of which a large value takes all.
MCConfigs ==
  {[enabled |-> TRUE,  maxItemSize |-> 4, memory |-> 6, compression |-> TRUE],
   [enabled |-> FALSE, maxItemSize |-> 2, memory |-> 0, compression |-> FALSE]}
=============================================================================
