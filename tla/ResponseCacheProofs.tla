------------------------- MODULE ResponseCacheProofs -------------------------
(***************************************************************************)
(* Proofs about ResponseCache: it implements LossyCache, Clear forgets all *)
(* that was there, and maps, lists and sizes agree, for any keys, values,  *)
(* shards, limits, callers and changes of configuration.                   *)
(*                                                                         *)
(* The first half follows the entries, the second the lists and the sums.  *)
(***************************************************************************)
EXTENDS ResponseCache, FiniteSetTheorems, WellFoundedInduction, TLAPS

\* The keys of shard s.
Own(s) == {k \in Keys : ShardOf[k] = s}

ShardOK(s) ==
  /\ DOMAIN shards[s] = {"items", "lru", "size"}
  /\ DOMAIN shards[s].items \subseteq Own(s)
  /\ \A k \in DOMAIN shards[s].items : shards[s].items[k] \in Entry

ShardsInv == DOMAIN shards = Shards /\ \A s \in Shards : ShardOK(s)

CallersInv == op \in [Callers -> Operation] /\ DOMAIN got = Callers

ClearInv == clearing \in [Clearers -> 0 .. NumShards] /\ ClearForgets

IInv == ShardsInv /\ CallersInv /\ ClearInv

-----------------------------------------------------------------------------
(* Shards                                                                  *)

ShardRecord(sh) ==
  /\ DOMAIN sh = {"items", "lru", "size"}
  /\ \A k \in DOMAIN sh.items : sh.items[k] \in Entry

\* What a shard has in common with an earlier self that it has only lost
\* entries of, or seen entries of expire.
Thinned(new, sh) ==
  /\ ShardRecord(new)
  /\ DOMAIN new.items \subseteq DOMAIN sh.items
  /\ \A k \in DOMAIN new.items :
       /\ new.items[k].value = sh.items[k].value
       /\ sh.items[k].expired => new.items[k].expired

\* No entry has become old, in the eyes of any clearer.
StaysYoung(new, sh) ==
  \A k \in DOMAIN new.items, a \in Clearers :
    a \in new.items[k].old => k \in DOMAIN sh.items /\ a \in sh.items[k].old

LEMMA SameIsThinned ==
  ASSUME NEW sh, ShardRecord(sh)
  PROVE  Thinned(sh, sh) /\ StaysYoung(sh, sh)
  BY DEF Thinned, StaysYoung

\* Removing entries leaves the others as they are.
LEMMA RemovedThins ==
  ASSUME NEW sh, NEW gone, ShardRecord(sh)
  PROVE  Thinned(Removed(sh, gone), sh) /\ StaysYoung(Removed(sh, gone), sh)
  <1> DEFINE new == Removed(sh, gone)
  <1>1. /\ DOMAIN new = {"items", "lru", "size"}
        /\ new.items = [k \in Cached(sh) \ gone |-> sh.items[k]]
    BY DEF Removed, Restrict
  <1>2. /\ DOMAIN new.items = DOMAIN sh.items \ gone
        /\ \A k \in DOMAIN new.items : new.items[k] = sh.items[k]
    BY <1>1 DEF Cached
  <1> HIDE DEF new
  <1>3. Thinned(new, sh) /\ StaysYoung(new, sh)
    BY <1>1, <1>2 DEF Thinned, StaysYoung, ShardRecord
  <1>4. QED
    BY <1>3 DEF new

LEMMA EmptyIsThinned ==
  ASSUME NEW sh
  PROVE  Thinned(EmptyShard, sh) /\ StaysYoung(EmptyShard, sh) /\ DOMAIN EmptyShard.items = {}
  <1>1. DOMAIN EmptyShard = {"items", "lru", "size"} /\ DOMAIN EmptyShard.items = {}
    BY DEF EmptyShard
  <1>2. QED
    BY <1>1 DEF Thinned, StaysYoung, ShardRecord

LEMMA LiveValue ==
  ASSUME NEW k \in Keys
  PROVE  LET sh == shards[ShardOf[k]] IN
         Live[k] = IF k \in DOMAIN sh.items /\ ~ sh.items[k].expired
                   THEN sh.items[k].value ELSE NoValue
  BY DEF Live, Cached, Expired

\* Shards that have been thinned have lost values, to callers, or none.
LEMMA ThinningLoses ==
  ASSUME ShardsInv, DOMAIN shards' = Shards,
         \A s \in Shards : Thinned(shards'[s], shards[s])
  PROVE  ShardsInv' /\ Abstract!MayLose({})
  <1>1. ShardsInv'
    BY DEF ShardsInv, ShardOK, Thinned, ShardRecord
  <1>2. ASSUME NEW k \in Keys
        PROVE  Live'[k] \in {Live[k], NoValue}
    <2>1. ShardOf[k] \in Shards
      BY ShardsAssumption
    <2>2. Thinned(shards'[ShardOf[k]], shards[ShardOf[k]])
      BY <2>1
    <2>3. Live'[k] = IF /\ k \in DOMAIN shards'[ShardOf[k]].items
                        /\ ~ shards'[ShardOf[k]].items[k].expired
                     THEN shards'[ShardOf[k]].items[k].value ELSE NoValue
      BY LiveValue DEF Live, Cached, Expired
    <2>4. QED
      BY <2>2, <2>3, LiveValue DEF Thinned
  <1>3. DOMAIN Live' = Keys
    BY DEF Live
  <1>4. QED
    BY <1>1, <1>2, <1>3 DEF Abstract!MayLose

\* While nobody begins to clear, what Clear has been through stays young.
LEMMA YoungStays ==
  ASSUME ClearInv, UNCHANGED clearing,
         \A s \in Shards : StaysYoung(shards'[s], shards[s])
  PROVE  ClearInv'
  BY DEF ClearInv, ClearForgets, StaysYoung, Cached

\* One shard is thinned, the others are left alone.
LEMMA OneShardThinned ==
  ASSUME ShardsInv, NEW s \in Shards, NEW new,
         shards' = [shards EXCEPT ![s] = new], Thinned(new, shards[s])
  PROVE  /\ ShardsInv' /\ Abstract!MayLose({})
         /\ StaysYoung(new, shards[s]) =>
              \A r \in Shards : StaysYoung(shards'[r], shards[r])
  <1>1. \A r \in Shards : ShardRecord(shards[r])
    BY DEF ShardsInv, ShardOK, ShardRecord
  <1>2. DOMAIN shards' = Shards
    BY DEF ShardsInv
  <1>3. \A r \in Shards : shards'[r] = IF r = s THEN new ELSE shards[r]
    BY DEF ShardsInv
  <1>4. \A r \in Shards : Thinned(shards'[r], shards[r])
    BY <1>1, <1>3, SameIsThinned
  <1>5. StaysYoung(new, shards[s]) => \A r \in Shards : StaysYoung(shards'[r], shards[r])
    BY <1>1, <1>3, SameIsThinned
  <1>6. QED
    BY <1>2, <1>4, <1>5, ThinningLoses

\* Shards that are left alone.
LEMMA ShardsFrame ==
  ASSUME ShardsInv, ClearInv, UNCHANGED <<shards, clearing>>
  PROVE  ShardsInv' /\ ClearInv' /\ UNCHANGED Live
  BY DEF ShardsInv, ShardOK, ClearInv, ClearForgets, Live

-----------------------------------------------------------------------------
(* The actions, each a step of LossyCache or a stutter                     *)

Maps == [Abstract!Next]_<<Live, Asked, got>>

LEMMA AskedValue ==
  ASSUME NEW c \in Callers
  PROVE  Asked[c] = IF op[c].do = "set"
                    THEN [do |-> "set", key |-> op[c].key, value |-> op[c].value]
                    ELSE op[c]
  BY DEF Asked

LEMMA IdleAsks == ASSUME NEW c \in Callers, op[c] = Idle PROVE Asked[c] = Abstract!Idle
  BY DEF Asked, Idle, Abstract!Idle

\* The call of one caller changes, those of the others stay.
LEMMA OneAsks ==
  ASSUME CallersInv, NEW c \in Callers, NEW o, op' = [op EXCEPT ![c] = o], NEW call,
         call = IF o.do = "set" THEN [do |-> "set", key |-> o.key, value |-> o.value] ELSE o
  PROVE  Asked' = [Asked EXCEPT ![c] = call]
  BY DEF CallersInv, Asked

LEMMA OpFrame == ASSUME UNCHANGED op PROVE UNCHANGED Asked
  BY DEF Asked

\* The call is over when the caller has nothing to do any more.
LEMMA CallEnds ==
  ASSUME CallersInv, NEW c \in Callers, op' = [op EXCEPT ![c] = Idle]
  PROVE  Abstract!Over(c)
  <1>1. Idle.do # "set" /\ Idle = Abstract!Idle
    BY DEF Idle, Abstract!Idle
  <1>2. QED
    BY <1>1, OneAsks DEF Abstract!Over

LEMMA InitHolds == ASSUME Init PROVE IInv /\ Abstract!Init
  <1>1. DOMAIN EmptyShard = {"items", "lru", "size"} /\ DOMAIN EmptyShard.items = {}
    BY DEF EmptyShard
  <1>2. \A s \in Shards : shards[s] = EmptyShard
    BY DEF Init
  <1>3. ShardsInv
    BY <1>1, <1>2 DEF Init, ShardsInv, ShardOK
  <1>4. ClearInv
    BY <1>1, <1>2, ShardsAssumption DEF Init, ClearInv, ClearForgets, Cached
  <1>5. Live = [k \in Keys |-> NoValue]
    <2>1. \A k \in Keys : ShardOf[k] \in Shards
      BY ShardsAssumption
    <2>2. QED
      BY <1>1, <1>2, <2>1 DEF Live, Cached, Expired
  <1>6. Asked = [c \in Callers |-> Abstract!Idle]
    BY DEF Init, Asked, Idle, Abstract!Idle
  <1>7. QED
    BY <1>3, <1>4, <1>5, <1>6 DEF IInv, CallersInv, Init, Operation, Abstract!Init

LEMMA BeginGetMaps ==
  ASSUME IInv, NEW c \in Callers, NEW k \in Keys, BeginGet(c, k)
  PROVE  IInv' /\ Maps
  <1>1. ShardsInv' /\ ClearInv' /\ UNCHANGED Live
    BY ShardsFrame DEF IInv, BeginGet
  <1>2. CallersInv'
    BY DEF IInv, CallersInv, BeginGet, Operation
  <1> DEFINE call == [do |-> "get", key |-> k]
  <1>3. Asked' = [Asked EXCEPT ![c] = call]
    BY OneAsks DEF IInv, BeginGet
  <1>4. Asked[c] = Abstract!Idle
    BY IdleAsks DEF BeginGet
  <1>5. Abstract!Ask(c, call)
    BY <1>1, <1>3, <1>4 DEF BeginGet, Abstract!Ask
  <1>6. QED
    BY <1>1, <1>2, <1>5 DEF IInv, Maps, Abstract!Next, Abstract!AskGet

LEMMA BeginSetMaps ==
  ASSUME IInv, NEW c \in Callers, NEW k \in Keys, NEW v \in Values, BeginSet(c, k, v)
  PROVE  IInv' /\ Maps
  <1>1. ShardsInv' /\ ClearInv' /\ UNCHANGED Live
    BY ShardsFrame DEF IInv, BeginSet
  <1>2. CallersInv'
    <2>1. StoredSize(v) \in Nat
      BY SizesAssumption DEF StoredSize
    <2>2. [do |-> "set", key |-> k, value |-> v, stored |-> StoredSize(v)] \in Operation
      BY <2>1 DEF Operation
    <2>3. QED
      BY <2>2 DEF IInv, CallersInv, BeginSet
  <1> DEFINE call == [do |-> "set", key |-> k, value |-> v]
  <1>3. Asked' = [Asked EXCEPT ![c] = call]
    <2> DEFINE o == [do |-> "set", key |-> k, value |-> v, stored |-> StoredSize(v)]
    <2>1. /\ op' = [op EXCEPT ![c] = o]
          /\ call = IF o.do = "set" THEN [do |-> "set", key |-> o.key, value |-> o.value]
                    ELSE o
      BY DEF BeginSet
    <2> HIDE DEF o, call
    <2>2. QED
      BY <2>1, OneAsks DEF IInv
  <1>4. Asked[c] = Abstract!Idle
    BY IdleAsks DEF BeginSet
  <1>5. Abstract!Ask(c, call)
    BY <1>1, <1>3, <1>4 DEF BeginSet, Abstract!Ask
  <1>6. QED
    BY <1>1, <1>2, <1>5 DEF IInv, Maps, Abstract!Next, Abstract!AskSet

\* A shard that has only been thinned loses values, or none.
LEMMA ThinningMaps ==
  ASSUME IInv, NEW s \in Shards, NEW new,
         shards' = [shards EXCEPT ![s] = new],
         Thinned(new, shards[s]), StaysYoung(new, shards[s]),
         UNCHANGED <<op, got, clearing>>
  PROVE  IInv' /\ Maps
  <1>1. ShardsInv' /\ Abstract!MayLose({}) /\ ClearInv'
    BY OneShardThinned, YoungStays DEF IInv
  <1>2. CallersInv'
    BY DEF IInv, CallersInv
  <1>3. Abstract!Lose
    BY <1>1, OpFrame DEF Abstract!Lose
  <1>4. QED
    BY <1>1, <1>2, <1>3 DEF IInv, Maps, Abstract!Next

LEMMA GetMaps ==
  ASSUME IInv, NEW c \in Callers, Get(c)
  PROVE  IInv' /\ Maps
  <1> DEFINE k == op[c].key
             s == ShardOf[k]
             sh == shards[s]
  <1>1. k \in Keys /\ s \in Shards
    BY ShardsAssumption DEF IInv, CallersInv, Operation, Idle, Get
  <1>2. ShardRecord(sh)
    BY <1>1 DEF IInv, ShardsInv, ShardOK, ShardRecord
  <1>3. CallersInv'
    BY DEF IInv, CallersInv, Operation, Get
  <1>4. \E new : /\ shards' = [shards EXCEPT ![s] = new]
                /\ Thinned(new, sh) /\ StaysYoung(new, sh)
    <2>1. CASE Hit(sh, k)
      <3> DEFINE new == [sh EXCEPT !.lru = ToFront(@, k)]
      <3>1. shards' = [shards EXCEPT ![s] = new]
        BY <2>1 DEF Get
      <3>2. DOMAIN new = {"items", "lru", "size"} /\ new.items = sh.items
        BY <1>2 DEF ShardRecord
      <3> HIDE DEF new
      <3>3. Thinned(new, sh) /\ StaysYoung(new, sh)
        BY <1>2, <3>2 DEF Thinned, StaysYoung, ShardRecord
      <3>4. QED
        BY <3>1, <3>3
    <2>2. CASE ~ Hit(sh, k)
      <3>1. shards' = [shards EXCEPT ![s] = Removed(sh, {k})]
        BY <2>2 DEF Get
      <3>2. QED
        BY <1>2, <3>1, RemovedThins
    <2>3. QED
      BY <2>1, <2>2
  <1>5. ShardsInv' /\ ClearInv' /\ Abstract!MayLose({})
    BY <1>1, <1>4, OneShardThinned, YoungStays DEF IInv, Get
  <1>6. \E v \in {Live[k], NoValue} : got' = [got EXCEPT ![c] = v]
    BY <1>1, LiveValue DEF Get, Hit, Cached
  <1>7. Abstract!Answer(c)
    <2>1. Asked[c].do = "get" /\ Asked[c].key = k
      BY AskedValue DEF Get
    <2>2. Abstract!Over(c)
      BY CallEnds DEF IInv, Get
    <2>3. QED
      BY <1>5, <1>6, <2>1, <2>2 DEF Abstract!Answer
  <1>8. QED
    BY <1>3, <1>5, <1>7 DEF IInv, Maps, Abstract!Next

LEMMA SetMaps ==
  ASSUME IInv, NEW c \in Callers, Set(c)
  PROVE  IInv' /\ Maps
  <1> DEFINE o == op[c]
             s == ShardOf[o.key]
             sh == shards[s]
             kept == IF o.key \in Cached(sh) THEN Removed(sh, {o.key})
                                            ELSE Evicted(sh, o.stored)
             entry == [value |-> o.value, stored |-> o.stored, expired |-> FALSE,
                       old |-> {}]
             new == Stored(sh, o)
  <1>1. o.key \in Keys /\ s \in Shards /\ entry \in Entry
    BY ShardsAssumption DEF IInv, CallersInv, Operation, Idle, Set, Entry
  <1>2. ShardRecord(sh) /\ DOMAIN sh.items \subseteq Own(s)
    BY <1>1 DEF IInv, ShardsInv, ShardOK, ShardRecord
  <1>3. Thinned(kept, sh) /\ StaysYoung(kept, sh)
    BY <1>2, RemovedThins DEF Evicted
  <1>4. /\ DOMAIN new = {"items", "lru", "size"}
        /\ new.items = [k \in Cached(kept) \cup {o.key} |->
                          IF k # o.key THEN kept.items[k] ELSE entry]
    BY DEF Stored
  <1> HIDE DEF kept, entry, new
  <1>5. /\ DOMAIN new.items = DOMAIN kept.items \cup {o.key}
        /\ new.items[o.key] = entry
        /\ \A k \in DOMAIN kept.items : k # o.key => new.items[k] = kept.items[k]
    BY <1>4 DEF Cached
  <1>6. shards' = [shards EXCEPT ![s] = new]
    BY DEF Set, new
  <1>7. /\ DOMAIN shards' = Shards /\ shards'[s] = new
        /\ \A r \in Shards \ {s} : shards'[r] = shards[r]
    BY <1>1, <1>6 DEF IInv, ShardsInv
  <1>8. ShardsInv'
    <2>1. o.key \in Own(s)
      BY <1>1 DEF Own
    <2>2. DOMAIN new.items \subseteq Own(s)
      BY <1>2, <1>3, <1>5, <2>1 DEF Thinned
    <2>3. \A k \in DOMAIN new.items : new.items[k] \in Entry
      BY <1>1, <1>3, <1>5 DEF Thinned, ShardRecord
    <2>4. QED
      BY <1>4, <1>7, <2>2, <2>3 DEF IInv, ShardsInv, ShardOK
  <1>9. ClearInv'
    <2>1. entry.old = {}
      BY DEF entry
    <2>2. StaysYoung(new, sh)
      BY <1>3, <1>5, <2>1 DEF StaysYoung, Thinned
    <2>3. \A r \in Shards : StaysYoung(shards'[r], shards[r])
      BY <1>7, <2>2 DEF StaysYoung
    <2>4. QED
      BY <2>3, YoungStays DEF IInv, Set
  <1>10. CallersInv'
    BY DEF IInv, CallersInv, Operation, Set
  <1>11. Abstract!Put(c)
    <2>1. \A k \in Keys :
            Live'[k] = IF /\ k \in DOMAIN shards'[ShardOf[k]].items
                          /\ ~ shards'[ShardOf[k]].items[k].expired
                       THEN shards'[ShardOf[k]].items[k].value ELSE NoValue
      BY DEF Live, Cached, Expired
    <2>2. Live'[o.key] = o.value
      <3>1. entry.value = o.value /\ ~ entry.expired
        BY DEF entry
      <3>2. QED
        BY <1>1, <1>5, <1>7, <2>1, <3>1
    <2>3. ASSUME NEW k \in Keys \ {o.key}
          PROVE  Live'[k] \in {Live[k], NoValue}
      <3>1. CASE ShardOf[k] = s
        <4>1. k \in DOMAIN new.items =>
                /\ k \in DOMAIN sh.items
                /\ new.items[k].value = sh.items[k].value
                /\ sh.items[k].expired => new.items[k].expired
          BY <1>3, <1>5 DEF Thinned
        <4>2. QED
          BY <1>7, <2>1, <3>1, <4>1, LiveValue
      <3>2. CASE ShardOf[k] # s
        <4>1. ShardOf[k] \in Shards
          BY ShardsAssumption
        <4>2. QED
          BY <1>7, <2>1, <3>2, <4>1, LiveValue
      <3>3. QED
        BY <3>1, <3>2
    <2>4. DOMAIN Live' = Keys /\ UNCHANGED got
      BY DEF Live, Set
    <2>5. Asked[c].do = "set" /\ Asked[c].key = o.key /\ Asked[c].value = o.value
      <3>1. Asked[c] = [do |-> "set", key |-> o.key, value |-> o.value]
        BY AskedValue DEF Set
      <3>2. QED
        BY <3>1
    <2>6. Abstract!Over(c)
      BY CallEnds DEF IInv, Set
    <2>7. QED
      BY <2>2, <2>3, <2>4, <2>5, <2>6 DEF Abstract!Put, Abstract!MayLose
  <1>12. QED
    BY <1>1, <1>8, <1>9, <1>10, <1>11 DEF IInv, Maps, Abstract!Next

LEMMA DeleteMaps ==
  ASSUME IInv, NEW k \in Keys, Delete(k)
  PROVE  IInv' /\ Maps
  <1> DEFINE s == ShardOf[k]
  <1>1. s \in Shards
    BY ShardsAssumption
  <1>2. ShardRecord(shards[s])
    BY <1>1 DEF IInv, ShardsInv, ShardOK, ShardRecord
  <1>3. shards' = [shards EXCEPT ![s] = Removed(shards[s], {k})]
    BY DEF Delete
  <1>4. QED
    BY <1>1, <1>2, <1>3, RemovedThins, ThinningMaps DEF Delete

LEMMA ExpireMaps ==
  ASSUME IInv, NEW k \in Keys, Expire(k)
  PROVE  IInv' /\ Maps
  <1> DEFINE s == ShardOf[k]
             sh == shards[s]
             new == [sh EXCEPT !.items[k].expired = TRUE]
  <1>1. s \in Shards /\ k \in DOMAIN sh.items
    BY ShardsAssumption DEF Expire, Cached
  <1>2. ShardRecord(sh)
    BY <1>1 DEF IInv, ShardsInv, ShardOK, ShardRecord
  <1>3. shards' = [shards EXCEPT ![s] = new]
    BY DEF Expire
  <1>4. /\ DOMAIN new = {"items", "lru", "size"}
        /\ new.items = [sh.items EXCEPT ![k] = [sh.items[k] EXCEPT !.expired = TRUE]]
    BY <1>2 DEF ShardRecord
  <1>5. /\ DOMAIN new.items = DOMAIN sh.items
        /\ new.items[k] = [sh.items[k] EXCEPT !.expired = TRUE]
        /\ \A m \in DOMAIN sh.items \ {k} : new.items[m] = sh.items[m]
    BY <1>1, <1>4
  <1>6. sh.items[k] \in Entry
    BY <1>1, <1>2 DEF ShardRecord
  <1>7. [sh.items[k] EXCEPT !.expired = TRUE] \in Entry
    BY <1>6 DEF Entry
  <1>8. /\ [sh.items[k] EXCEPT !.expired = TRUE].value = sh.items[k].value
        /\ [sh.items[k] EXCEPT !.expired = TRUE].old = sh.items[k].old
        /\ [sh.items[k] EXCEPT !.expired = TRUE].expired
    BY <1>6 DEF Entry
  <1> HIDE DEF new
  <1>9. Thinned(new, sh) /\ StaysYoung(new, sh)
    BY <1>2, <1>4, <1>5, <1>7, <1>8 DEF Thinned, StaysYoung, ShardRecord
  <1>10. QED
    BY <1>1, <1>3, <1>9, ThinningMaps DEF Expire

\* The entries of the other shards become old, all of the first are gone.
LEMMA BeginClearMaps ==
  ASSUME IInv, NEW a \in Clearers, BeginClear(a)
  PROVE  IInv' /\ Maps
  <1>1. 1 \in Shards
    BY ShardsAssumption DEF Shards
  <1>2. /\ DOMAIN shards' = Shards
        /\ shards'[1] = EmptyShard
        /\ \A s \in Shards \ {1} :
             shards'[s] = [shards[s] EXCEPT !.items =
                             [k \in DOMAIN @ |-> Aged(@[k], a)]]
    BY <1>1 DEF BeginClear, Cleared
  <1>3. ASSUME NEW s \in Shards \ {1}
        PROVE  /\ Thinned(shards'[s], shards[s])
               /\ \A k \in DOMAIN shards'[s].items :
                    /\ k \in DOMAIN shards[s].items
                    /\ shards'[s].items[k].old = shards[s].items[k].old \cup {a}
    <2> DEFINE sh == shards[s]
               aged == [k \in DOMAIN sh.items |-> Aged(sh.items[k], a)]
    <2>1. DOMAIN sh = {"items", "lru", "size"}
          /\ \A k \in DOMAIN sh.items : sh.items[k] \in Entry
      BY DEF IInv, ShardsInv, ShardOK
    <2>2. shards'[s] = [sh EXCEPT !.items = aged]
      BY <1>2
    <2>3. /\ DOMAIN shards'[s] = {"items", "lru", "size"}
          /\ shards'[s].items = aged
      BY <2>1, <2>2
    <2>4. \A k \in DOMAIN sh.items :
            /\ aged[k] \in Entry
            /\ aged[k].value = sh.items[k].value
            /\ aged[k].expired = sh.items[k].expired
            /\ aged[k].old = sh.items[k].old \cup {a}
      BY <2>1 DEF Entry, Aged
    <2>5. DOMAIN aged = DOMAIN sh.items
      OBVIOUS
    <2> HIDE DEF aged
    <2>6. QED
      BY <2>3, <2>4, <2>5 DEF Thinned, ShardRecord
  <1>4. Thinned(shards'[1], shards[1])
    BY <1>2, EmptyIsThinned
  <1>5. ShardsInv' /\ Abstract!MayLose({})
    BY <1>2, <1>3, <1>4, ThinningLoses DEF IInv
  <1>6. ClearInv'
    <2>1. clearing' = [clearing EXCEPT ![a] = IF 1 = NumShards THEN 0 ELSE 2]
      BY DEF BeginClear, AfterShard
    <2>2. clearing \in [Clearers -> 0 .. NumShards]
      BY DEF IInv, ClearInv
    <2>3. clearing' \in [Clearers -> 0 .. NumShards]
      BY <2>1, <2>2, ShardsAssumption
    <2>4. DOMAIN shards'[1].items = {}
      BY <1>2, EmptyIsThinned
    <2>5. ASSUME NEW b \in Clearers, NEW s \in Shards, clearing'[b] = 0 \/ s < clearing'[b],
                 NEW k \in DOMAIN shards'[s].items
          PROVE  b \notin shards'[s].items[k].old
      <3>1. s # 1
        BY <2>4, <2>5
      <3>2. b # a
        <4>1. b = a => clearing'[b] = IF 1 = NumShards THEN 0 ELSE 2
          BY <2>1, <2>2
        <4>2. QED
          BY <2>5, <3>1, <4>1, ShardsAssumption DEF Shards
      <3>3. clearing[b] = 0 \/ s < clearing[b]
        BY <2>1, <2>2, <2>5, <3>2
      <3>4. /\ k \in DOMAIN shards[s].items
            /\ shards'[s].items[k].old = shards[s].items[k].old \cup {a}
        BY <1>3, <3>1
      <3>5. b \notin shards[s].items[k].old
        BY <3>3, <3>4 DEF IInv, ClearInv, ClearForgets, Cached
      <3>6. QED
        BY <3>2, <3>4, <3>5
    <2>6. QED
      BY <2>3, <2>5 DEF ClearInv, ClearForgets, Cached
  <1>7. CallersInv' /\ Abstract!Lose
    BY <1>5, OpFrame DEF IInv, CallersInv, BeginClear, Abstract!Lose
  <1>8. QED
    BY <1>5, <1>6, <1>7 DEF IInv, Maps, Abstract!Next

\* Clear has been through one shard more, and that one is empty.
LEMMA ClearMaps ==
  ASSUME IInv, NEW a \in Clearers, Clear(a)
  PROVE  IInv' /\ Maps
  <1> DEFINE r == clearing[a]
  <1>1. clearing \in [Clearers -> 0 .. NumShards] /\ r \in Shards
    BY DEF IInv, ClearInv, Clear, Shards
  <1>2. shards' = [shards EXCEPT ![r] = EmptyShard]
    BY DEF Clear, Cleared
  <1>3. /\ ShardsInv' /\ Abstract!MayLose({})
        /\ \A s \in Shards : StaysYoung(shards'[s], shards[s])
    BY <1>1, <1>2, EmptyIsThinned, OneShardThinned DEF IInv
  <1>4. ClearInv'
    <2>1. clearing' = [clearing EXCEPT ![a] = IF r = NumShards THEN 0 ELSE r + 1]
      BY DEF Clear, AfterShard
    <2>2. clearing' \in [Clearers -> 0 .. NumShards]
      BY <1>1, <2>1, ShardsAssumption DEF Shards
    <2>3. DOMAIN shards'[r].items = {}
      BY <1>1, <1>2, EmptyIsThinned DEF IInv, ShardsInv
    <2>4. ASSUME NEW b \in Clearers, NEW s \in Shards, clearing'[b] = 0 \/ s < clearing'[b],
                 s # r
          PROVE  clearing[b] = 0 \/ s < clearing[b]
      <3>1. CASE b = a
        BY <1>1, <2>1, <2>4, <3>1, ShardsAssumption DEF Shards
      <3>2. CASE b # a
        BY <1>1, <2>1, <2>4, <3>2
      <3>3. QED
        BY <3>1, <3>2
    <2>5. ASSUME NEW b \in Clearers, NEW s \in Shards, clearing[b] = 0 \/ s < clearing[b]
          PROVE  \A k \in DOMAIN shards'[s].items : b \notin shards'[s].items[k].old
      BY <1>3, <2>5 DEF StaysYoung, IInv, ClearInv, ClearForgets, Cached
    <2>6. QED
      BY <2>2, <2>3, <2>4, <2>5 DEF ClearInv, ClearForgets, Cached
  <1>5. CallersInv' /\ Abstract!Lose
    BY <1>3, OpFrame DEF IInv, CallersInv, Clear, Abstract!Lose
  <1>6. QED
    BY <1>3, <1>4, <1>5 DEF IInv, Maps, Abstract!Next

LEMMA CleanupShardMaps ==
  ASSUME IInv, CleanupShard
  PROVE  IInv' /\ Maps
  <1>1. shards' = [shards EXCEPT ![sweeping] = Removed(shards[sweeping], Expired(shards[sweeping]))]
    BY DEF CleanupShard
  <1>2. CASE sweeping \in Shards
    <2>1. ShardRecord(shards[sweeping])
      BY <1>2 DEF IInv, ShardsInv, ShardOK, ShardRecord
    <2>2. QED
      BY <1>1, <1>2, <2>1, RemovedThins, ThinningMaps DEF CleanupShard
  <1>3. CASE sweeping \notin Shards
    <2>1. DOMAIN shards' = Shards /\ \A s \in Shards : shards'[s] = shards[s]
      BY <1>1, <1>3 DEF IInv, ShardsInv
    <2>2. \A s \in Shards : Thinned(shards'[s], shards[s]) /\ StaysYoung(shards'[s], shards[s])
      BY <2>1, SameIsThinned DEF IInv, ShardsInv, ShardOK, ShardRecord
    <2>3. ShardsInv' /\ Abstract!MayLose({}) /\ ClearInv'
      BY <2>1, <2>2, ThinningLoses, YoungStays DEF IInv, CleanupShard
    <2>4. CallersInv' /\ Abstract!Lose
      BY <2>3, OpFrame DEF IInv, CallersInv, CleanupShard, Abstract!Lose
    <2>5. QED
      BY <2>3, <2>4 DEF IInv, Maps, Abstract!Next
  <1>4. QED
    BY <1>2, <1>3

LEMMA OthersStutter ==
  ASSUME IInv, UNCHANGED <<shards, op, got, clearing>>
  PROVE  IInv' /\ Maps
  BY ShardsFrame, OpFrame DEF IInv, CallersInv, Maps

LEMMA NextMaps == ASSUME IInv, [Next]_vars PROVE IInv' /\ Maps
  <1>1. CASE SetEnabled \/ UpdateConfig \/ Stop \/ UNCHANGED vars
    BY <1>1, OthersStutter DEF SetEnabled, UpdateConfig, Stop, vars
  <1>2. QED
    BY <1>1, BeginGetMaps, BeginSetMaps, GetMaps, SetMaps, DeleteMaps, ExpireMaps,
       BeginClearMaps, ClearMaps, CleanupShardMaps
    DEF Next, Step

-----------------------------------------------------------------------------
(* Lists                                                                   *)

\* No key is twice in a list.
Distinct(list) == \A i, j \in DOMAIN list : list[i] = list[j] => i = j

\* As many as there are in a set of numbers, each in its place.
Below(S, i) == {j \in S : j <= i}

LEMMA PlacesAreFilled ==
  ASSUME NEW S \in SUBSET Nat, IsFiniteSet(S)
  PROVE  /\ Cardinality(S) \in Nat
         /\ \A i, j \in S : Cardinality(Below(S, i)) = Cardinality(Below(S, j)) => i = j
         /\ \A n \in 1 .. Cardinality(S) : \E i \in S : Cardinality(Below(S, i)) = n
  <1> DEFINE f == [i \in S |-> Cardinality(Below(S, i))]
             places == 1 .. Cardinality(S)
  <1>1. Cardinality(S) \in Nat
    BY FS_CardinalityType
  <1>2. ASSUME NEW i \in S
        PROVE  /\ IsFiniteSet(Below(S, i))
               /\ Cardinality(Below(S, i)) \in places
    <2>1. /\ IsFiniteSet(Below(S, i)) /\ Below(S, i) \in SUBSET S
          /\ Cardinality(Below(S, i)) <= Cardinality(S)
      BY FS_Subset DEF Below
    <2>2. Below(S, i) # {}
      BY DEF Below
    <2>3. Cardinality(Below(S, i)) \in Nat /\ Cardinality(Below(S, i)) # 0
      BY <2>1, <2>2, FS_CardinalityType, FS_EmptySet
    <2>4. QED
      BY <1>1, <2>1, <2>3
  <1>3. ASSUME NEW i \in S, NEW j \in S, i < j
        PROVE  Cardinality(Below(S, i)) # Cardinality(Below(S, j))
    <2>1. Below(S, i) \in SUBSET Below(S, j)
      <3>1. ASSUME NEW x \in S, x <= i
            PROVE  x <= j
        <4>1. x \in Nat /\ i \in Nat /\ j \in Nat
          OBVIOUS
        <4>2. QED
          BY <1>3, <3>1, <4>1
      <3>2. QED
        BY <3>1 DEF Below
    <2>2. j \in Below(S, j) /\ j \notin Below(S, i)
      BY <1>3 DEF Below
    <2>3. QED
      BY <1>2, <2>1, <2>2, FS_Subset
  <1>4. \A i, j \in S : f[i] = f[j] => i = j
    BY <1>3
  <1>5. f \in Injection(S, places)
    BY <1>2, <1>4 DEF Injection, IsInjective
  <1>6. IsFiniteSet(places) /\ Cardinality(places) = Cardinality(S)
    BY <1>1, FS_Interval
  <1>7. f \in Surjection(S, places)
    BY <1>5, <1>6, FS_Injection
  <1>8. \A n \in places : \E i \in S : f[i] = n
    BY <1>7 DEF Surjection
  <1>9. QED
    BY <1>1, <1>4, <1>8

Kept(list, gone) == {i \in DOMAIN list : list[i] \notin gone}

\* Where the n-th of the keys that are kept was.
Nth(list, gone, n) ==
  CHOOSE i \in Kept(list, gone) : Cardinality(Below(Kept(list, gone), i)) = n

LEMMA WithoutUnfolds ==
  ASSUME NEW list, NEW gone
  PROVE  Without(list, gone) =
           [n \in 1 .. Cardinality(Kept(list, gone)) |-> list[Nth(list, gone, n)]]
  BY DEF Without, Kept, Nth, Below

\* What is left of a list is the rest of its keys, each once.
LEMMA WithoutKeeps ==
  ASSUME NEW S, NEW list \in Seq(S), Distinct(list), NEW gone
  PROVE  LET rest == Without(list, gone) IN
         /\ rest \in Seq(S) /\ Distinct(rest)
         /\ Len(rest) = Cardinality(Kept(list, gone))
         /\ Len(rest) <= Len(list)
         /\ ToSet(rest) = ToSet(list) \ gone
  <1> DEFINE kept == Kept(list, gone)
             N == Cardinality(kept)
             At(n) == Nth(list, gone, n)
             rest == Without(list, gone)
  <1>1. DOMAIN list = 1 .. Len(list) /\ Len(list) \in Nat
    OBVIOUS
  <1>2. /\ kept \in SUBSET (1 .. Len(list)) /\ kept \in SUBSET Nat
        /\ \A i \in kept : list[i] \in S
    BY <1>1 DEF Kept
  <1>3. IsFiniteSet(kept) /\ N <= Len(list)
    <2>1. IsFiniteSet(1 .. Len(list)) /\ Cardinality(1 .. Len(list)) = Len(list)
      BY <1>1, FS_Interval
    <2>2. QED
      BY <1>2, <2>1, FS_Subset
  <1>4. N \in Nat
    BY <1>2, <1>3, PlacesAreFilled
  <1>5. \A n \in 1 .. N : At(n) \in kept /\ Cardinality(Below(kept, At(n))) = n
    BY <1>2, <1>3, PlacesAreFilled DEF Nth
  <1>6. \A i \in kept : \E n \in 1 .. N : At(n) = i
    <2> SUFFICES ASSUME NEW i \in kept
                 PROVE  \E n \in 1 .. N : At(n) = i
      OBVIOUS
    <2> DEFINE n == Cardinality(Below(kept, i))
    <2>1. Below(kept, i) \in SUBSET kept /\ i \in Below(kept, i)
      BY <1>2 DEF Below
    <2>2. n \in Nat /\ n <= N /\ n # 0
      BY <1>3, <2>1, FS_Subset, FS_CardinalityType, FS_EmptySet
    <2>3. n \in 1 .. N
      BY <1>4, <2>2
    <2>4. At(n) = i
      BY <1>2, <1>3, <1>5, <2>3, PlacesAreFilled
    <2>5. QED
      BY <2>3, <2>4
  <1>7. rest = [n \in 1 .. N |-> list[At(n)]]
    BY WithoutUnfolds
  <1> HIDE DEF rest, At, kept
  <1>8. DOMAIN rest = 1 .. N /\ \A n \in 1 .. N : rest[n] = list[At(n)]
    BY <1>7
  <1>9. rest \in Seq(S) /\ Len(rest) = N
    <2>1. \A n \in 1 .. N : list[At(n)] \in S
      BY <1>2, <1>5
    <2> HIDE DEF N
    <2>2. QED
      BY <1>4, <1>7, <2>1
  <1>10. Distinct(rest)
    <2> SUFFICES ASSUME NEW m \in 1 .. N, NEW n \in 1 .. N, list[At(m)] = list[At(n)]
                 PROVE  m = n
      BY <1>8 DEF Distinct
    <2>1. At(m) = At(n)
      BY <1>1, <1>2, <1>5 DEF Distinct
    <2>2. QED
      BY <1>5, <2>1
  <1>11. ToSet(rest) = ToSet(list) \ gone
    <2>1. ToSet(rest) = {list[i] : i \in kept}
      BY <1>5, <1>6, <1>8 DEF ToSet
    <2>2. {list[i] : i \in kept} = ToSet(list) \ gone
      BY DEF ToSet, kept, Kept
    <2>3. QED
      BY <2>1, <2>2
  <1>12. QED
    BY <1>3, <1>9, <1>10, <1>11 DEF rest, kept

\* A list has as many keys as places.
LEMMA ListsCount ==
  ASSUME NEW S, NEW list \in Seq(S), Distinct(list)
  PROVE  IsFiniteSet(ToSet(list)) /\ Cardinality(ToSet(list)) = Len(list)
  <1>1. DOMAIN list = 1 .. Len(list) /\ Len(list) \in Nat
    OBVIOUS
  <1>2. list \in Bijection(1 .. Len(list), ToSet(list))
    BY <1>1 DEF Bijection, Injection, Surjection, IsInjective, Distinct, ToSet
  <1>3. IsFiniteSet(1 .. Len(list)) /\ Cardinality(1 .. Len(list)) = Len(list)
    BY <1>1, FS_Interval
  <1>4. ExistsBijection(1 .. Len(list), ToSet(list))
    BY <1>2 DEF ExistsBijection
  <1>5. QED
    BY <1>3, <1>4, FS_Bijection

\* The keys behind the n first: as many as n stay without them.
LEMMA BackGoes ==
  ASSUME NEW S, NEW list \in Seq(S), Distinct(list), NEW n \in 0 .. Len(list)
  PROVE  LET back == ToSet(SubSeq(list, n + 1, Len(list))) IN
         back \subseteq ToSet(list) /\ Len(Without(list, back)) = n
  <1> DEFINE back == ToSet(SubSeq(list, n + 1, Len(list)))
  <1>1. DOMAIN list = 1 .. Len(list) /\ Len(list) \in Nat /\ n \in Nat /\ n <= Len(list)
    OBVIOUS
  <1>2. back = {list[i] : i \in (n + 1) .. Len(list)}
    <2> DEFINE sub == SubSeq(list, n + 1, Len(list))
    <2>1. DOMAIN sub = 1 .. (Len(list) - n) /\ \A i \in DOMAIN sub : sub[i] = list[n + i]
      BY <1>1
    <2>2. \A i \in (n + 1) .. Len(list) : i - n \in DOMAIN sub /\ sub[i - n] = list[i]
      BY <1>1, <2>1
    <2>3. \A i \in DOMAIN sub : n + i \in (n + 1) .. Len(list)
      BY <1>1, <2>1
    <2> HIDE DEF sub
    <2>4. \A k \in ToSet(sub) : \E i \in (n + 1) .. Len(list) : k = list[i]
      BY <2>1, <2>3 DEF ToSet
    <2>5. \A i \in (n + 1) .. Len(list) : list[i] \in ToSet(sub)
      BY <2>2 DEF ToSet
    <2>6. ToSet(sub) = {list[i] : i \in (n + 1) .. Len(list)}
      BY <2>4, <2>5
    <2>7. QED
      BY <2>6 DEF sub
  <1> HIDE DEF back
  <1>3. Kept(list, back) = 1 .. n
    BY <1>1, <1>2 DEF Kept, Distinct
  <1>4. Cardinality(1 .. n) = n
    BY <1>1, FS_Interval
  <1>5. back \subseteq ToSet(list)
    BY <1>1, <1>2 DEF ToSet
  <1>6. QED
    BY <1>3, <1>4, <1>5, WithoutKeeps DEF back

\* A key that was not in the list comes to its front.
LEMMA FrontGrows ==
  ASSUME NEW S, NEW list \in Seq(S), Distinct(list), NEW k \in S, k \notin ToSet(list)
  PROVE  LET new == <<k>> \o list IN
         /\ new \in Seq(S) /\ Distinct(new)
         /\ Len(new) = Len(list) + 1
         /\ ToSet(new) = ToSet(list) \cup {k}
  <1> DEFINE new == <<k>> \o list
  <1>1. DOMAIN list = 1 .. Len(list) /\ Len(list) \in Nat
    OBVIOUS
  <1>2. /\ new \in Seq(S) /\ Len(new) = Len(list) + 1
        /\ DOMAIN new = 1 .. (Len(list) + 1)
        /\ new[1] = k
        /\ \A i \in 2 .. (Len(list) + 1) : new[i] = list[i - 1]
        /\ \A i \in 1 .. Len(list) : new[i + 1] = list[i]
    OBVIOUS
  <1> HIDE DEF new
  <1>3. \A i \in 2 .. (Len(list) + 1) : i - 1 \in DOMAIN list /\ new[i] # k
    BY <1>1, <1>2 DEF ToSet
  <1>4. Distinct(new)
    <2> SUFFICES ASSUME NEW i \in 1 .. (Len(list) + 1), NEW j \in 1 .. (Len(list) + 1),
                        new[i] = new[j], i # 1
                 PROVE  i = j
      BY <1>2 DEF Distinct
    <2>1. i \in 2 .. (Len(list) + 1) /\ j \in 2 .. (Len(list) + 1)
      BY <1>1, <1>2, <1>3
    <2>2. list[i - 1] = list[j - 1] /\ i - 1 \in DOMAIN list /\ j - 1 \in DOMAIN list
      BY <1>2, <1>3, <2>1
    <2>3. QED
      BY <1>1, <2>1, <2>2 DEF Distinct
  <1>5. ToSet(new) = ToSet(list) \cup {k}
    BY <1>1, <1>2, <1>3 DEF ToSet
  <1>6. QED
    BY <1>2, <1>4, <1>5 DEF new

-----------------------------------------------------------------------------
(* Sums: induction is by the smallest size of a set that fails             *)

\* A non-empty set of naturals has a smallest member.
LEMMA SmallestExists ==
  ASSUME NEW S \in SUBSET Nat, S # {}
  PROVE  \E m \in S : \A n \in S : m <= n
  <1> DEFINE R == OpToRel(<, Nat)
  <1>1. PICK m \in S : \A n \in S : ~ (<<n, m>> \in R)
    <2>1. IsWellFoundedOn(R, Nat)
      BY NatLessThanWellFounded
    <2> HIDE DEF R
    <2> QED
      BY <2>1, WFMin
  <1>2. ASSUME NEW n \in S
        PROVE  m <= n
    <2>1. <<n, m>> \in R <=> n < m
      BY DEF OpToRel
    <2> HIDE DEF R
    <2>2. ~ (n < m)
      BY <1>1, <2>1
    <2>3. QED
      BY <2>2
  <1>3. QED
    BY <1>2

\* The member of s that a sum takes first.
One(s) == CHOOSE x \in s : TRUE

\* What a sum is, given the sums g of smaller sets.
SumFrom(f, s, g) == IF s = {} THEN 0 ELSE f[One(s)].stored + g[s \ {One(s)}]

\* g has the sums of the subsets of S.
Solves(g, f, S) == \A s \in SUBSET S : g[s] = SumFrom(f, s, g)

LEMMA OneIsMember == ASSUME NEW s, s # {} PROVE One(s) \in s
  BY DEF One

LEMMA OneLess ==
  ASSUME NEW s, IsFiniteSet(s), NEW x \in s
  PROVE  /\ IsFiniteSet(s \ {x})
         /\ Cardinality(s) \in Nat /\ Cardinality(s \ {x}) = Cardinality(s) - 1
         /\ Cardinality(s) > 0
  <1>1. IsFiniteSet(s \ {x}) /\ Cardinality(s \ {x}) = Cardinality(s) - 1
    BY FS_RemoveElement
  <1>2. Cardinality(s) \in Nat /\ Cardinality(s \ {x}) \in Nat
    BY <1>1, FS_CardinalityType
  <1>3. QED
    BY <1>1, <1>2

LEMMA StoredInUnfolds ==
  ASSUME NEW f, NEW S
  PROVE  StoredIn(f, S) = (CHOOSE g : g = [s \in SUBSET S |-> SumFrom(f, s, g)])[S]
  BY DEF StoredIn, MapThenSumSet, MapThenFoldSet, One, SumFrom

\* The recursion has a solution on the subsets of a finite set.
LEMMA SumsExist ==
  ASSUME NEW f, NEW S, IsFiniteSet(S)
  PROVE  \E g : g = [s \in SUBSET S |-> SumFrom(f, s, g)] /\ Solves(g, f, S)
  <1> DEFINE UpTo(n) == {s \in SUBSET S : Cardinality(s) <= n}
             Solved(n) == \E g : DOMAIN g = UpTo(n) /\ \A s \in UpTo(n) : g[s] = SumFrom(f, s, g)
             Bad == {n \in Nat : ~ Solved(n)}
  <1>1. \A s \in SUBSET S : IsFiniteSet(s) /\ Cardinality(s) \in Nat
    BY FS_Subset, FS_CardinalityType
  <1>2. Solved(0)
    <2> DEFINE g == [s \in UpTo(0) |-> 0]
    <2>1. \A s \in UpTo(0) : s = {}
      BY <1>1, FS_EmptySet
    <2>2. \A s \in UpTo(0) : g[s] = SumFrom(f, s, g)
      BY <2>1 DEF SumFrom
    <2>3. DOMAIN g = UpTo(0)
      OBVIOUS
    <2> HIDE DEF g, UpTo
    <2>4. QED
      BY <2>2, <2>3
  <1>3. ASSUME NEW n \in Nat, Solved(n)
        PROVE  Solved(n + 1)
    <2>1. PICK g : DOMAIN g = UpTo(n) /\ \A s \in UpTo(n) : g[s] = SumFrom(f, s, g)
      BY <1>3
    <2> DEFINE h == [s \in UpTo(n + 1) |-> SumFrom(f, s, g)]
    <2>2. ASSUME NEW s \in UpTo(n + 1)
          PROVE  h[s] = SumFrom(f, s, h)
      <3>1. CASE s = {}
        BY <3>1 DEF SumFrom
      <3>2. CASE s # {}
        <4> DEFINE t == s \ {One(s)}
        <4>1. t \in UpTo(n) /\ t \in UpTo(n + 1)
          BY <1>1, <3>2, OneIsMember, OneLess
        <4>2. h[t] = g[t]
          BY <2>1, <4>1
        <4>3. SumFrom(f, s, h) = SumFrom(f, s, g)
          BY <3>2, <4>2 DEF SumFrom
        <4>4. QED
          BY <4>3
      <3>3. QED
        BY <3>1, <3>2
    <2>3. DOMAIN h = UpTo(n + 1)
      OBVIOUS
    <2> HIDE DEF h, UpTo
    <2>4. QED
      BY <2>2, <2>3
  <1> HIDE DEF Solved
  <1>4. Bad = {}
    <2> SUFFICES ASSUME Bad # {}
                 PROVE  FALSE
      OBVIOUS
    <2>1. PICK m \in Bad : \A n \in Bad : m <= n
      BY SmallestExists
    <2>2. m # 0 /\ m - 1 \in Nat
      BY <1>2
    <2>3. m - 1 \notin Bad
      BY <2>1, <2>2
    <2>4. Solved((m - 1) + 1)
      BY <1>3, <2>2, <2>3
    <2>5. (m - 1) + 1 = m
      OBVIOUS
    <2>6. QED
      BY <2>4, <2>5
  <1>5. Solved(Cardinality(S))
    BY <1>1, <1>4
  <1>6. UpTo(Cardinality(S)) = SUBSET S
    BY FS_Subset
  <1>7. PICK g : \A s \in SUBSET S : g[s] = SumFrom(f, s, g)
    BY <1>5, <1>6 DEF Solved
  <1> DEFINE h == [s \in SUBSET S |-> g[s]]
  <1>8. ASSUME NEW s \in SUBSET S
        PROVE  h[s] = SumFrom(f, s, h)
    BY <1>7 DEF SumFrom
  <1>9. h = [s \in SUBSET S |-> SumFrom(f, s, h)]
    BY <1>8
  <1>10. Solves(h, f, S)
    BY <1>8 DEF Solves
  <1>11. QED
    BY <1>9, <1>10

\* The recursion has one solution.
LEMMA SumsAgree ==
  ASSUME NEW f, NEW T, IsFiniteSet(T), NEW g, NEW h,
         Solves(g, f, T), Solves(h, f, T)
  PROVE  \A s \in SUBSET T : g[s] = h[s]
  <1> DEFINE Bad == {n \in Nat : \E s \in SUBSET T : Cardinality(s) = n /\ g[s] # h[s]}
  <1>1. \A s \in SUBSET T : IsFiniteSet(s) /\ Cardinality(s) \in Nat
    BY FS_Subset, FS_CardinalityType
  <1> SUFFICES ASSUME Bad # {}
               PROVE  FALSE
    BY <1>1
  <1>2. PICK m \in Bad : \A n \in Bad : m <= n
    BY SmallestExists
  <1>3. PICK s \in SUBSET T : Cardinality(s) = m /\ g[s] # h[s]
    BY <1>2
  <1>4. s # {}
    BY <1>3 DEF SumFrom, Solves
  <1> DEFINE t == s \ {One(s)}
  <1>5. t \in SUBSET T /\ Cardinality(t) = m - 1 /\ m - 1 \in Nat
    BY <1>1, <1>3, <1>4, OneIsMember, OneLess
  <1>6. m - 1 \notin Bad
    BY <1>2, <1>5
  <1>7. g[t] = h[t]
    BY <1>5, <1>6
  <1>8. QED
    BY <1>3, <1>4, <1>7 DEF SumFrom, Solves

\* Any solution on a set tells the sums of its subsets.
LEMMA SolutionIsSum ==
  ASSUME NEW f, NEW S, IsFiniteSet(S), NEW g, Solves(g, f, S), NEW T \in SUBSET S
  PROVE  StoredIn(f, T) = g[T]
  <1>1. IsFiniteSet(T)
    BY FS_Subset
  <1> DEFINE h == CHOOSE c : c = [s \in SUBSET T |-> SumFrom(f, s, c)]
  <1>2. h = [s \in SUBSET T |-> SumFrom(f, s, h)]
    BY <1>1, SumsExist
  <1>3. StoredIn(f, T) = h[T]
    BY StoredInUnfolds
  <1> HIDE DEF h
  <1>4. Solves(h, f, T)
    BY <1>2 DEF Solves
  <1>5. Solves(g, f, T)
    BY DEF Solves
  <1>6. \A s \in SUBSET T : g[s] = h[s]
    BY <1>1, <1>4, <1>5, SumsAgree
  <1>7. QED
    BY <1>3, <1>6

\* A sum takes its first member, and then the rest.
LEMMA SumStep ==
  ASSUME NEW f, NEW S, IsFiniteSet(S)
  PROVE  /\ S = {} => StoredIn(f, S) = 0
         /\ S # {} => StoredIn(f, S) = f[One(S)].stored + StoredIn(f, S \ {One(S)})
  <1>1. PICK g : Solves(g, f, S)
    BY SumsExist
  <1>2. \A T \in SUBSET S : StoredIn(f, T) = g[T]
    BY <1>1, SolutionIsSum
  <1>3. QED
    BY <1>1, <1>2 DEF SumFrom, Solves

\* Sums look at what is stored, and at nothing else.
LEMMA SameSum ==
  ASSUME NEW S, IsFiniteSet(S), NEW f, NEW h, \A k \in S : f[k].stored = h[k].stored
  PROVE  StoredIn(f, S) = StoredIn(h, S)
  <1>1. PICK g : Solves(g, f, S)
    BY SumsExist
  <1>2. \A s \in SUBSET S : SumFrom(f, s, g) = SumFrom(h, s, g)
    BY OneIsMember DEF SumFrom
  <1>3. Solves(g, h, S)
    BY <1>1, <1>2 DEF Solves
  <1>4. S \in SUBSET S
    OBVIOUS
  <1>5. StoredIn(f, S) = g[S]
    BY <1>1, <1>4, SolutionIsSum
  <1>6. StoredIn(h, S) = g[S]
    BY <1>3, <1>4, SolutionIsSum
  <1>7. QED
    BY <1>5, <1>6

LEMMA NoSum == ASSUME NEW f PROVE StoredIn(f, {}) = 0
  <1>1. IsFiniteSet({})
    BY FS_EmptySet
  <1>2. QED
    BY <1>1, SumStep

Sizes(f, S) == \A k \in S : f[k].stored \in Nat

LEMMA SumIsNatural ==
  ASSUME NEW f, NEW S, IsFiniteSet(S), Sizes(f, S)
  PROVE  \A T \in SUBSET S : StoredIn(f, T) \in Nat
  <1> DEFINE Bad == {n \in Nat : \E s \in SUBSET S : Cardinality(s) = n /\ StoredIn(f, s) \notin Nat}
  <1>1. \A s \in SUBSET S : IsFiniteSet(s) /\ Cardinality(s) \in Nat
    BY FS_Subset, FS_CardinalityType
  <1> SUFFICES ASSUME Bad # {}
               PROVE  FALSE
    BY <1>1
  <1>2. PICK m \in Bad : \A n \in Bad : m <= n
    BY SmallestExists
  <1>3. PICK s \in SUBSET S : Cardinality(s) = m /\ StoredIn(f, s) \notin Nat
    BY <1>2
  <1>4. s # {}
    BY <1>3, NoSum
  <1> DEFINE t == s \ {One(s)}
  <1>5. One(s) \in s /\ t \in SUBSET S /\ Cardinality(t) = m - 1 /\ m - 1 \in Nat
    BY <1>1, <1>3, <1>4, OneIsMember, OneLess
  <1>6. m - 1 \notin Bad
    BY <1>2, <1>5
  <1>7. StoredIn(f, t) \in Nat
    BY <1>5, <1>6
  <1>8. StoredIn(f, s) = f[One(s)].stored + StoredIn(f, t)
    BY <1>1, <1>4, SumStep
  <1>9. f[One(s)].stored \in Nat
    BY <1>5 DEF Sizes
  <1>10. QED
    BY <1>3, <1>7, <1>8, <1>9

\* Any member may be the one that is added.
LEMMA SumOfAny ==
  ASSUME NEW f, NEW S, IsFiniteSet(S), Sizes(f, S), NEW x \in S
  PROVE  StoredIn(f, S) = f[x].stored + StoredIn(f, S \ {x})
  <1> DEFINE Fails(T) == \E y \in T : StoredIn(f, T) # f[y].stored + StoredIn(f, T \ {y})
             Bad == {n \in Nat : \E s \in SUBSET S : Cardinality(s) = n /\ Fails(s)}
  <1>1. \A s \in SUBSET S : IsFiniteSet(s) /\ Cardinality(s) \in Nat
    BY FS_Subset, FS_CardinalityType
  <1> SUFFICES ASSUME Bad # {}
               PROVE  FALSE
    BY <1>1
  <1>2. PICK m \in Bad : \A n \in Bad : m <= n
    BY SmallestExists
  <1>3. PICK s \in SUBSET S : Cardinality(s) = m /\ Fails(s)
    BY <1>2
  <1>4. PICK y \in s : StoredIn(f, s) # f[y].stored + StoredIn(f, s \ {y})
    BY <1>3
  <1> DEFINE z == One(s)
             t == s \ {z}
             u == s \ {y}
  <1>5. z \in s /\ StoredIn(f, s) = f[z].stored + StoredIn(f, t)
    BY <1>1, <1>4, OneIsMember, SumStep
  <1> HIDE DEF z
  <1>6. y # z
    BY <1>4, <1>5
  <1>7. /\ t \in SUBSET S /\ Cardinality(t) = m - 1
        /\ u \in SUBSET S /\ Cardinality(u) = m - 1
        /\ m - 1 \in Nat
    BY <1>1, <1>3, <1>5, OneLess
  <1>8. m - 1 \notin Bad
    BY <1>2, <1>7
  <1>9. ~ Fails(t) /\ ~ Fails(u)
    BY <1>7, <1>8
  <1>10. /\ StoredIn(f, t) = f[y].stored + StoredIn(f, t \ {y})
         /\ StoredIn(f, u) = f[z].stored + StoredIn(f, u \ {z})
    BY <1>5, <1>6, <1>9
  <1>11. t \ {y} = u \ {z}
    OBVIOUS
  <1>12. /\ f[y].stored \in Int /\ f[z].stored \in Int
         /\ StoredIn(f, t \ {y}) \in Int
    BY <1>5, SumIsNatural DEF Sizes
  <1>13. QED
    BY <1>4, <1>5, <1>10, <1>11, <1>12

\* The sum of a set is that of a part and that of the rest.
LEMMA SumSplits ==
  ASSUME NEW f, NEW S, IsFiniteSet(S), Sizes(f, S), NEW A \in SUBSET S
  PROVE  StoredIn(f, S) = StoredIn(f, S \ A) + StoredIn(f, A)
  <1> DEFINE Fails(B) == StoredIn(f, S) # StoredIn(f, S \ B) + StoredIn(f, B)
             Bad == {n \in Nat : \E s \in SUBSET S : Cardinality(s) = n /\ Fails(s)}
  <1>1. \A s \in SUBSET S : IsFiniteSet(s) /\ Cardinality(s) \in Nat
    BY FS_Subset, FS_CardinalityType
  <1> SUFFICES ASSUME Bad # {}
               PROVE  FALSE
    BY <1>1
  <1>2. PICK m \in Bad : \A n \in Bad : m <= n
    BY SmallestExists
  <1>3. PICK s \in SUBSET S : Cardinality(s) = m /\ Fails(s)
    BY <1>2
  <1>4. \A T \in SUBSET S : StoredIn(f, T) \in Nat
    BY SumIsNatural
  <1>5. s # {}
    <2>1. StoredIn(f, {}) = 0
      BY NoSum
    <2>2. S \ {} = S
      OBVIOUS
    <2>3. StoredIn(f, S) \in Nat
      BY <1>4
    <2>4. ~ Fails({})
      BY <2>1, <2>2, <2>3
    <2>5. QED
      BY <1>3, <2>4
  <1> DEFINE z == One(s)
             t == s \ {z}
  <1>6. z \in s /\ z \in S /\ StoredIn(f, s) = f[z].stored + StoredIn(f, t)
    BY <1>1, <1>5, OneIsMember, SumStep
  <1> HIDE DEF z
  <1>7. t \in SUBSET S /\ Cardinality(t) = m - 1 /\ m - 1 \in Nat
    BY <1>1, <1>3, <1>6, OneLess
  <1>8. m - 1 \notin Bad
    BY <1>2, <1>7
  <1>9. StoredIn(f, S) = StoredIn(f, S \ t) + StoredIn(f, t)
    BY <1>7, <1>8
  <1>10. StoredIn(f, S \ t) = f[z].stored + StoredIn(f, (S \ t) \ {z})
    <2>1. z \in S \ t /\ IsFiniteSet(S \ t) /\ Sizes(f, S \ t)
      BY <1>1, <1>6 DEF Sizes
    <2>2. QED
      BY <2>1, SumOfAny
  <1>11. (S \ t) \ {z} = S \ s
    BY <1>6
  <1>12. f[z].stored \in Nat
    BY <1>6 DEF Sizes
  <1>13. /\ StoredIn(f, s) \in Nat /\ StoredIn(f, t) \in Nat /\ StoredIn(f, S \ s) \in Nat
    BY <1>4, <1>7
  <1>14. Fails(s)
    BY <1>3
  <1> HIDE DEF t
  <1>15. StoredIn(f, S \ t) = f[z].stored + StoredIn(f, S \ s)
    BY <1>10, <1>11
  <1>16. StoredIn(f, S) = StoredIn(f, S \ s) + StoredIn(f, s)
    <2>1. \A w, x, y \in Nat : (w + x) + y = x + (w + y)
      OBVIOUS
    <2>2. StoredIn(f, S) = (f[z].stored + StoredIn(f, S \ s)) + StoredIn(f, t)
      BY <1>9, <1>15
    <2>3. StoredIn(f, S) = StoredIn(f, S \ s) + (f[z].stored + StoredIn(f, t))
      BY <1>12, <1>13, <2>1, <2>2, Zenon
    <2>4. QED
      BY <1>6, <2>3, Zenon
  <1>17. QED
    BY <1>14, <1>16

-----------------------------------------------------------------------------
(* Accounts                                                                *)

\* A shard whose map, list and size agree.
Accurate(sh) ==
  /\ ShardRecord(sh)
  /\ sh.lru \in Seq(Keys) /\ Distinct(sh.lru)
  /\ Cached(sh) = ToSet(sh.lru)
  /\ Len(sh.lru) <= MaxPerShard
  /\ sh.size = StoredIn(sh.items, Cached(sh))

AccountsInv == \A s \in Shards : Accurate(shards[s])

LEMMA RoomForOne == MaxPerShard \in Int /\ MaxPerShard >= 1
  BY SizesAssumption, ShardsAssumption DEF MaxPerShard

LEMMA EmptyIsAccurate == Accurate(EmptyShard)
  <1>1. /\ DOMAIN EmptyShard = {"items", "lru", "size"}
        /\ DOMAIN EmptyShard.items = {} /\ EmptyShard.lru = <<>> /\ EmptyShard.size = 0
    BY DEF EmptyShard
  <1>2. ShardRecord(EmptyShard) /\ Cached(EmptyShard) = {}
    BY <1>1 DEF ShardRecord, Cached
  <1>3. <<>> \in Seq(Keys) /\ Distinct(<<>>) /\ ToSet(<<>>) = {} /\ Len(<<>>) = 0
    BY DEF Distinct, ToSet
  <1>4. StoredIn(EmptyShard.items, {}) = 0
    BY NoSum
  <1>5. QED
    BY <1>1, <1>2, <1>3, <1>4, RoomForOne DEF Accurate

\* An accurate shard is finite, and its entries have sizes.
LEMMA AccurateIsFinite ==
  ASSUME NEW sh, Accurate(sh)
  PROVE  /\ IsFiniteSet(Cached(sh)) /\ Cardinality(Cached(sh)) = Len(sh.lru)
         /\ Sizes(sh.items, Cached(sh))
         /\ Len(sh.lru) \in Nat
  <1>1. IsFiniteSet(Cached(sh)) /\ Cardinality(Cached(sh)) = Len(sh.lru)
    BY ListsCount DEF Accurate
  <1>2. \A k \in Cached(sh) : sh.items[k] \in Entry
    BY DEF Accurate, ShardRecord, Cached
  <1>3. Sizes(sh.items, Cached(sh))
    BY <1>2 DEF Sizes, Entry
  <1>4. Len(sh.lru) \in Nat
    BY DEF Accurate
  <1>5. QED
    BY <1>1, <1>3, <1>4

\* What is removed is taken off the account.
LEMMA RemovedIsAccurate ==
  ASSUME NEW sh, Accurate(sh), NEW gone
  PROVE  LET new == Removed(sh, gone) IN
         /\ Accurate(new)
         /\ Cached(new) = Cached(sh) \ gone
         /\ new.lru = Without(sh.lru, gone)
         /\ new.size = sh.size - StoredIn(sh.items, Cached(sh) \cap gone)
  <1> DEFINE new == Removed(sh, gone)
             kept == Cached(sh) \ gone
             out == Cached(sh) \cap gone
  <1>1. /\ new.items = [k \in kept |-> sh.items[k]]
        /\ new.lru = Without(sh.lru, gone)
        /\ new.size = sh.size - StoredIn(sh.items, out)
    BY DEF Removed, Restrict
  <1>2. ShardRecord(new)
    <2>1. ShardRecord(sh)
      BY DEF Accurate
    <2>2. QED
      BY <2>1, RemovedThins DEF Thinned
  <1> HIDE DEF new
  <1>3. Cached(new) = kept /\ \A k \in kept : new.items[k] = sh.items[k]
    BY <1>1 DEF Cached
  <1>4. /\ new.lru \in Seq(Keys) /\ Distinct(new.lru)
        /\ ToSet(new.lru) = ToSet(sh.lru) \ gone
        /\ Len(new.lru) <= Len(sh.lru)
    BY <1>1, WithoutKeeps DEF Accurate
  <1>5. Len(new.lru) <= MaxPerShard
    <2>1. Len(new.lru) \in Nat /\ Len(sh.lru) \in Nat /\ Len(sh.lru) <= MaxPerShard
      BY <1>4 DEF Accurate
    <2>2. QED
      BY <1>4, <2>1, RoomForOne
  <1>6. new.size = StoredIn(new.items, kept)
    <2>1. IsFiniteSet(Cached(sh)) /\ Sizes(sh.items, Cached(sh))
      BY AccurateIsFinite
    <2>2. out \in SUBSET Cached(sh) /\ kept \in SUBSET Cached(sh) /\ Cached(sh) \ out = kept
      OBVIOUS
    <2>3. StoredIn(sh.items, Cached(sh)) = StoredIn(sh.items, kept) + StoredIn(sh.items, out)
      BY <2>1, <2>2, SumSplits
    <2>4. StoredIn(sh.items, kept) \in Nat /\ StoredIn(sh.items, out) \in Nat
      BY <2>1, <2>2, SumIsNatural
    <2>5. StoredIn(new.items, kept) = StoredIn(sh.items, kept)
      BY <1>3, <2>1, <2>2, FS_Subset, SameSum
    <2>6. sh.size = StoredIn(sh.items, Cached(sh))
      BY DEF Accurate
    <2> HIDE DEF kept, out
    <2>7. QED
      BY <1>1, <2>3, <2>4, <2>5, <2>6
  <1>7. Cached(sh) = ToSet(sh.lru)
    BY DEF Accurate
  <1>8. Accurate(new)
    BY <1>2, <1>3, <1>4, <1>5, <1>6, <1>7 DEF Accurate
  <1>9. QED
    BY <1>1, <1>3, <1>8 DEF new

\* Marks on entries do not count.
LEMMA MarkedIsAccurate ==
  ASSUME NEW sh, Accurate(sh), NEW new, ShardRecord(new),
         new.lru = sh.lru, new.size = sh.size, Cached(new) = Cached(sh),
         \A k \in Cached(sh) : new.items[k].stored = sh.items[k].stored
  PROVE  Accurate(new)
  <1>1. StoredIn(new.items, Cached(sh)) = StoredIn(sh.items, Cached(sh))
    BY AccurateIsFinite, SameSum
  <1>2. QED
    BY <1>1 DEF Accurate

\* A key comes to the front of the list: what it holds is the same.
LEMMA ToFrontIsAccurate ==
  ASSUME NEW sh, Accurate(sh), NEW k \in Cached(sh)
  PROVE  Accurate([sh EXCEPT !.lru = ToFront(@, k)])
  <1> DEFINE new == [sh EXCEPT !.lru = ToFront(@, k)]
             rest == Without(sh.lru, {k})
             list == <<k>> \o rest
  <1>1. /\ DOMAIN new = {"items", "lru", "size"}
        /\ new.items = sh.items /\ new.size = sh.size /\ new.lru = list
    BY DEF Accurate, ShardRecord, ToFront
  <1>2. k \in Keys /\ Cached(sh) = ToSet(sh.lru)
    BY DEF Accurate, ToSet
  <1>3. rest \in Seq(Keys) /\ Distinct(rest) /\ ToSet(rest) = ToSet(sh.lru) \ {k}
    BY WithoutKeeps DEF Accurate
  <1> HIDE DEF rest
  <1>4. list \in Seq(Keys) /\ Distinct(list) /\ ToSet(list) = ToSet(rest) \cup {k}
    <2>1. k \notin ToSet(rest)
      BY <1>3
    <2>2. QED
      BY <1>2, <1>3, <2>1, FrontGrows
  <1> HIDE DEF new, list
  <1>5. ToSet(list) = Cached(sh)
    BY <1>2, <1>3, <1>4
  <1>6. Len(list) = Len(sh.lru)
    BY <1>4, <1>5, ListsCount, AccurateIsFinite
  <1>7. Accurate(new)
    BY <1>1, <1>4, <1>5, <1>6 DEF Accurate, ShardRecord, Cached
  <1>8. QED
    BY <1>7 DEF new

\* A non-empty set of naturals up to a bound has a largest member.
LEMMA LargestExists ==
  ASSUME NEW N \in Nat, NEW S \in SUBSET (0 .. N), S # {}
  PROVE  \E m \in S : \A n \in S : m >= n
  <1> DEFINE T == {t \in 0 .. N : N - t \in S}
  <1>1. \A m \in S : m \in Nat /\ N - m \in 0 .. N /\ N - (N - m) = m
    OBVIOUS
  <1>2. \A m \in S : N - m \in T
    BY <1>1
  <1>3. T \in SUBSET Nat /\ T # {}
    <2>1. T \subseteq 0 .. N
      OBVIOUS
    <2>2. \A t \in 0 .. N : t \in Nat
      OBVIOUS
    <2>3. PICK m \in S : TRUE
      OBVIOUS
    <2>4. N - m \in T
      BY <1>2
    <2> HIDE DEF T
    <2>5. QED
      BY <2>1, <2>2, <2>4
  <1>4. PICK t \in T : \A u \in T : t <= u
    BY <1>3, SmallestExists
  <1>5. N - t \in S /\ t \in Nat
    OBVIOUS
  <1>6. ASSUME NEW n \in S
        PROVE  N - t >= n
    <2>1. n \in Nat /\ t <= N - n
      BY <1>1, <1>2, <1>4
    <2>2. QED
      BY <1>5, <2>1
  <1>7. QED
    BY <1>5, <1>6

\* An eviction leaves the first keys of the list, as many as there is room for.
LEMMA EvictionLeaves ==
  ASSUME NEW sh, Accurate(sh), NEW stored
  PROVE  \E n \in 0 .. Len(sh.lru) :
           /\ n = 0 \/ Room(sh, stored, n)
           /\ Evicted(sh, stored) = Removed(sh, Behind(sh, n))
           /\ Behind(sh, n) \subseteq Cached(sh)
           /\ Len(Evicted(sh, stored).lru) = n
  <1> DEFINE fits == {m \in 0 .. Len(sh.lru) : m = 0 \/ Room(sh, stored, m)}
             n == Max(fits)
  <1>1. Len(sh.lru) \in Nat
    BY AccurateIsFinite
  <1>2. fits \in SUBSET (0 .. Len(sh.lru)) /\ 0 \in fits
    BY <1>1
  <1>3. \E m \in fits : \A x \in fits : m >= x
    BY <1>1, <1>2, LargestExists
  <1>4. n \in fits
    BY <1>3 DEF Max
  <1>5. n \in 0 .. Len(sh.lru) /\ (n = 0 \/ Room(sh, stored, n))
    BY <1>4
  <1>6. Evicted(sh, stored) = Removed(sh, Behind(sh, n))
    BY DEF Evicted
  <1> HIDE DEF n
  <1>7. /\ Behind(sh, n) \subseteq ToSet(sh.lru)
        /\ Len(Without(sh.lru, Behind(sh, n))) = n
    BY <1>5, BackGoes DEF Accurate, Behind
  <1>8. Removed(sh, Behind(sh, n)).lru = Without(sh.lru, Behind(sh, n))
    BY RemovedIsAccurate
  <1>9. Cached(sh) = ToSet(sh.lru)
    BY DEF Accurate
  <1>10. QED
    BY <1>5, <1>6, <1>7, <1>8, <1>9

\* SetWithTTL, on its shard: the new entry is on the account, and for a new key
\* there is room, unless it is all that is left.
LEMMA StoredIsAccurate ==
  ASSUME NEW sh, Accurate(sh), NEW o, o.key \in Keys, o.value \in Values, o.stored \in Nat
  PROVE  LET new == Stored(sh, o) IN
         /\ Accurate(new)
         /\ Cached(new) \subseteq Cached(sh) \cup {o.key}
         /\ o.key \notin Cached(sh) /\ cfg.memory > 0 =>
              new.size <= MaxMemory \/ Len(new.lru) = 1
  <1> DEFINE known == o.key \in Cached(sh)
             kept == IF known THEN Removed(sh, {o.key}) ELSE Evicted(sh, o.stored)
             entry == [value |-> o.value, stored |-> o.stored, expired |-> FALSE,
                       old |-> {}]
             new == Stored(sh, o)
  <1>1. PICK n \in 0 .. Len(sh.lru) :
          /\ n = 0 \/ Room(sh, o.stored, n)
          /\ Evicted(sh, o.stored) = Removed(sh, Behind(sh, n))
          /\ Behind(sh, n) \subseteq Cached(sh)
          /\ Len(Evicted(sh, o.stored).lru) = n
    BY EvictionLeaves
  <1>2. Accurate(kept) /\ Cached(kept) \subseteq Cached(sh) /\ o.key \notin Cached(kept)
    <2>1. CASE known
      <3>1. kept = Removed(sh, {o.key})
        BY <2>1
      <3>2. /\ Accurate(Removed(sh, {o.key}))
            /\ Cached(Removed(sh, {o.key})) = Cached(sh) \ {o.key}
        BY RemovedIsAccurate
      <3> HIDE DEF kept
      <3>3. QED
        BY <3>1, <3>2
    <2>2. CASE ~ known
      <3>1. kept = Removed(sh, Behind(sh, n))
        BY <1>1, <2>2
      <3>2. /\ Accurate(Removed(sh, Behind(sh, n)))
            /\ Cached(Removed(sh, Behind(sh, n))) = Cached(sh) \ Behind(sh, n)
        BY RemovedIsAccurate
      <3> HIDE DEF kept
      <3>3. QED
        BY <2>2, <3>1, <3>2
    <2>3. QED
      BY <2>1, <2>2
  <1>3. Len(kept.lru) + 1 <= MaxPerShard
    <2>1. CASE known
      <3>1. Cached(kept) = Cached(sh) \ {o.key}
        BY <2>1, RemovedIsAccurate
      <3>2. /\ IsFiniteSet(Cached(sh)) /\ Cardinality(Cached(sh)) = Len(sh.lru)
            /\ Cardinality(Cached(kept)) = Len(kept.lru)
            /\ Len(sh.lru) \in Nat /\ Len(kept.lru) \in Nat
        BY <1>2, AccurateIsFinite
      <3>3. Cardinality(Cached(sh) \ {o.key}) = Cardinality(Cached(sh)) - 1
        BY <2>1, <3>2, FS_RemoveElement
      <3>4. Len(sh.lru) <= MaxPerShard
        BY DEF Accurate
      <3> HIDE DEF kept
      <3>5. Len(kept.lru) = Len(sh.lru) - 1
        BY <3>1, <3>2, <3>3
      <3>6. QED
        BY <3>2, <3>4, <3>5, RoomForOne
    <2>2. CASE ~ known
      <3>1. Len(kept.lru) = n
        BY <1>1, <2>2
      <3>2. n = 0 \/ n < MaxPerShard
        BY <1>1 DEF Room
      <3>3. n \in Nat
        BY AccurateIsFinite
      <3> HIDE DEF kept
      <3>4. QED
        BY <3>1, <3>2, <3>3, RoomForOne
    <2>3. QED
      BY <2>1, <2>2
  <1>4. ~ known /\ cfg.memory > 0 =>
          kept.size + o.stored <= MaxMemory \/ Len(kept.lru) = 0
    <2> SUFFICES ASSUME ~ known, cfg.memory > 0, n # 0
                 PROVE  kept.size + o.stored <= MaxMemory
      BY <1>1
    <2>1. sh.size - StoredIn(sh.items, Behind(sh, n)) + o.stored <= MaxMemory
      <3>1. n > 0
        BY AccurateIsFinite
      <3>2. QED
        BY <1>1, <3>1 DEF Room
    <2>2. Cached(sh) \cap Behind(sh, n) = Behind(sh, n)
      BY <1>1
    <2>3. Removed(sh, Behind(sh, n)).size = sh.size - StoredIn(sh.items, Behind(sh, n))
      BY <2>2, RemovedIsAccurate
    <2>4. QED
      BY <1>1, <2>1, <2>3
  <1>5. /\ DOMAIN new = {"items", "lru", "size"}
        /\ new.items = [k \in Cached(kept) \cup {o.key} |->
                          IF k # o.key THEN kept.items[k] ELSE entry]
        /\ new.lru = <<o.key>> \o kept.lru
        /\ new.size = kept.size + o.stored
    BY DEF Stored
  <1>6. entry \in Entry /\ entry.stored = o.stored
    BY DEF Entry
  <1> HIDE DEF known, kept, entry, new
  <1>7. /\ Cached(new) = Cached(kept) \cup {o.key}
        /\ new.items[o.key] = entry
        /\ \A k \in Cached(kept) : new.items[k] = kept.items[k]
    BY <1>2, <1>5 DEF Cached
  <1>8. ShardRecord(new)
    <2>1. \A k \in Cached(kept) : kept.items[k] \in Entry
      BY <1>2 DEF Accurate, ShardRecord, Cached
    <2>2. \A k \in Cached(new) : new.items[k] \in Entry
      BY <1>6, <1>7, <2>1
    <2>3. QED
      BY <1>5, <2>2 DEF ShardRecord, Cached
  <1>9. /\ new.lru \in Seq(Keys) /\ Distinct(new.lru)
        /\ Len(new.lru) = Len(kept.lru) + 1
        /\ ToSet(new.lru) = Cached(new)
    <2>1. kept.lru \in Seq(Keys) /\ Distinct(kept.lru) /\ ToSet(kept.lru) = Cached(kept)
      BY <1>2 DEF Accurate
    <2>2. QED
      BY <1>2, <1>5, <1>7, <2>1, FrontGrows
  <1>10. new.size = StoredIn(new.items, Cached(new))
    <2>1. IsFiniteSet(Cached(kept)) /\ Sizes(kept.items, Cached(kept))
      BY <1>2, AccurateIsFinite
    <2>2. IsFiniteSet(Cached(new)) /\ Sizes(new.items, Cached(new))
      <3>1. IsFiniteSet(Cached(new))
        BY <1>7, <2>1, FS_AddElement
      <3>2. \A k \in Cached(new) : new.items[k].stored \in Nat
        BY <1>8 DEF ShardRecord, Entry, Cached
      <3>3. QED
        BY <3>1, <3>2 DEF Sizes
    <2>3. Cached(new) \ {o.key} = Cached(kept)
      BY <1>2, <1>7
    <2>4. StoredIn(new.items, Cached(new)) = new.items[o.key].stored + StoredIn(new.items, Cached(kept))
      <3>1. o.key \in Cached(new)
        BY <1>7
      <3>2. QED
        BY <2>2, <2>3, <3>1, SumOfAny
    <2>5. StoredIn(new.items, Cached(kept)) = StoredIn(kept.items, Cached(kept))
      BY <1>7, <2>1, SameSum
    <2>6. kept.size = StoredIn(kept.items, Cached(kept)) /\ kept.size \in Nat
      BY <1>2, <2>1, SumIsNatural DEF Accurate
    <2>7. new.items[o.key].stored = o.stored
      BY <1>6, <1>7
    <2>8. kept.size + o.stored = o.stored + kept.size
      BY <2>6
    <2>9. QED
      BY <1>5, <2>4, <2>5, <2>6, <2>7, <2>8
  <1>11. Accurate(new)
    BY <1>3, <1>8, <1>9, <1>10 DEF Accurate
  <1>12. ~ known /\ cfg.memory > 0 => new.size <= MaxMemory \/ Len(new.lru) = 1
    BY <1>4, <1>5, <1>9
  <1>13. QED
    BY <1>2, <1>7, <1>11, <1>12 DEF known, new

\* A key that was not there before comes with room made for it.
MakesRoom ==
  \A s \in Shards :
    ~ Cached(shards'[s]) \subseteq Cached(shards[s]) /\ cfg.memory > 0 =>
      shards'[s].size <= MaxMemory \/ Len(shards'[s].lru) = 1

LEMMA OneShardAccurate ==
  ASSUME IInv, AccountsInv, NEW s \in Shards, NEW new,
         shards' = [shards EXCEPT ![s] = new], Accurate(new),
         \/ Cached(new) \subseteq Cached(shards[s])
         \/ cfg.memory > 0 => new.size <= MaxMemory \/ Len(new.lru) = 1
  PROVE  AccountsInv' /\ MakesRoom
  <1>1. \A r \in Shards : shards'[r] = IF r = s THEN new ELSE shards[r]
    BY DEF IInv, ShardsInv
  <1>2. AccountsInv'
    BY <1>1 DEF AccountsInv
  <1>3. MakesRoom
    BY <1>1 DEF MakesRoom
  <1>4. QED
    BY <1>2, <1>3

\* Every shard stays accurate, and gets no key that it did not have.
LEMMA ShardsAccurate ==
  ASSUME \A s \in Shards : Accurate(shards'[s]) /\ Cached(shards'[s]) \subseteq Cached(shards[s])
  PROVE  AccountsInv' /\ MakesRoom
  BY DEF AccountsInv, MakesRoom

LEMMA AccountsInit == ASSUME Init PROVE AccountsInv
  BY EmptyIsAccurate DEF Init, AccountsInv

LEMMA GetAccounts ==
  ASSUME IInv, AccountsInv, NEW c \in Callers, Get(c)
  PROVE  AccountsInv' /\ MakesRoom
  <1> DEFINE k == op[c].key
             s == ShardOf[k]
             sh == shards[s]
  <1>1. s \in Shards
    BY ShardsAssumption DEF IInv, CallersInv, Operation, Idle, Get
  <1>2. Accurate(sh)
    BY <1>1 DEF AccountsInv
  <1>3. CASE Hit(sh, k)
    <2> DEFINE new == [sh EXCEPT !.lru = ToFront(@, k)]
    <2>1. k \in Cached(sh)
      BY <1>3 DEF Hit
    <2>2. Accurate(new)
      BY <1>2, <2>1, ToFrontIsAccurate
    <2>3. shards' = [shards EXCEPT ![s] = new]
      BY <1>3 DEF Get
    <2>4. Cached(new) = Cached(sh)
      BY <1>2 DEF Accurate, ShardRecord, Cached
    <2> HIDE DEF new
    <2>5. QED
      BY <1>1, <2>2, <2>3, <2>4, OneShardAccurate
  <1>4. CASE ~ Hit(sh, k)
    <2>1. shards' = [shards EXCEPT ![s] = Removed(sh, {k})]
      BY <1>4 DEF Get
    <2>2. Accurate(Removed(sh, {k})) /\ Cached(Removed(sh, {k})) \subseteq Cached(sh)
      BY <1>2, RemovedIsAccurate
    <2>3. QED
      BY <1>1, <2>1, <2>2, OneShardAccurate
  <1>5. QED
    BY <1>3, <1>4

LEMMA SetAccounts ==
  ASSUME IInv, AccountsInv, NEW c \in Callers, Set(c)
  PROVE  AccountsInv' /\ MakesRoom
  <1> DEFINE o == op[c]
             s == ShardOf[o.key]
             sh == shards[s]
             new == Stored(sh, o)
  <1>1. s \in Shards /\ o.key \in Keys /\ o.value \in Values /\ o.stored \in Nat
    BY ShardsAssumption DEF IInv, CallersInv, Operation, Idle, Set
  <1>2. Accurate(sh)
    BY <1>1 DEF AccountsInv
  <1>3. /\ Accurate(new)
        /\ Cached(new) \subseteq Cached(sh) \cup {o.key}
        /\ o.key \notin Cached(sh) /\ cfg.memory > 0 =>
             new.size <= MaxMemory \/ Len(new.lru) = 1
    BY <1>1, <1>2, StoredIsAccurate
  <1>4. shards' = [shards EXCEPT ![s] = new]
    BY DEF Set
  <1> HIDE DEF new
  <1>5. QED
    BY <1>1, <1>3, <1>4, OneShardAccurate

LEMMA DeleteAccounts ==
  ASSUME IInv, AccountsInv, NEW k \in Keys, Delete(k)
  PROVE  AccountsInv' /\ MakesRoom
  <1> DEFINE s == ShardOf[k]
  <1>1. s \in Shards
    BY ShardsAssumption
  <1>2. /\ Accurate(Removed(shards[s], {k}))
        /\ Cached(Removed(shards[s], {k})) \subseteq Cached(shards[s])
    BY <1>1, RemovedIsAccurate DEF AccountsInv
  <1>3. shards' = [shards EXCEPT ![s] = Removed(shards[s], {k})]
    BY DEF Delete
  <1>4. QED
    BY <1>1, <1>2, <1>3, OneShardAccurate

LEMMA ExpireAccounts ==
  ASSUME IInv, AccountsInv, NEW k \in Keys, Expire(k)
  PROVE  AccountsInv' /\ MakesRoom
  <1> DEFINE s == ShardOf[k]
             sh == shards[s]
             new == [sh EXCEPT !.items[k].expired = TRUE]
  <1>1. s \in Shards /\ k \in Cached(sh)
    BY ShardsAssumption DEF Expire
  <1>2. Accurate(sh) /\ ShardRecord(sh)
    BY <1>1 DEF AccountsInv, Accurate
  <1>3. shards' = [shards EXCEPT ![s] = new]
    BY DEF Expire
  <1>4. /\ DOMAIN new = {"items", "lru", "size"}
        /\ new.lru = sh.lru /\ new.size = sh.size
        /\ new.items = [sh.items EXCEPT ![k] = [sh.items[k] EXCEPT !.expired = TRUE]]
    BY <1>2 DEF ShardRecord
  <1>5. /\ Cached(new) = Cached(sh)
        /\ new.items[k] = [sh.items[k] EXCEPT !.expired = TRUE]
        /\ \A m \in Cached(sh) \ {k} : new.items[m] = sh.items[m]
    BY <1>1, <1>4 DEF Cached
  <1>6. sh.items[k] \in Entry
    BY <1>1, <1>2 DEF ShardRecord, Cached
  <1>7. /\ [sh.items[k] EXCEPT !.expired = TRUE] \in Entry
        /\ [sh.items[k] EXCEPT !.expired = TRUE].stored = sh.items[k].stored
    BY <1>6 DEF Entry
  <1> HIDE DEF new
  <1>8. ShardRecord(new)
    BY <1>2, <1>4, <1>5, <1>7 DEF ShardRecord, Cached
  <1>9. \A m \in Cached(sh) : new.items[m].stored = sh.items[m].stored
    BY <1>5, <1>7
  <1>10. Accurate(new)
    BY <1>2, <1>4, <1>5, <1>8, <1>9, MarkedIsAccurate
  <1>11. QED
    BY <1>1, <1>3, <1>5, <1>10, OneShardAccurate

LEMMA BeginClearAccounts ==
  ASSUME IInv, AccountsInv, NEW a \in Clearers, BeginClear(a)
  PROVE  AccountsInv' /\ MakesRoom
  <1>1. shards'[1] = EmptyShard
    BY ShardsAssumption DEF BeginClear, Cleared, Shards
  <1>2. ASSUME NEW s \in Shards \ {1}
        PROVE  Accurate(shards'[s]) /\ Cached(shards'[s]) = Cached(shards[s])
    <2> DEFINE sh == shards[s]
               new == shards'[s]
               aged == [k \in DOMAIN sh.items |-> Aged(sh.items[k], a)]
    <2>1. Accurate(sh) /\ ShardRecord(sh)
      BY DEF AccountsInv, Accurate
    <2>2. new = [sh EXCEPT !.items = aged]
      BY DEF BeginClear
    <2>3. /\ DOMAIN new = {"items", "lru", "size"}
          /\ new.items = aged /\ new.lru = sh.lru /\ new.size = sh.size
      BY <2>1, <2>2 DEF ShardRecord
    <2>4. \A k \in DOMAIN sh.items :
            aged[k] \in Entry /\ aged[k].stored = sh.items[k].stored
      BY <2>1 DEF ShardRecord, Entry, Aged
    <2>5. DOMAIN aged = DOMAIN sh.items
      OBVIOUS
    <2> HIDE DEF aged
    <2>6. ShardRecord(new) /\ Cached(new) = Cached(sh)
      BY <2>3, <2>4, <2>5 DEF ShardRecord, Cached
    <2>7. \A k \in Cached(sh) : new.items[k].stored = sh.items[k].stored
      BY <2>3, <2>4 DEF Cached
    <2> HIDE DEF new
    <2>8. Accurate(new)
      BY <2>1, <2>3, <2>6, <2>7, MarkedIsAccurate
    <2>9. QED
      BY <2>6, <2>8 DEF new
  <1>3. Accurate(shards'[1]) /\ Cached(shards'[1]) = {}
    BY <1>1, EmptyIsAccurate, EmptyIsThinned DEF Cached
  <1>4. QED
    BY <1>2, <1>3, ShardsAccurate

LEMMA ClearAccounts ==
  ASSUME IInv, AccountsInv, NEW a \in Clearers, Clear(a)
  PROVE  AccountsInv' /\ MakesRoom
  <1>1. clearing[a] \in Shards
    BY DEF IInv, ClearInv, Clear, Shards
  <1>2. shards' = [shards EXCEPT ![clearing[a]] = EmptyShard]
    BY DEF Clear, Cleared
  <1>3. Cached(EmptyShard) = {}
    BY EmptyIsThinned DEF Cached
  <1>4. QED
    BY <1>1, <1>2, <1>3, EmptyIsAccurate, OneShardAccurate

LEMMA CleanupShardAccounts ==
  ASSUME IInv, AccountsInv, CleanupShard
  PROVE  AccountsInv' /\ MakesRoom
  <1> DEFINE gone == Expired(shards[sweeping])
  <1>1. shards' = [shards EXCEPT ![sweeping] = Removed(shards[sweeping], gone)]
    BY DEF CleanupShard
  <1> HIDE DEF gone
  <1>2. CASE sweeping \in Shards
    <2>1. /\ Accurate(Removed(shards[sweeping], gone))
          /\ Cached(Removed(shards[sweeping], gone)) \subseteq Cached(shards[sweeping])
      BY <1>2, RemovedIsAccurate DEF AccountsInv
    <2>2. QED
      BY <1>1, <1>2, <2>1, OneShardAccurate
  <1>3. CASE sweeping \notin Shards
    <2>1. \A s \in Shards : shards'[s] = shards[s]
      BY <1>1, <1>3 DEF IInv, ShardsInv
    <2>2. QED
      BY <2>1, ShardsAccurate DEF AccountsInv
  <1>4. QED
    BY <1>2, <1>3

LEMMA OthersKeepAccounts ==
  ASSUME AccountsInv, UNCHANGED shards
  PROVE  AccountsInv' /\ MakesRoom
  BY DEF AccountsInv, MakesRoom

LEMMA NextAccounts ==
  ASSUME IInv, AccountsInv, [Next]_vars
  PROVE  AccountsInv' /\ MakesRoom
  <1>1. ASSUME NEW c \in Callers, NEW k \in Keys,
               BeginGet(c, k) \/ \E v \in Values : BeginSet(c, k, v)
        PROVE  UNCHANGED shards
    BY <1>1 DEF BeginGet, BeginSet
  <1>2. CASE SetEnabled \/ UpdateConfig \/ Stop \/ UNCHANGED vars
    BY <1>2, OthersKeepAccounts DEF SetEnabled, UpdateConfig, Stop, vars
  <1>3. QED
    BY <1>1, <1>2, OthersKeepAccounts, GetAccounts, SetAccounts, DeleteAccounts,
       ExpireAccounts, BeginClearAccounts, ClearAccounts, CleanupShardAccounts
    DEF Next, Step

-----------------------------------------------------------------------------
(* What the invariant gives                                                *)

LEMMA AlwaysIInv == Spec => []IInv
  BY InitHolds, NextMaps, PTL DEF Spec

\* Cache.Clear goes from shard to shard while responses are set and updated and
\* others clear: what is left of a shard it has been through was set after it
\* began.
THEOREM ClearLeavesNothing == Spec => []ClearForgets
  BY AlwaysIInv, PTL DEF IInv, ClearInv

\* Cache.Get, SetWithTTL, Delete, Clear, eviction, expiry, cleanup and changes
\* of configuration: whoever asks for a key is answered with the value that was
\* set last for that key, or with none, as LossyCache has it.  Only a set stores,
\* the value it was called with under the key it was called with.
THEOREM CacheIsLossyMap == Spec => ImplementsLossyCache
  <1>1. Init => Abstract!Init
    BY InitHolds
  <1>2. IInv /\ [Next]_vars => [Abstract!Next]_<<Live, Asked, got>>
    BY NextMaps DEF Maps
  <1>3. QED
    BY <1>1, <1>2, AlwaysIInv, PTL DEF Spec, ImplementsLossyCache, Abstract!Spec

LEMMA AlwaysAccounts == Spec => [](IInv /\ AccountsInv)
  <1>1. Init => IInv /\ AccountsInv
    BY InitHolds, AccountsInit
  <1>2. IInv /\ AccountsInv /\ [Next]_vars => (IInv /\ AccountsInv)'
    BY NextMaps, NextAccounts
  <1>3. QED
    BY <1>1, <1>2, PTL DEF Spec

\* Updates, evictions, expiry, clearing and cleanup: a shard's map and list hold
\* the same keys, no more than the limit, and its size is that of what it holds.
THEOREM AccountsAgree == Spec => []Accounted
  <1>1. IInv /\ AccountsInv => Accounted
    <2> SUFFICES ASSUME IInv, AccountsInv, NEW s \in Shards
                 PROVE  LET sh == shards[s] IN
                        /\ Cached(sh) = ToSet(sh.lru)
                        /\ Cardinality(Cached(sh)) = Len(sh.lru)
                        /\ \A k \in Cached(sh) : ShardOf[k] = s
                        /\ Len(sh.lru) <= MaxPerShard
                        /\ sh.size = StoredIn(sh.items, Cached(sh))
      BY DEF Accounted
    <2>1. Accurate(shards[s])
      BY DEF AccountsInv
    <2>2. \A k \in Cached(shards[s]) : ShardOf[k] = s
      BY DEF IInv, ShardsInv, ShardOK, Own, Cached
    <2>3. Cardinality(Cached(shards[s])) = Len(shards[s].lru)
      BY <2>1, AccurateIsFinite
    <2>4. QED
      BY <2>1, <2>2, <2>3 DEF Accurate
  <1>2. QED
    BY <1>1, AlwaysAccounts, PTL

\* SetWithTTL of a key that was not there: evictIfNeeded has brought the shard
\* under its share of the memory, or the new entry is all it holds.
THEOREM InsertionsMakeRoom == Spec => InsertionMakesRoom
  <1>1. IInv /\ AccountsInv /\ [Next]_vars =>
          [\A s \in Shards :
             ~ Cached(shards'[s]) \subseteq Cached(shards[s]) /\ cfg.memory > 0 =>
               shards'[s].size <= MaxMemory \/ Len(shards'[s].lru) = 1]_vars
    BY NextAccounts DEF MakesRoom
  <1>2. QED
    BY <1>1, AlwaysAccounts, PTL DEF Spec, InsertionMakesRoom
==============================================================================
