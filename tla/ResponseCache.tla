---------------------------- MODULE ResponseCache ----------------------------
(***************************************************************************)
(* internal/cache/cache.go: the sharded LRU cache of responses.  Each shard *)
(* has a map, a list from the most to the least recently used entry, a     *)
(* size and a lock; every action on a shard below is one critical section. *)
(* The configuration is read without any lock, so Set and Get read it in   *)
(* one step and work on the shard in a later one.                          *)
(*                                                                         *)
(* Time is one bit per entry: whether its ExpiresAt has passed.            *)
(***************************************************************************)
EXTENDS Integers, SequencesExt

CONSTANTS Keys, Values, Callers, NoValue,
          Clearers,            \* administrators' connections that call Clear
          ShardOf,             \* FNV hash of a key: 1 .. NumShards
          NumShards,
          Size, PackedSize,    \* of a value: as it is, and compressed
          Configs,             \* what the configuration may be
          CompressionMinSize,
          MaxSize,             \* entries in the whole cache
          MinPerShard          \* 10 in the code

Shards == 1 .. NumShards

ASSUME ShardsAssumption == NumShards \in Nat \ {0} /\ ShardOf \in [Keys -> Shards]
ASSUME SizesAssumption ==
  /\ Size \in [Values -> Nat] /\ PackedSize \in [Values -> Nat]
  /\ MaxSize \in Int /\ MinPerShard \in Nat \ {0} /\ CompressionMinSize \in Int
ASSUME NoValueAssumption == NoValue \notin Values
ASSUME ConfigsAssumption ==
  Configs \subseteq [enabled : BOOLEAN, maxItemSize : Int, memory : Int,
                     compression : BOOLEAN]

\* "old" is history: who began a Clear, the last one of his, with the entry there.
Entry == [value : Values, stored : Nat, expired : BOOLEAN, old : SUBSET Clearers]

Idle == [do |-> "nothing"]
Operation == {Idle} \cup [do : {"get"}, key : Keys]
             \cup [do : {"set"}, key : Keys, value : Values, stored : Nat]

VARIABLES
  cfg,
  shards,    \* of each: its map, the keys in its list (most recent first), its size
  op,        \* what each caller is about to do to a shard
  got,       \* what Get answered each caller, until its next call
  clearing,  \* the shard the Clear of each clearer comes to next, 0 for none
  sweeping,  \* the shard the cleanup goroutine comes to next
  running    \* the cleanup goroutine will start another round

vars == <<cfg, shards, op, got, clearing, sweeping, running>>

EmptyShard == [items |-> <<>>, lru |-> <<>>, size |-> 0]

\* The cleanup goroutine exists only if the cache is enabled at the start.
Init ==
  /\ cfg \in Configs
  /\ shards = [s \in Shards |-> EmptyShard]
  /\ op = [c \in Callers |-> Idle]
  /\ got = [c \in Callers |-> NoValue]
  /\ clearing = [a \in Clearers |-> 0]
  /\ sweeping = 1
  /\ running = cfg.enabled

Cached(sh) == DOMAIN sh.items

StoredIn(items, keys) == MapThenSumSet(LAMBDA k : items[k].stored, keys)

\* What remains of a list, each key in the place that is its own by then.
Without(list, gone) ==
  LET kept == {i \in DOMAIN list : list[i] \notin gone}
      Nth(n) == CHOOSE i \in kept : Cardinality({j \in kept : j <= i}) = n
  IN [n \in 1 .. Cardinality(kept) |-> list[Nth(n)]]

\* The keys behind the n most recent ones.
Behind(sh, n) == ToSet(SubSeq(sh.lru, n + 1, Len(sh.lru)))

MaxPerShard ==
  LET share == MaxSize \div NumShards
  IN IF share < MinPerShard THEN MinPerShard ELSE share

MaxMemory == cfg.memory \div NumShards

-----------------------------------------------------------------------------
(* Faulty variants of operators below, used by none of them.               *)

\* The size of what is removed stays on the account.
RemovedKeepsSize(sh, gone) ==
  [sh EXCEPT !.items = Restrict(@, Cached(sh) \ gone), !.lru = Without(@, gone)]

\* The new entry is not counted when room is made for it.
RoomWithoutNew(sh, stored, n) ==
  /\ n < MaxPerShard
  /\ cfg.memory > 0 => sh.size - StoredIn(sh.items, Behind(sh, n)) <= MaxMemory

\* Only expired entries are cleared.
ClearedExpired(sh) ==
  LET kept == {k \in Cached(sh) : ~ sh.items[k].expired}
  IN [items |-> Restrict(sh.items, kept), lru |-> Without(sh.lru, Cached(sh) \ kept),
      size  |-> StoredIn(sh.items, kept)]

\* A round of cleanup is over after the first shard.
SweepFirstOnly(s) == 1

-----------------------------------------------------------------------------
(* Operations on a shard                                                   *)

\* removeFromShard, of every entry with a key in `gone`.
Removed(sh, gone) ==
  [items |-> Restrict(sh.items, Cached(sh) \ gone),
   lru   |-> Without(sh.lru, gone),
   size  |-> sh.size - StoredIn(sh.items, Cached(sh) \cap gone)]

\* There is room for an entry once only the n most recent ones are left.
Room(sh, stored, n) ==
  /\ n < MaxPerShard
  /\ cfg.memory > 0 /\ n > 0 =>
       sh.size - StoredIn(sh.items, Behind(sh, n)) + stored <= MaxMemory

\* evictIfNeeded, then the eviction by count: from the back, as few as will do.
Evicted(sh, stored) ==
  LET n == Max({m \in 0 .. Len(sh.lru) : m = 0 \/ Room(sh, stored, m)})
  IN Removed(sh, Behind(sh, n))

ToFront(list, k) == <<k>> \o Without(list, {k})

\* A faulty variant of the next: an update in place refreshes all but the value.
StoredKeepsValue(sh, o) ==
  LET known == o.key \in Cached(sh)
      kept == IF known THEN Removed(sh, {o.key}) ELSE Evicted(sh, o.stored)
      value == IF known THEN sh.items[o.key].value ELSE o.value
  IN [items |-> [k \in Cached(kept) \cup {o.key} |->
                   IF k # o.key THEN kept.items[k]
                   ELSE [value |-> value, stored |-> o.stored, expired |-> FALSE,
                         old |-> {}]],
      lru   |-> <<o.key>> \o kept.lru,
      size  |-> kept.size + o.stored]

\* A known key is updated in place, without eviction; a new one gets an entry
\* at the front.
Stored(sh, o) ==
  LET known == o.key \in Cached(sh)
      kept == IF known THEN Removed(sh, {o.key}) ELSE Evicted(sh, o.stored)
  IN [items |-> [k \in Cached(kept) \cup {o.key} |->
                   IF k # o.key THEN kept.items[k]
                   ELSE [value |-> o.value, stored |-> o.stored, expired |-> FALSE,
                         old |-> {}]],
      lru   |-> <<o.key>> \o kept.lru,
      size  |-> kept.size + o.stored]

\* Get finds an entry that has not expired.
Hit(sh, k) == k \in Cached(sh) /\ ~ sh.items[k].expired

Cleared(sh) == EmptyShard

Expired(sh) == {k \in Cached(sh) : sh.items[k].expired}

-----------------------------------------------------------------------------
(* Callers                                                                 *)

\* A disabled cache has no answer, as if the key were unknown.
BeginGet(c, k) ==
  /\ op[c] = Idle
  /\ cfg.enabled
  /\ op' = [op EXCEPT ![c] = [do |-> "get", key |-> k]]
  /\ got' = [got EXCEPT ![c] = NoValue]
  /\ UNCHANGED <<cfg, shards, clearing, sweeping, running>>

Get(c) ==
  LET k == op[c].key
      s == ShardOf[k]
      sh == shards[s]
  IN /\ op[c].do = "get"
     /\ \/ /\ Hit(sh, k)
           /\ got' = [got EXCEPT ![c] = sh.items[k].value]
           /\ shards' = [shards EXCEPT ![s].lru = ToFront(@, k)]
        \/ /\ ~ Hit(sh, k)
           /\ got' = [got EXCEPT ![c] = NoValue]
           /\ shards' = [shards EXCEPT ![s] = Removed(sh, {k})]
     /\ op' = [op EXCEPT ![c] = Idle]
     /\ UNCHANGED <<cfg, clearing, sweeping, running>>

\* Values are compressed before the lock is taken, if that makes them smaller.
StoredSize(v) ==
  IF cfg.compression /\ Size[v] >= CompressionMinSize /\ PackedSize[v] < Size[v]
  THEN PackedSize[v] ELSE Size[v]

\* A disabled cache, or one this is too large for, ignores the call.
BeginSet(c, k, v) ==
  /\ op[c] = Idle
  /\ cfg.enabled
  /\ Size[v] <= cfg.maxItemSize
  /\ op' = [op EXCEPT ![c] = [do |-> "set", key |-> k, value |-> v,
                              stored |-> StoredSize(v)]]
  /\ got' = [got EXCEPT ![c] = NoValue]
  /\ UNCHANGED <<cfg, shards, clearing, sweeping, running>>

Set(c) ==
  LET s == ShardOf[op[c].key] IN
  /\ op[c].do = "set"
  /\ shards' = [shards EXCEPT ![s] = Stored(@, op[c])]
  /\ op' = [op EXCEPT ![c] = Idle]
  /\ UNCHANGED <<cfg, got, clearing, sweeping, running>>

Delete(k) ==
  /\ k \in Cached(shards[ShardOf[k]])
  /\ shards' = [shards EXCEPT ![ShardOf[k]] = Removed(@, {k})]
  /\ UNCHANGED <<cfg, op, got, clearing, sweeping, running>>

-----------------------------------------------------------------------------
(* Administration, the cleanup goroutine, and time                         *)

\* Clear goes from shard to shard, one lock at a time; several may be under way.
AfterShard(s) == IF s = NumShards THEN 0 ELSE s + 1

Aged(entry, a) == [entry EXCEPT !.old = @ \cup {a}]

BeginClear(a) ==
  /\ clearing[a] = 0
  /\ shards' = [s \in Shards |->
       IF s = 1 THEN Cleared(shards[s])
       ELSE [shards[s] EXCEPT !.items =
               [k \in DOMAIN @ |-> Aged(@[k], a)]]]
  /\ clearing' = [clearing EXCEPT ![a] = AfterShard(1)]
  /\ UNCHANGED <<cfg, op, got, sweeping, running>>

Clear(a) ==
  /\ clearing[a] # 0
  /\ shards' = [shards EXCEPT ![clearing[a]] = Cleared(@)]
  /\ clearing' = [clearing EXCEPT ![a] = AfterShard(@)]
  /\ UNCHANGED <<cfg, op, got, sweeping, running>>

SetEnabled ==
  /\ cfg' = [cfg EXCEPT !.enabled = ~ @]
  /\ UNCHANGED <<shards, op, got, clearing, sweeping, running>>

UpdateConfig ==
  /\ cfg' \in Configs
  /\ UNCHANGED <<shards, op, got, clearing, sweeping, running>>

\* The shard after s in a round, and in the next.
SweepNext(s) == (s % NumShards) + 1

\* A round visits every shard; between rounds the goroutine looks for the end.
CleanupShard ==
  /\ running \/ sweeping # 1
  /\ shards' = [shards EXCEPT ![sweeping] = Removed(@, Expired(@))]
  /\ sweeping' = SweepNext(sweeping)
  /\ UNCHANGED <<cfg, op, got, clearing, running>>

Stop ==
  /\ running
  /\ running' = FALSE
  /\ UNCHANGED <<cfg, shards, op, got, clearing, sweeping>>

Expire(k) ==
  LET s == ShardOf[k] IN
  /\ k \in Cached(shards[s]) \ Expired(shards[s])
  /\ shards' = [shards EXCEPT ![s].items[k].expired = TRUE]
  /\ UNCHANGED <<cfg, op, got, clearing, sweeping, running>>

Step(c) == Get(c) \/ Set(c)

Next ==
  \/ \E c \in Callers, k \in Keys :
       BeginGet(c, k) \/ \E v \in Values : BeginSet(c, k, v)
  \/ \E c \in Callers : Step(c)
  \/ \E k \in Keys : Delete(k) \/ Expire(k)
  \/ \E a \in Clearers : BeginClear(a) \/ Clear(a)
  \/ SetEnabled \/ UpdateConfig \/ CleanupShard \/ Stop

Spec == Init /\ [][Next]_vars

\* The ticker of the cleanup goroutine keeps firing.
FairSpec == Spec /\ WF_vars(CleanupShard)

-----------------------------------------------------------------------------
(* Properties                                                              *)

\* However updates, evictions, expiry, clearing and cleanup interleave, the
\* map and the list of a shard hold the same keys, each once and in its own
\* shard, no more of them than the limit, and the size on the shard's account
\* is that of what it holds: a drift would evict everything, or nothing.
Accounted ==
  \A s \in Shards :
    LET sh == shards[s] IN
    /\ Cached(sh) = ToSet(sh.lru)
    /\ Cardinality(Cached(sh)) = Len(sh.lru)
    /\ \A k \in Cached(sh) : ShardOf[k] = s
    /\ Len(sh.lru) <= MaxPerShard
    /\ sh.size = StoredIn(sh.items, Cached(sh))

\* An update in place may take a shard over its share of the memory, and so
\* may a lower limit; the next new key brings it back under, unless the new
\* entry alone is too large for a shard.
InsertionMakesRoom ==
  [][\A s \in Shards :
       ~ Cached(shards'[s]) \subseteq Cached(shards[s]) /\ cfg.memory > 0 =>
         shards'[s].size <= MaxMemory \/ Len(shards'[s].lru) = 1]_vars

\* When a Clear has been through a shard, all the shard holds was set after
\* it began, though responses are set and updated, and others clear, all along.
ClearForgets ==
  \A a \in Clearers, s \in Shards :
    clearing[a] = 0 \/ s < clearing[a] =>
      \A k \in Cached(shards[s]) : a \notin shards[s].items[k].old

\* Unless it is stopped, the cleanup goroutine takes out whatever expires, of
\* every shard again and again, though entries expire all the time.  It does
\* not exist when the cache is enabled only later on.
ExpiredLeave == \A s \in Shards : []<>(~ running \/ Expired(shards[s]) = {})

\* The cache implements the lossy map: an expired entry counts as none, and
\* whoever asks for a key is answered with the value that was set last for that
\* key, or with none: never with an expired one, an earlier one or another key's.
Live == [k \in Keys |->
  LET sh == shards[ShardOf[k]]
  IN IF k \in Cached(sh) \ Expired(sh) THEN sh.items[k].value ELSE NoValue]

\* The call each caller has made, without what it was compressed to.
Asked == [c \in Callers |->
  IF op[c].do = "set" THEN [do |-> "set", key |-> op[c].key, value |-> op[c].value]
  ELSE op[c]]

Abstract == INSTANCE LossyCache WITH store <- Live, asked <- Asked

ImplementsLossyCache == Abstract!Spec
=============================================================================
