----------------------------- MODULE QueryCache -----------------------------
(***************************************************************************)
(* SimpleLruCache of src/src/utils/simple_lru.rs, and the two caches of    *)
(* src/src/monitoring/performance.rs on top of it: QueryCache, whose       *)
(* entries expire, and PreparedStatementCache, which is the bare LRU.      *)
(* Every operation holds the one mutex from start to end, so it is a step. *)
(* The counters (stats, hit_count) are left out.                           *)
(***************************************************************************)
EXTENDS Integers, SequencesExt, Filtering

CONSTANTS Keys, Values,
          PrefixSets,     \* the sets of keys that share a prefix
          Capacities,   \* capacities the cache is built with or resized to
          DefaultTtl,   \* default_ttl of QueryCache, NoTtl for None
          Ttls,         \* durations given to set_with_ttl
          NoTtl,
          MaxTime       \* bound on the clock

ASSUME CacheAssumption ==
  /\ PrefixSets \subseteq SUBSET Keys
  /\ Capacities \subseteq Nat
  /\ Ttls \subseteq Nat /\ NoTtl \notin Nat
  /\ DefaultTtl \in Nat \cup {NoTtl}
  /\ MaxTime \in Nat

VARIABLES
  expiring,   \* a QueryCache; otherwise a bare LRU
  capacity,
  map,        \* HashMap<K, V>: the cached keys and their entries
  order,      \* VecDeque<K>, least recently used first
  now,
  last,       \* history: the entry the last set of each key made, none once removed
  recent,     \* history: the keys ever used, the most recent last
  smallest,   \* history: the smallest capacity so far
  got         \* the last get: what it returned, what it should, how many keys are newer

vars == <<expiring, capacity, map, order, now, last, recent, smallest, got>>

None    == [val |-> "none", exp |-> NoTtl]
Entries == [val : Values, exp : Nat \cup {NoTtl}]
NoGet   == [found |-> "none", wanted |-> "none", newer |-> 0]

TypeOK ==
  /\ expiring \in BOOLEAN
  /\ capacity \in Capacities
  /\ DOMAIN map \subseteq Keys
  /\ \A k \in DOMAIN map : map[k] \in Entries
  /\ order \in Seq(Keys)
  /\ now \in 0..MaxTime
  /\ last \in [Keys -> Entries \cup {None}]
  /\ recent \in Seq(Keys)
  /\ smallest \in Nat
  /\ got \in [found : Values \cup {"none"}, wanted : Values \cup {"none"}, newer : Nat]

Empty == [k \in {} |-> None]

Init ==
  /\ expiring \in BOOLEAN
  /\ capacity \in Capacities
  /\ map = Empty
  /\ order = <<>>
  /\ now = 0
  /\ last = [k \in Keys |-> None]
  /\ recent = <<>>
  /\ smallest = capacity
  /\ got = NoGet

-----------------------------------------------------------------------------
(* SimpleLruCache.                                                         *)

Without(f, S) == [x \in DOMAIN f \ S |-> f[x]]

\* get: a hit moves the key to the end.
Touch(k) == order' = Append(RemoveFirst(order, k), k)

\* Mutant: a key that is put again keeps its old place in the queue, too.
PutTwice(k, e) ==
  LET evict == k \notin DOMAIN map /\ Cardinality(DOMAIN map) >= capacity /\ order # <<>>
      rest == IF evict THEN Tail(order) ELSE order
      kept == IF evict THEN Without(map, {Head(order)}) ELSE map
  IN  /\ order' = Append(rest, k)
      /\ map' = [x \in DOMAIN kept \cup {k} |-> IF x = k THEN e ELSE kept[x]]

\* put: the oldest key goes when a new one comes and the cache is full.
LruPut(k, e) ==
  LET evict == k \notin DOMAIN map /\ Cardinality(DOMAIN map) >= capacity /\ order # <<>>
      rest == IF evict THEN Tail(order) ELSE RemoveFirst(order, k)
      kept == IF evict THEN Without(map, {Head(order)}) ELSE map
  IN  /\ order' = Append(rest, k)
      /\ map' = [x \in DOMAIN kept \cup {k} |-> IF x = k THEN e ELSE kept[x]]

\* remove of every key in S: retain on the queue, remove on the map.
LruRemove(S) ==
  /\ order' = Retain(order, S)
  /\ map' = Without(map, S)

-----------------------------------------------------------------------------
(* QueryCache.                                                             *)

Expires(ttl) == IF ttl = NoTtl THEN NoTtl ELSE now + ttl
Expired(e)   == e.exp # NoTtl /\ now > e.exp

Use(k)    == recent' = Append(RemoveFirst(recent, k), k)
Newer(k)  == {j \in Keys \ {k} : \E m \in DOMAIN recent : recent[m] = j
                /\ \A n \in DOMAIN recent : recent[n] = k => n < m}
Answer(k, found) ==
  got' = [found |-> found, wanted |-> IF Expired(last[k]) THEN "none" ELSE last[k].val,
          newer |-> Cardinality(Newer(k))]

\* Mutant: expired entries are served.
GetUnchecked(k) ==
  /\ \/ /\ k \in DOMAIN map
        /\ Answer(k, map[k].val) /\ Touch(k) /\ Use(k)
        /\ UNCHANGED <<map, last>>
     \/ /\ k \notin DOMAIN map
        /\ Answer(k, "none")
        /\ UNCHANGED <<map, order, last, recent>>
  /\ UNCHANGED <<expiring, capacity, now, smallest>>

\* get: a hit is put back with its hit counted, an expired entry is removed.
Get(k) ==
  /\ \/ /\ k \in DOMAIN map /\ ~Expired(map[k])
        /\ Answer(k, map[k].val) /\ Touch(k) /\ Use(k)
        /\ UNCHANGED <<map, last>>
     \/ /\ k \in DOMAIN map /\ Expired(map[k])
        /\ Answer(k, "none") /\ LruRemove({k})
        /\ UNCHANGED <<last, recent>>
     \/ /\ k \notin DOMAIN map
        /\ Answer(k, "none")
        /\ UNCHANGED <<map, order, last, recent>>
  /\ UNCHANGED <<expiring, capacity, now, smallest>>

\* set and set_with_ttl; a bare LRU keeps what it is given.
Set(k, v, ttl) ==
  LET e == [val |-> v, exp |-> Expires(ttl)] IN
  /\ ttl \in (IF expiring THEN Ttls \cup {DefaultTtl} ELSE {NoTtl})
  /\ LruPut(k, e)
  /\ last' = [last EXCEPT ![k] = e]
  /\ Use(k)
  /\ UNCHANGED <<expiring, capacity, now, smallest, got>>

Forget(S) ==
  /\ LruRemove(S)
  /\ last' = [k \in Keys |-> IF k \in S THEN None ELSE last[k]]
  /\ UNCHANGED <<expiring, capacity, now, recent, smallest, got>>

RemoveKey(k) == Forget({k})
Clear == map # Empty /\ Forget(Keys)
InvalidatePrefix(p) == expiring /\ Forget(p)

CleanupExpired ==
  /\ expiring
  /\ LruRemove({k \in DOMAIN map : Expired(map[k])})
  /\ UNCHANGED <<expiring, capacity, now, last, recent, smallest, got>>

\* resize pops the front until the map fits.
Resize(n) ==
  LET cut == IF n < Len(order) THEN Len(order) - n ELSE 0
      keep == SubSeq(order, cut + 1, Len(order)) IN
  /\ ~expiring /\ n # capacity
  /\ capacity' = n
  /\ smallest' = IF n < smallest THEN n ELSE smallest
  /\ order' = keep
  /\ map' = Without(map, Keys \ ToSet(keep))
  /\ UNCHANGED <<expiring, now, last, recent, got>>

Tick ==
  /\ expiring /\ now < MaxTime
  /\ now' = now + 1
  /\ UNCHANGED <<expiring, capacity, map, order, last, recent, smallest, got>>

-----------------------------------------------------------------------------
Next == \/ \E k \in Keys : Get(k) \/ RemoveKey(k)
        \/ \E k \in Keys, v \in Values, ttl \in Ttls \cup {DefaultTtl, NoTtl} : Set(k, v, ttl)
        \/ \E p \in PrefixSets : InvalidatePrefix(p)
        \/ \E n \in Capacities : Resize(n)
        \/ Clear \/ CleanupExpired \/ Tick

Spec == Init /\ [][Next]_vars

-----------------------------------------------------------------------------
(* Properties.                                                             *)

\* The queue and the map never disagree: eviction by the front of the queue
\* always frees a place, and resize ends.  A capacity of 0 still holds one key.
OrderIsMap ==
  /\ \A i, j \in DOMAIN order : order[i] = order[j] => i = j
  /\ ToSet(order) = DOMAIN map
  /\ Len(order) <= IF capacity = 0 THEN 1 ELSE capacity

\* A get never returns anything but the value last set for its key, and that
\* only until it expires, is removed, cleared or invalidated by prefix; and it
\* misses a value it should serve only if at least `capacity` other keys were
\* set or hit since that key's own last use.
ServesLastSet ==
  /\ got.found # "none" => got.found = got.wanted
  /\ got.newer < smallest => got.found = got.wanted

=============================================================================
