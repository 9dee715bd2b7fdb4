--------------------------- MODULE InMemoryProofs ---------------------------
(***************************************************************************)
(* Proofs about what the program keeps in memory: QueryCache, for all keys, *)
(* values, capacities and expiry times, and StorageEngine with its file,    *)
(* for all names, schemas, rows, where clauses and places a write may stop. *)
(*                                                                         *)
(* The caches: the queue and the map agree (OrderIsMap), a get returns the *)
(* value last set, and only keys used longer ago than as many others as    *)
(* the cache holds are missed (ServesLastSet).                             *)
(* OrderIsMap is inductive by itself.  For ServesLastSet the queue must be *)
(* compared with the whole history of uses: whoever is ahead of another in *)
(* the queue was used before it (QueueFollowsUse), so that at an eviction  *)
(* all the keys that stay are newer than the one that goes, and newer keys *)
(* only grow in number until it is used again (EvictedIsOld).              *)
(*                                                                         *)
(* The engine: rows fit their schema (RowsFitSchema), and a load finds the *)
(* engine of the last save or an error (LoadIsLastSave).  For each codec   *)
(* one lemma says what its reader does on a file that agrees with the      *)
(* writer's fields as far as it goes (Match): it has read what was written *)
(* up to the widths of values, and stands behind it, or it has met the end *)
(* of the file, and then for good (Reading, Over).  So the same lemmas     *)
(* give the round trip (WholeFile) and that a part of a file is no file    *)
(* (CutFile).  StoreInv says that engine and saved engine are Sound and    *)
(* that the file is some front of the encoding of a Sound engine, of the   *)
(* saved one if it is all of it.                                           *)
(*                                                                         *)
(* A select is exact (SelectIsExact).  No table has more rows than usize   *)
(* counts (Counted), so the end of a page wraps around at most once, and   *)
(* the page is the slice asked for all the same (PageOf).  The loop of     *)
(* like_matcher holds a part of the pattern laid over a part of the text   *)
(* (Holding), every way the pattern lies over all of it ends its part up   *)
(* to the last '%' no earlier than where the loop goes on from (Before),   *)
(* and the pair of retry and pattern index only grows (Grown), so the loop *)
(* is over within its turns (LoopEnds) and its answer is what LIKE means   *)
(* (LikeIsFound).                                                          *)
(***************************************************************************)
EXTENDS QueryCache, StorageEngine, SequenceLemmas

QueueFollowsUse ==
  /\ Once(recent)
  /\ \A k \in Keys : Queues(order, k) => Queues(recent, k)
  /\ \A a, b \in Keys : Ahead(order, a, b) => Ahead(recent, a, b)

MapIsLastSet == \A k \in DOMAIN map : map[k] = last[k]

EvictedIsOld ==
  /\ smallest <= capacity
  /\ \A k \in Keys : \/ k \in DOMAIN map
                     \/ last[k] = None
                     \/ Expired(last[k])
                     \/ Cardinality(Newer(k)) >= smallest

CacheInv == TypeOK /\ OrderIsMap /\ QueueFollowsUse /\ MapIsLastSet /\ EvictedIsOld /\ ServesLastSet

-----------------------------------------------------------------------------
(* The queue.                                                              *)

LEMMA Members ==
  ASSUME NEW q
  PROVE  \A u : u \in ToSet(q) <=> Queues(q, u)
BY DEF ToSet, Queues

-----------------------------------------------------------------------------
(* Who is newer.                                                           *)

NewerIn(q, k) == {j \in Keys \ {k} : \E m \in DOMAIN q : q[m] = j
                    /\ \A n \in DOMAIN q : q[n] = k => n < m}

LEMMA NewerMembers ==
  ASSUME NEW q \in Seq(Keys), Once(q), NEW k \in Keys
  PROVE  /\ IsFiniteSet(NewerIn(q, k)) /\ Cardinality(NewerIn(q, k)) \in Nat
         /\ \A j \in Keys : j \in NewerIn(q, k) <=>
              j # k /\ Queues(q, j) /\ (Queues(q, k) => Ahead(q, k, j))
<1>1. DOMAIN q = 1..Len(q) /\ Len(q) \in Nat
  OBVIOUS
<1>2. ASSUME NEW j \in Keys
      PROVE  j \in NewerIn(q, k) <=> j # k /\ Queues(q, j) /\ (Queues(q, k) => Ahead(q, k, j))
  <2>1. ASSUME j \in NewerIn(q, k) PROVE j # k /\ Queues(q, j) /\ (Queues(q, k) => Ahead(q, k, j))
    BY <2>1 DEF NewerIn, Queues, Ahead
  <2>2. ASSUME j # k, Queues(q, j), Queues(q, k) => Ahead(q, k, j) PROVE j \in NewerIn(q, k)
    <3>1. PICK m \in DOMAIN q : q[m] = j
      BY <2>2 DEF Queues
    <3>2. ASSUME NEW n \in DOMAIN q, q[n] = k PROVE n < m
      <4>1. PICK x \in DOMAIN q, y \in DOMAIN q : x < y /\ q[x] = k /\ q[y] = j
        BY <2>2, <3>2 DEF Queues, Ahead
      <4>2. x = n /\ y = m
        BY <3>1, <3>2, <4>1 DEF Once
      <4>3. QED BY <4>1, <4>2
    <3>3. QED BY <2>2, <3>1, <3>2 DEF NewerIn
  <2>3. QED BY <2>1, <2>2
<1>3. NewerIn(q, k) \subseteq ToSet(q)
  BY DEF NewerIn, ToSet
<1>4. IsFiniteSet(ToSet(q))
  BY OnceCounts
<1>5. IsFiniteSet(NewerIn(q, k))
  BY <1>3, <1>4, FS_Subset
<1>6. Cardinality(NewerIn(q, k)) \in Nat
  BY <1>5, FS_CardinalityType
<1>7. QED BY <1>2, <1>5, <1>6

\* A use of another key makes no key older.
LEMMA NewerGrow ==
  ASSUME NEW q \in Seq(Keys), Once(q), NEW k \in Keys, NEW j \in Keys, j # k
  PROVE  Cardinality(NewerIn(q, k)) <= Cardinality(NewerIn(Append(RemoveFirst(q, j), j), k))
<1> DEFINE r == Append(RemoveFirst(q, j), j)
<1>1. /\ r \in Seq(Keys) /\ Once(r)
      /\ \A u : Queues(r, u) <=> u = j \/ Queues(q, u)
      /\ \A a, b : Ahead(r, a, b) <=> \/ a # j /\ b # j /\ Ahead(q, a, b)
                                      \/ a # j /\ b = j /\ Queues(q, a)
  BY MovedToEnd
<1> HIDE DEF r
<1>2. \A i \in Keys : i \in NewerIn(q, k) <=> i # k /\ Queues(q, i) /\ (Queues(q, k) => Ahead(q, k, i))
  BY NewerMembers
<1>3. /\ IsFiniteSet(NewerIn(r, k))
      /\ \A i \in Keys : i \in NewerIn(r, k) <=> i # k /\ Queues(r, i) /\ (Queues(r, k) => Ahead(r, k, i))
  BY <1>1, NewerMembers
<1>4. NewerIn(q, k) \subseteq Keys
  BY DEF NewerIn
<1>5. ASSUME NEW i \in NewerIn(q, k) PROVE i \in NewerIn(r, k)
  <2>1. i \in Keys /\ i # k /\ Queues(q, i) /\ (Queues(q, k) => Ahead(q, k, i))
    BY <1>2, <1>4
  <2>2. Queues(r, i)
    BY <1>1, <2>1
  <2>3. ASSUME Queues(r, k) PROVE Ahead(r, k, i)
    <3>1. Queues(q, k)
      BY <1>1, <2>3
    <3>2. QED BY <1>1, <2>1, <3>1
  <2>4. QED BY <1>3, <2>1, <2>2, <2>3
<1>6. NewerIn(q, k) \subseteq NewerIn(r, k)
  BY <1>5
<1>7. Cardinality(NewerIn(q, k)) <= Cardinality(NewerIn(r, k))
  BY <1>3, <1>6, FS_Subset
<1>8. QED BY <1>7 DEF r

\* A queue of newer keys bounds their number from below.
LEMMA NewerAtLeast ==
  ASSUME NEW q \in Seq(Keys), Once(q), NEW k \in Keys, NEW p \in Seq(Keys), Once(p),
         \A u \in Keys : Queues(p, u) => u # k /\ Queues(q, u) /\ Ahead(q, k, u)
  PROVE  Len(p) <= Cardinality(NewerIn(q, k))
<1>1. /\ IsFiniteSet(NewerIn(q, k))
      /\ \A j \in Keys : j \in NewerIn(q, k) <=> j # k /\ Queues(q, j) /\ (Queues(q, k) => Ahead(q, k, j))
  BY NewerMembers
<1>2. ToSet(p) \subseteq Keys
  BY DEF ToSet
<1>3. ToSet(p) \subseteq NewerIn(q, k)
  BY <1>1, <1>2, Members
<1>4. Cardinality(ToSet(p)) <= Cardinality(NewerIn(q, k))
  BY <1>1, <1>3, FS_Subset
<1>5. QED BY <1>4, OnceCounts

-----------------------------------------------------------------------------
(* The steps.                                                              *)

LEMMA Asked ==
  ASSUME TypeOK, Once(recent), NEW k \in Keys
  PROVE  /\ Newer(k) = NewerIn(recent, k) /\ Cardinality(Newer(k)) \in Nat
         /\ last[k].val \in Values \cup {"none"}
<1>1. Newer(k) = NewerIn(recent, k)
  BY DEF Newer, NewerIn
<1>2. recent \in Seq(Keys) /\ last[k] \in Entries \cup {None}
  BY DEF TypeOK
<1>3. Cardinality(NewerIn(recent, k)) \in Nat
  BY <1>2, NewerMembers
<1>4. last[k].val \in Values \cup {"none"}
  BY <1>2 DEF Entries, None
<1>5. QED BY <1>1, <1>3, <1>4

\* remove: the others keep their places.
LEMMA Dropped ==
  ASSUME CacheInv, NEW S, LruRemove(S), recent' = recent, capacity' = capacity
  PROVE  /\ OrderIsMap' /\ QueueFollowsUse' /\ order' \in Seq(Keys)
         /\ DOMAIN map' = DOMAIN map \ S
         /\ \A k \in DOMAIN map' : map'[k] = map[k]
<1>1. /\ order \in Seq(Keys) /\ Once(order) /\ Len(order) \in Nat
      /\ ToSet(order) = DOMAIN map /\ capacity \in Nat
      /\ Len(order) <= IF capacity = 0 THEN 1 ELSE capacity
  BY CacheAssumption DEF CacheInv, TypeOK, OrderIsMap, Once
<1>2. /\ Once(recent)
      /\ \A k \in Keys : Queues(order, k) => Queues(recent, k)
      /\ \A a, b \in Keys : Ahead(order, a, b) => Ahead(recent, a, b)
  BY DEF CacheInv, QueueFollowsUse
<1>3. order' = Retain(order, S) /\ map' = Without(map, S)
  BY DEF LruRemove
<1>4. DOMAIN map' = DOMAIN map \ S /\ \A k \in DOMAIN map' : map'[k] = map[k]
  BY <1>3 DEF Without
<1>5. /\ order' \in Seq(Keys) /\ Once(order') /\ Len(order') <= Len(order)
      /\ \A u : Queues(order', u) <=> u \notin S /\ Queues(order, u)
      /\ \A a, b : Ahead(order', a, b) => Ahead(order, a, b)
  BY <1>1, <1>3, RetainFacts
<1>6. ToSet(order') = DOMAIN map'
  BY <1>1, <1>4, <1>5, Members
<1>7. Len(order') <= IF capacity' = 0 THEN 1 ELSE capacity'
  <2>1. Len(order') \in Nat
    BY <1>5
  <2>2. QED BY <1>1, <1>5, <2>1
<1>8. OrderIsMap'
  BY <1>5, <1>6, <1>7 DEF OrderIsMap, Once
<1>9. QueueFollowsUse'
  BY <1>2, <1>5 DEF QueueFollowsUse
<1>10. QED BY <1>4, <1>5, <1>8, <1>9

\* A key comes to the end of what is left of the queue.
LEMMA Placed ==
  ASSUME CacheInv, NEW k \in Keys, NEW rest \in Seq(Keys), Once(rest), ~Queues(rest, k),
         \A u \in Keys : Queues(rest, u) => Queues(order, u),
         \A a, b \in Keys : Ahead(rest, a, b) => Ahead(order, a, b),
         order' = Append(rest, k), Use(k)
  PROVE  /\ QueueFollowsUse' /\ order' \in Seq(Keys) /\ recent' \in Seq(Keys)
         /\ Once(order') /\ Len(order') = Len(rest) + 1
         /\ \A u : Queues(order', u) <=> u = k \/ Queues(rest, u)
         /\ \A j \in Keys : j # k => Cardinality(Newer(j)) <= Cardinality(Newer(j)')
<1>1. /\ order \in Seq(Keys) /\ recent \in Seq(Keys) /\ Once(recent)
      /\ \A u \in Keys : Queues(order, u) => Queues(recent, u)
      /\ \A a, b \in Keys : Ahead(order, a, b) => Ahead(recent, a, b)
  BY DEF CacheInv, TypeOK, QueueFollowsUse
<1>2. /\ order' \in Seq(Keys) /\ Once(order') /\ Len(order') = Len(rest) + 1
      /\ \A u : Queues(order', u) <=> u = k \/ Queues(rest, u)
      /\ \A a, b : Ahead(order', a, b) <=> Ahead(rest, a, b) \/ (b = k /\ Queues(rest, a))
  BY EndAdded
<1>3. recent' = Append(RemoveFirst(recent, k), k)
  BY DEF Use
<1>4. /\ recent' \in Seq(Keys) /\ Once(recent')
      /\ \A u : Queues(recent', u) <=> u = k \/ Queues(recent, u)
      /\ \A a, b : Ahead(recent', a, b) <=> \/ a # k /\ b # k /\ Ahead(recent, a, b)
                                            \/ a # k /\ b = k /\ Queues(recent, a)
  BY <1>1, <1>3, MovedToEnd
<1>5. \A u \in Keys : Queues(order', u) => Queues(recent', u)
  BY <1>1, <1>2, <1>4
<1>6. ASSUME NEW a \in Keys, NEW b \in Keys, Ahead(order', a, b) PROVE Ahead(recent', a, b)
  <2>1. CASE Ahead(rest, a, b)
    <3>1. Queues(rest, a) /\ Queues(rest, b)
      BY <2>1 DEF Ahead, Queues
    <3>2. a # k /\ b # k /\ Ahead(recent, a, b)
      BY <1>1, <2>1, <3>1
    <3>3. QED BY <1>4, <3>2
  <2>2. CASE b = k /\ Queues(rest, a)
    BY <1>1, <1>4, <2>2
  <2>3. QED BY <1>2, <1>6, <2>1, <2>2
<1>7. QueueFollowsUse'
  BY <1>4, <1>5, <1>6 DEF QueueFollowsUse
<1>8. ASSUME NEW j \in Keys, j # k PROVE Cardinality(Newer(j)) <= Cardinality(Newer(j)')
  <2>1. Cardinality(NewerIn(recent, j)) <= Cardinality(NewerIn(Append(RemoveFirst(recent, k), k), j))
    BY <1>1, <1>8, NewerGrow
  <2>2. Newer(j) = NewerIn(recent, j) /\ Newer(j)' = NewerIn(recent', j)
    BY DEF Newer, NewerIn
  <2>3. QED BY <1>3, <2>1, <2>2
<1>9. QED BY <1>2, <1>4, <1>7, <1>8

\* What a get returns, from what it found.
LEMMA Answered ==
  ASSUME CacheInv, NEW k \in Keys, NEW found \in Values \cup {"none"}, Answer(k, found),
         smallest' = smallest,
         \/ k \in DOMAIN map /\ ~Expired(map[k]) /\ found = map[k].val
         \/ k \in DOMAIN map /\ Expired(map[k]) /\ found = "none"
         \/ k \notin DOMAIN map /\ found = "none"
  PROVE  /\ ServesLastSet'
         /\ got' \in [found : Values \cup {"none"}, wanted : Values \cup {"none"}, newer : Nat]
<1> DEFINE wanted == IF Expired(last[k]) THEN "none" ELSE last[k].val
           newer  == Cardinality(Newer(k))
<1>1. TypeOK /\ Once(recent) /\ smallest \in Nat
  BY DEF CacheInv, QueueFollowsUse, TypeOK
<1>2. newer \in Nat /\ last[k].val \in Values \cup {"none"}
  BY <1>1, Asked
<1>3. wanted \in Values \cup {"none"}
  BY <1>2
<1>4. found # "none" \/ newer < smallest => found = wanted
  <2>1. CASE k \in DOMAIN map
    <3>1. map[k] = last[k]
      BY <2>1 DEF CacheInv, MapIsLastSet
    <3>2. QED BY <2>1, <3>1
  <2>2. CASE k \notin DOMAIN map
    <3>1. last[k] = None \/ Expired(last[k]) \/ newer >= smallest
      BY <2>2 DEF CacheInv, EvictedIsOld
    <3>2. last[k] = None => last[k].val = "none"
      BY DEF None
    <3>3. newer < smallest => wanted = "none"
      BY <1>1, <1>2, <3>1, <3>2
    <3>4. QED BY <2>2, <3>3
  <2>3. QED BY <2>1, <2>2
<1>5. got' = [found |-> found, wanted |-> wanted, newer |-> newer]
  BY DEF Answer
<1> HIDE DEF wanted, newer
<1>6. got'.found = found /\ got'.wanted = wanted /\ got'.newer = newer
  BY <1>5
<1>7. ServesLastSet'
  BY <1>4, <1>6 DEF ServesLastSet
<1>8. QED BY <1>2, <1>3, <1>5, <1>7

LEMMA GetStep ==
  ASSUME CacheInv, NEW k \in Keys, Get(k)
  PROVE  CacheInv'
<1>1. /\ expiring' = expiring /\ capacity' = capacity /\ now' = now /\ smallest' = smallest
      /\ last' = last
  BY DEF Get
<1>2. TypeOK /\ OrderIsMap /\ QueueFollowsUse /\ MapIsLastSet /\ EvictedIsOld
  BY DEF CacheInv
<1>3. CASE k \in DOMAIN map /\ ~Expired(map[k]) /\ Answer(k, map[k].val) /\ Touch(k) /\ Use(k)
           /\ map' = map
  <2> DEFINE rest == RemoveFirst(order, k)
  <2>1. order \in Seq(Keys) /\ Once(order) /\ Queues(order, k) /\ ToSet(order) = DOMAIN map
        /\ Len(order) <= IF capacity = 0 THEN 1 ELSE capacity
    BY <1>2, <1>3, Members DEF TypeOK, OrderIsMap, Once
  <2>2. /\ rest \in Seq(Keys) /\ Once(rest) /\ Len(rest) = Len(order) - 1
        /\ \A u : Queues(rest, u) <=> u # k /\ Queues(order, u)
        /\ \A a, b : Ahead(rest, a, b) <=> a # k /\ b # k /\ Ahead(order, a, b)
    BY <2>1, FirstRemoved
  <2>3. order' = Append(rest, k)
    BY <1>3 DEF Touch
  <2> HIDE DEF rest
  <2>4. ~Queues(rest, k)
    BY <2>2
  <2>5. /\ QueueFollowsUse' /\ order' \in Seq(Keys) /\ recent' \in Seq(Keys)
        /\ Once(order') /\ Len(order') = Len(rest) + 1
        /\ \A u : Queues(order', u) <=> u = k \/ Queues(rest, u)
        /\ \A j \in Keys : j # k => Cardinality(Newer(j)) <= Cardinality(Newer(j)')
    BY <1>3, <2>2, <2>3, <2>4, Placed
  <2>6. map[k].val \in Values \cup {"none"}
    BY <1>2, <1>3 DEF TypeOK, Entries
  <2>7. /\ ServesLastSet'
        /\ got' \in [found : Values \cup {"none"}, wanted : Values \cup {"none"}, newer : Nat]
    BY <1>1, <1>3, <2>6, Answered
  <2>8. OrderIsMap'
    <3>1. ToSet(order') = DOMAIN map'
      BY <1>3, <2>1, <2>2, <2>5, Members
    <3>2. Len(order') = Len(order)
      BY <2>1, <2>2, <2>5
    <3>3. QED BY <1>1, <2>1, <2>5, <3>1, <3>2 DEF OrderIsMap, Once
  <2>9. TypeOK'
    BY <1>1, <1>2, <1>3, <2>5, <2>7 DEF TypeOK
  <2>10. MapIsLastSet'
    BY <1>1, <1>2, <1>3 DEF MapIsLastSet
  <2>11. EvictedIsOld'
    <3>1. smallest' <= capacity'
      BY <1>1, <1>2 DEF EvictedIsOld
    <3>2. ASSUME NEW j \in Keys, j \notin DOMAIN map', last'[j] # None, ~Expired(last[j])'
          PROVE  Cardinality(Newer(j)') >= smallest'
      <4>1. j # k /\ ~Expired(last[j]) /\ Cardinality(Newer(j)) >= smallest
        BY <1>1, <1>2, <1>3, <3>2 DEF EvictedIsOld, Expired
      <4>2. Cardinality(Newer(j)) <= Cardinality(Newer(j)')
        BY <2>5, <4>1
      <4>3. Cardinality(Newer(j)) \in Nat /\ smallest \in Nat
        BY <1>2, Asked DEF QueueFollowsUse, TypeOK
      <4>4. Cardinality(Newer(j)') \in Nat
        <5>1. Newer(j)' = NewerIn(recent', j)
          BY DEF Newer, NewerIn
        <5>2. Once(recent')
          BY <2>5 DEF QueueFollowsUse
        <5>3. QED BY <2>5, <5>1, <5>2, NewerMembers
      <4>5. QED BY <1>1, <4>1, <4>2, <4>3, <4>4
    <3>3. QED BY <3>1, <3>2 DEF EvictedIsOld
  <2>12. QED BY <2>5, <2>7, <2>8, <2>9, <2>10, <2>11 DEF CacheInv
<1>4. CASE k \in DOMAIN map /\ Expired(map[k]) /\ Answer(k, "none") /\ LruRemove({k})
           /\ recent' = recent
  <2>1. /\ OrderIsMap' /\ QueueFollowsUse' /\ order' \in Seq(Keys)
        /\ DOMAIN map' = DOMAIN map \ {k}
        /\ \A j \in DOMAIN map' : map'[j] = map[j]
    BY <1>1, <1>4, Dropped
  <2>2. /\ ServesLastSet'
        /\ got' \in [found : Values \cup {"none"}, wanted : Values \cup {"none"}, newer : Nat]
    BY <1>1, <1>4, Answered
  <2>3. TypeOK'
    BY <1>1, <1>2, <1>4, <2>1, <2>2 DEF TypeOK
  <2>4. MapIsLastSet'
    BY <1>1, <1>2, <2>1 DEF MapIsLastSet
  <2>5. EvictedIsOld'
    <3>1. last[k] = map[k]
      BY <1>2, <1>4 DEF MapIsLastSet
    <3>2. \A j \in Keys : Newer(j)' = Newer(j) /\ (Expired(last[j])' <=> Expired(last[j]))
      BY <1>1, <1>4 DEF Newer, Expired
    <3>3. QED BY <1>1, <1>2, <1>4, <2>1, <3>1, <3>2 DEF EvictedIsOld
  <2>6. QED BY <2>1, <2>2, <2>3, <2>4, <2>5 DEF CacheInv
<1>5. CASE k \notin DOMAIN map /\ Answer(k, "none") /\ map' = map /\ order' = order /\ recent' = recent
  <2>1. /\ ServesLastSet'
        /\ got' \in [found : Values \cup {"none"}, wanted : Values \cup {"none"}, newer : Nat]
    BY <1>1, <1>5, Answered
  <2>2. TypeOK'
    BY <1>1, <1>2, <1>5, <2>1 DEF TypeOK
  <2>3. OrderIsMap' /\ QueueFollowsUse' /\ MapIsLastSet'
    BY <1>1, <1>2, <1>5 DEF OrderIsMap, QueueFollowsUse, MapIsLastSet
  <2>4. EvictedIsOld'
    BY <1>1, <1>2, <1>5 DEF EvictedIsOld, Newer, Expired
  <2>5. QED BY <2>1, <2>2, <2>3, <2>4 DEF CacheInv
<1>6. QED BY <1>3, <1>4, <1>5 DEF Get

\* set: the new key takes the place of the key used longest ago.
LEMMA SetStep ==
  ASSUME CacheInv, NEW k \in Keys, NEW v \in Values, NEW ttl \in Ttls \cup {DefaultTtl, NoTtl},
         Set(k, v, ttl)
  PROVE  CacheInv'
<1> DEFINE e == [val |-> v, exp |-> Expires(ttl)]
           evict == k \notin DOMAIN map /\ Cardinality(DOMAIN map) >= capacity /\ order # <<>>
           rest == IF evict THEN Tail(order) ELSE RemoveFirst(order, k)
           kept == IF evict THEN Without(map, {Head(order)}) ELSE map
<1>1. /\ expiring' = expiring /\ capacity' = capacity /\ now' = now /\ smallest' = smallest
      /\ got' = got /\ last' = [last EXCEPT ![k] = e] /\ Use(k)
      /\ order' = Append(rest, k)
      /\ map' = [x \in DOMAIN kept \cup {k} |-> IF x = k THEN e ELSE kept[x]]
  BY DEF Set, LruPut
<1>2. TypeOK /\ OrderIsMap /\ QueueFollowsUse /\ MapIsLastSet /\ EvictedIsOld /\ ServesLastSet
  BY DEF CacheInv
<1>3. /\ order \in Seq(Keys) /\ Once(order) /\ Len(order) \in Nat
      /\ ToSet(order) = DOMAIN map /\ capacity \in Nat
      /\ Len(order) <= IF capacity = 0 THEN 1 ELSE capacity
      /\ Cardinality(DOMAIN map) = Len(order)
      /\ \A u : u \in DOMAIN map <=> Queues(order, u)
  <2>1. /\ order \in Seq(Keys) /\ Once(order) /\ Len(order) \in Nat
        /\ ToSet(order) = DOMAIN map /\ capacity \in Nat
        /\ Len(order) <= IF capacity = 0 THEN 1 ELSE capacity
    BY <1>2, CacheAssumption DEF TypeOK, OrderIsMap, Once
  <2>2. Cardinality(ToSet(order)) = Len(order)
    BY <2>1, OnceCounts
  <2>3. QED BY <2>1, <2>2, Members
<1>4. e \in Entries
  <2>1. now \in Nat /\ ttl \in Nat \cup {NoTtl}
    BY <1>2, CacheAssumption DEF TypeOK
  <2>2. Expires(ttl) \in Nat \cup {NoTtl}
    BY <2>1 DEF Expires
  <2>3. QED BY <2>2 DEF Entries
<1> HIDE DEF e
<1>5. last' \in [Keys -> Entries \cup {None}] /\ last'[k] = e /\ \A j \in Keys : j # k => last'[j] = last[j]
  BY <1>1, <1>2, <1>4 DEF TypeOK
\* What is left, and what went.
<1>6. /\ rest \in Seq(Keys) /\ Once(rest) /\ ~Queues(rest, k)
      /\ \A u : Queues(rest, u) <=> u # k /\ u \in DOMAIN kept
      /\ \A u : Queues(rest, u) => Queues(order, u)
      /\ \A a, b : Ahead(rest, a, b) => Ahead(order, a, b)
      /\ DOMAIN kept \subseteq DOMAIN map /\ \A x \in DOMAIN kept : kept[x] = map[x]
      /\ Len(rest) + 1 <= IF capacity = 0 THEN 1 ELSE capacity
  <2>1. CASE evict
    <3>1. /\ rest = Tail(order) /\ kept = Without(map, {Head(order)})
          /\ k \notin DOMAIN map /\ order # <<>>
      BY <2>1
    <3> HIDE DEF evict, rest, kept
    <3>2. /\ rest \in Seq(Keys) /\ Once(rest) /\ Len(rest) = Len(order) - 1
          /\ \A u : Queues(rest, u) <=> u # Head(order) /\ Queues(order, u)
          /\ \A a, b : Ahead(rest, a, b) => Ahead(order, a, b)
      BY <1>3, <3>1, FrontRemoved
    <3>3. DOMAIN kept = DOMAIN map \ {Head(order)} /\ \A x \in DOMAIN kept : kept[x] = map[x]
      BY <3>1 DEF Without
    <3>4. \A u : Queues(rest, u) <=> u # k /\ u \in DOMAIN kept
      BY <1>3, <3>1, <3>2, <3>3
    <3>5. Len(rest) + 1 <= IF capacity = 0 THEN 1 ELSE capacity
      BY <1>3, <3>2
    <3>6. ~Queues(rest, k)
      BY <3>4
    <3>7. QED BY <3>2, <3>3, <3>4, <3>5, <3>6
  <2>2. CASE ~evict
    <3>1. /\ rest = RemoveFirst(order, k) /\ kept = map
          /\ k \in DOMAIN map \/ Len(order) < capacity \/ order = <<>>
      BY <1>3, <2>2
    <3>2. /\ rest \in Seq(Keys) /\ Once(rest)
          /\ Len(rest) = IF Queues(order, k) THEN Len(order) - 1 ELSE Len(order)
          /\ \A u : Queues(rest, u) <=> u # k /\ Queues(order, u)
          /\ \A a, b : Ahead(rest, a, b) <=> a # k /\ b # k /\ Ahead(order, a, b)
      BY <1>3, <3>1, FirstRemoved
    <3> HIDE DEF rest, kept
    <3>3. Len(rest) + 1 <= IF capacity = 0 THEN 1 ELSE capacity
      <4>1. CASE k \in DOMAIN map
        BY <1>3, <3>2, <4>1
      <4>2. CASE k \notin DOMAIN map /\ Len(order) < capacity
        BY <1>3, <3>2, <4>2
      <4>3. CASE k \notin DOMAIN map /\ order = <<>>
        <5>1. Len(order) = 0
          BY <4>3
        <5>2. Len(rest) = 0
          BY <1>3, <3>2, <4>3, <5>1
        <5>3. QED BY <1>3, <5>2
      <4>4. QED BY <3>1, <4>1, <4>2, <4>3
    <3>4. QED BY <1>3, <3>1, <3>2, <3>3
  <2>3. QED BY <2>1, <2>2
<1>7. ASSUME NEW j \in Keys, j \in DOMAIN map, j \notin DOMAIN kept, j # k
      PROVE  /\ Len(rest) + 1 >= capacity
             /\ Queues(order, j)
             /\ \A u \in Keys : Queues(rest, u) => u # j /\ Ahead(order, j, u)
             /\ ~Queues(order, k)
  <2>1. evict /\ rest = Tail(order) /\ kept = Without(map, {Head(order)}) /\ order # <<>>
    BY <1>7
  <2>2. /\ Len(rest) = Len(order) - 1
        /\ \A u : Queues(rest, u) <=> u # Head(order) /\ Queues(order, u)
        /\ \A u : Queues(rest, u) => Ahead(order, Head(order), u)
    BY <1>3, <2>1, FrontRemoved
  <2>3. j = Head(order)
    BY <1>7, <2>1 DEF Without
  <2>4. Len(order) >= capacity /\ k \notin DOMAIN map
    BY <1>3, <2>1
  <2> HIDE DEF rest, kept, evict
  <2>5. Len(rest) + 1 >= capacity
    BY <1>3, <2>2, <2>4
  <2>6. QED BY <1>3, <1>7, <2>2, <2>3, <2>4, <2>5
<1> HIDE DEF evict, rest, kept
<1>8. /\ QueueFollowsUse' /\ order' \in Seq(Keys) /\ recent' \in Seq(Keys)
      /\ Once(order') /\ Len(order') = Len(rest) + 1
      /\ \A u : Queues(order', u) <=> u = k \/ Queues(rest, u)
      /\ \A j \in Keys : j # k => Cardinality(Newer(j)) <= Cardinality(Newer(j)')
  BY <1>1, <1>6, Placed
<1>9. DOMAIN map' = DOMAIN kept \cup {k} /\ map'[k] = e /\ \A x \in DOMAIN map' : x # k => map'[x] = map[x]
  BY <1>1, <1>6
<1>10. OrderIsMap'
  <2>1. ToSet(order') = DOMAIN map'
    BY <1>6, <1>8, <1>9, Members
  <2>2. QED BY <1>1, <1>6, <1>8, <2>1 DEF OrderIsMap, Once
<1>11. TypeOK'
  BY <1>1, <1>2, <1>4, <1>5, <1>6, <1>8, <1>9 DEF TypeOK
<1>12. MapIsLastSet'
  <2>1. DOMAIN map' \subseteq Keys
    BY <1>11 DEF TypeOK
  <2>2. \A x \in DOMAIN map' : x # k => x \in DOMAIN map
    BY <1>6, <1>9
  <2>3. QED BY <1>2, <1>5, <1>9, <2>1, <2>2 DEF MapIsLastSet
<1>13. EvictedIsOld'
  <2>1. smallest' <= capacity'
    BY <1>1, <1>2 DEF EvictedIsOld
  <2>2. ASSUME NEW j \in Keys, j \notin DOMAIN map', last'[j] # None, ~Expired(last[j])'
        PROVE  Cardinality(Newer(j)') >= smallest'
    <3>1. j # k /\ j \notin DOMAIN kept
      BY <1>9, <2>2
    <3>2. Newer(j)' = NewerIn(recent', j) /\ Once(recent') /\ smallest \in Nat
      BY <1>2, <1>8 DEF Newer, NewerIn, QueueFollowsUse, TypeOK
    <3>3. Cardinality(Newer(j)') \in Nat
      BY <1>8, <3>2, NewerMembers
    <3>4. CASE j \in DOMAIN map
      <4>1. /\ Len(rest) + 1 >= capacity /\ Queues(order, j) /\ ~Queues(order, k)
            /\ \A u \in Keys : Queues(rest, u) => u # j /\ Ahead(order, j, u)
        BY <1>7, <3>1, <3>4
      <4>2. /\ recent \in Seq(Keys) /\ Once(recent)
            /\ \A u \in Keys : Queues(order, u) => Queues(recent, u)
            /\ \A a, b \in Keys : Ahead(order, a, b) => Ahead(recent, a, b)
        BY <1>2 DEF QueueFollowsUse, TypeOK
      <4>3. recent' = Append(RemoveFirst(recent, k), k)
        BY <1>1 DEF Use
      <4>4. /\ \A u : Queues(recent', u) <=> u = k \/ Queues(recent, u)
            /\ \A a, b : Ahead(recent', a, b) <=> \/ a # k /\ b # k /\ Ahead(recent, a, b)
                                                  \/ a # k /\ b = k /\ Queues(recent, a)
        BY <4>2, <4>3, MovedToEnd
      <4>5. ASSUME NEW u \in Keys, Queues(order', u)
            PROVE  u # j /\ Queues(recent', u) /\ Ahead(recent', j, u)
        <5>1. CASE u = k
          BY <3>1, <4>1, <4>2, <4>4, <5>1
        <5>2. CASE u # k
          <6>1. Queues(rest, u)
            BY <1>8, <4>5, <5>2
          <6>2. Queues(recent, u) /\ Ahead(recent, j, u) /\ u # j
            BY <1>6, <4>1, <4>2, <6>1
          <6>3. QED BY <3>1, <4>4, <5>2, <6>2
        <5>3. QED BY <5>1, <5>2
      <4>6. Len(order') <= Cardinality(NewerIn(recent', j))
        BY <1>8, <3>2, <4>5, NewerAtLeast
      <4>7. smallest <= capacity
        BY <1>2 DEF EvictedIsOld
      <4>8. Len(rest) \in Nat
        BY <1>6
      <4>9. QED BY <1>1, <1>3, <1>8, <3>2, <3>3, <4>1, <4>6, <4>7, <4>8
    <3>5. CASE j \notin DOMAIN map
      <4>1. last'[j] = last[j]
        BY <1>5, <3>1
      <4>2. last[j] # None /\ ~Expired(last[j])
        BY <1>1, <2>2, <4>1 DEF Expired
      <4>3. Cardinality(Newer(j)) >= smallest
        BY <1>2, <3>5, <4>2 DEF EvictedIsOld
      <4>4. Cardinality(Newer(j)) <= Cardinality(Newer(j)')
        BY <1>8, <3>1
      <4>5. Cardinality(Newer(j)) \in Nat
        BY <1>2, Asked DEF QueueFollowsUse
      <4>6. QED BY <1>1, <3>2, <3>3, <4>3, <4>4, <4>5
    <3>6. QED BY <3>4, <3>5
  <2>3. QED BY <2>1, <2>2 DEF EvictedIsOld
<1>14. ServesLastSet'
  BY <1>1, <1>2 DEF ServesLastSet
<1>15. QED BY <1>8, <1>10, <1>11, <1>12, <1>13, <1>14 DEF CacheInv

\* remove, clear and invalidate_prefix: what was set before is no longer asked for.
LEMMA ForgetStep ==
  ASSUME CacheInv, NEW S, Forget(S)
  PROVE  CacheInv'
<1>1. /\ LruRemove(S) /\ expiring' = expiring /\ capacity' = capacity /\ now' = now
      /\ recent' = recent /\ smallest' = smallest /\ got' = got
      /\ last' = [k \in Keys |-> IF k \in S THEN None ELSE last[k]]
  BY DEF Forget
<1>2. TypeOK /\ MapIsLastSet /\ EvictedIsOld /\ ServesLastSet
  BY DEF CacheInv
<1>3. /\ OrderIsMap' /\ QueueFollowsUse' /\ order' \in Seq(Keys)
      /\ DOMAIN map' = DOMAIN map \ S
      /\ \A k \in DOMAIN map' : map'[k] = map[k]
  BY <1>1, Dropped
<1>4. last' \in [Keys -> Entries \cup {None}]
  BY <1>1, <1>2 DEF TypeOK
<1>5. TypeOK'
  BY <1>1, <1>2, <1>3, <1>4 DEF TypeOK
<1>6. MapIsLastSet'
  BY <1>1, <1>2, <1>3 DEF MapIsLastSet, TypeOK
<1>7. EvictedIsOld'
  <2>1. \A k \in Keys : Newer(k)' = Newer(k)
    BY <1>1 DEF Newer
  <2>2. ASSUME NEW k \in Keys, k \notin DOMAIN map', last'[k] # None, ~Expired(last[k])'
        PROVE  Cardinality(Newer(k)') >= smallest'
    <3>1. k \notin S /\ last'[k] = last[k]
      BY <1>1, <2>2
    <3>2. k \notin DOMAIN map /\ last[k] # None /\ ~Expired(last[k])
      BY <1>1, <1>3, <2>2, <3>1 DEF Expired
    <3>3. QED BY <1>1, <1>2, <2>1, <3>2 DEF EvictedIsOld
  <2>3. smallest' <= capacity'
    BY <1>1, <1>2 DEF EvictedIsOld
  <2>4. QED BY <2>2, <2>3 DEF EvictedIsOld
<1>8. ServesLastSet'
  BY <1>1, <1>2 DEF ServesLastSet
<1>9. QED BY <1>3, <1>5, <1>6, <1>7, <1>8 DEF CacheInv

LEMMA CleanupStep ==
  ASSUME CacheInv, CleanupExpired
  PROVE  CacheInv'
<1> DEFINE S == {k \in DOMAIN map : Expired(map[k])}
<1>1. /\ LruRemove(S) /\ expiring' = expiring /\ capacity' = capacity /\ now' = now
      /\ recent' = recent /\ smallest' = smallest /\ got' = got /\ last' = last
  BY DEF CleanupExpired
<1>2. TypeOK /\ MapIsLastSet /\ EvictedIsOld /\ ServesLastSet
  BY DEF CacheInv
<1>3. \A k \in S : k \in DOMAIN map /\ Expired(map[k])
  OBVIOUS
<1> HIDE DEF S
<1>4. /\ OrderIsMap' /\ QueueFollowsUse' /\ order' \in Seq(Keys)
      /\ DOMAIN map' = DOMAIN map \ S
      /\ \A k \in DOMAIN map' : map'[k] = map[k]
  BY <1>1, Dropped
<1>5. TypeOK'
  BY <1>1, <1>2, <1>4 DEF TypeOK
<1>6. MapIsLastSet'
  BY <1>1, <1>2, <1>4 DEF MapIsLastSet
<1>7. EvictedIsOld'
  <2>1. \A k \in Keys : Newer(k)' = Newer(k) /\ (Expired(last[k])' <=> Expired(last[k]))
    BY <1>1 DEF Newer, Expired
  <2>2. \A k \in S : Expired(last[k])
    BY <1>2, <1>3 DEF MapIsLastSet
  <2>3. QED BY <1>1, <1>2, <1>4, <2>1, <2>2 DEF EvictedIsOld
<1>8. ServesLastSet'
  BY <1>1, <1>2 DEF ServesLastSet
<1>9. QED BY <1>4, <1>5, <1>6, <1>7, <1>8 DEF CacheInv

\* resize: all the keys that stay are newer than those that go.
LEMMA ResizeStep ==
  ASSUME CacheInv, NEW n \in Capacities, Resize(n)
  PROVE  CacheInv'
<1> DEFINE cut  == IF n < Len(order) THEN Len(order) - n ELSE 0
           keep == SubSeq(order, cut + 1, Len(order))
<1>1. /\ expiring' = expiring /\ now' = now /\ last' = last /\ recent' = recent /\ got' = got
      /\ capacity' = n /\ smallest' = (IF n < smallest THEN n ELSE smallest)
      /\ order' = keep /\ map' = Without(map, Keys \ ToSet(keep))
  BY DEF Resize
<1>2. TypeOK /\ OrderIsMap /\ QueueFollowsUse /\ MapIsLastSet /\ EvictedIsOld /\ ServesLastSet
  BY DEF CacheInv
<1>3. /\ order \in Seq(Keys) /\ Once(order) /\ Len(order) \in Nat /\ n \in Nat /\ smallest \in Nat
      /\ ToSet(order) = DOMAIN map /\ DOMAIN map \subseteq Keys
  BY <1>2, CacheAssumption DEF TypeOK, OrderIsMap, Once
<1>4. cut \in 0..Len(order) /\ Len(order) - cut <= n /\ (cut > 0 => Len(order) - cut = n)
  BY <1>3
<1> HIDE DEF cut
<1>5. /\ keep \in Seq(Keys) /\ Once(keep) /\ Len(keep) = Len(order) - cut
      /\ \A u : Queues(keep, u) => Queues(order, u)
      /\ \A a, b : Ahead(keep, a, b) => Ahead(order, a, b)
      /\ \A u, w : Queues(order, u) /\ ~Queues(keep, u) /\ Queues(keep, w) => cut > 0 /\ Ahead(order, u, w)
      /\ \A u : Queues(order, u) /\ ~Queues(keep, u) => cut > 0
  BY <1>3, <1>4, BackKept
<1> HIDE DEF keep
<1>6. /\ DOMAIN map' = ToSet(keep) /\ \A k \in DOMAIN map' : map'[k] = map[k]
  <2>1. ToSet(keep) \subseteq DOMAIN map
    BY <1>3, <1>5, Members
  <2>2. DOMAIN map' = DOMAIN map \ (Keys \ ToSet(keep)) /\ \A k \in DOMAIN map' : map'[k] = map[k]
    BY <1>1 DEF Without
  <2>3. QED BY <1>3, <2>1, <2>2
<1>7. OrderIsMap'
  <2>1. Len(keep) <= IF n = 0 THEN 1 ELSE n
    BY <1>3, <1>4, <1>5
  <2>2. QED BY <1>1, <1>5, <1>6, <2>1 DEF OrderIsMap, Once
<1>8. QueueFollowsUse'
  BY <1>1, <1>2, <1>5 DEF QueueFollowsUse
<1>9. smallest' \in Nat /\ smallest' <= n /\ smallest' <= smallest
  BY <1>1, <1>3
<1>10. TypeOK'
  <2>1. DOMAIN map' \subseteq DOMAIN map
    BY <1>3, <1>5, <1>6, Members
  <2>2. QED BY <1>1, <1>2, <1>5, <1>6, <1>9, <2>1 DEF TypeOK
<1>11. MapIsLastSet'
  <2>1. DOMAIN map' \subseteq DOMAIN map
    BY <1>3, <1>5, <1>6, Members
  <2>2. QED BY <1>1, <1>2, <1>6, <2>1 DEF MapIsLastSet
<1>12. EvictedIsOld'
  <2>1. ASSUME NEW k \in Keys, k \notin DOMAIN map', last'[k] # None, ~Expired(last[k])'
        PROVE  Cardinality(Newer(k)') >= smallest'
    <3>1. Newer(k)' = Newer(k) /\ last[k] # None /\ ~Expired(last[k])
      BY <1>1, <2>1 DEF Newer, Expired
    <3>2. Newer(k) = NewerIn(recent, k) /\ Cardinality(Newer(k)) \in Nat
      BY <1>2, Asked DEF QueueFollowsUse
    <3>3. CASE k \in DOMAIN map
      <4>1. Queues(order, k) /\ ~Queues(keep, k)
        BY <1>3, <1>6, <2>1, <3>3, Members
      <4>2. cut > 0 /\ \A u \in Keys : Queues(keep, u) => Ahead(order, k, u)
        BY <1>5, <4>1
      <4>3. Len(keep) = n
        BY <1>4, <1>5, <4>2
      <4>4. /\ recent \in Seq(Keys) /\ Once(recent)
            /\ \A u \in Keys : Queues(order, u) => Queues(recent, u)
            /\ \A a, b \in Keys : Ahead(order, a, b) => Ahead(recent, a, b)
        BY <1>2 DEF QueueFollowsUse, TypeOK
      <4>5. \A u \in Keys : Queues(keep, u) => u # k /\ Queues(recent, u) /\ Ahead(recent, k, u)
        BY <1>5, <4>1, <4>2, <4>4
      <4>6. Len(keep) <= Cardinality(NewerIn(recent, k))
        BY <1>5, <4>4, <4>5, NewerAtLeast
      <4>7. QED BY <1>3, <1>9, <3>1, <3>2, <4>3, <4>6
    <3>4. CASE k \notin DOMAIN map
      <4>1. Cardinality(Newer(k)) >= smallest
        BY <1>2, <3>1, <3>4 DEF EvictedIsOld
      <4>2. QED BY <1>3, <1>9, <3>1, <3>2, <4>1
    <3>5. QED BY <3>3, <3>4
  <2>2. QED BY <1>1, <1>9, <2>1 DEF EvictedIsOld
<1>13. ServesLastSet'
  <2>1. got.newer \in Nat
    BY <1>2 DEF TypeOK
  <2>2. got.newer < smallest' => got.newer < smallest
    BY <1>3, <1>9, <2>1
  <2>3. QED BY <1>1, <1>2, <2>2 DEF ServesLastSet
<1>14. QED BY <1>7, <1>8, <1>10, <1>11, <1>12, <1>13 DEF CacheInv

LEMMA TickStep ==
  ASSUME CacheInv, Tick
  PROVE  CacheInv'
<1>1. /\ expiring' = expiring /\ capacity' = capacity /\ map' = map /\ order' = order
      /\ last' = last /\ recent' = recent /\ smallest' = smallest /\ got' = got
      /\ now' = now + 1 /\ now < MaxTime
  BY DEF Tick
<1>2. TypeOK /\ OrderIsMap /\ QueueFollowsUse /\ MapIsLastSet /\ EvictedIsOld /\ ServesLastSet
  BY DEF CacheInv
<1>3. now \in Nat /\ now' \in 0..MaxTime
  BY <1>1, <1>2, CacheAssumption DEF TypeOK
<1>4. TypeOK'
  BY <1>1, <1>2, <1>3 DEF TypeOK
<1>5. OrderIsMap' /\ QueueFollowsUse' /\ MapIsLastSet' /\ ServesLastSet'
  BY <1>1, <1>2 DEF OrderIsMap, QueueFollowsUse, MapIsLastSet, ServesLastSet
<1>6. EvictedIsOld'
  <2>1. ASSUME NEW k \in Keys, Expired(last[k]) PROVE Expired(last[k])'
    <3>1. last[k].exp \in Nat \cup {NoTtl}
      BY <1>2 DEF TypeOK, Entries, None
    <3>2. last[k].exp # NoTtl /\ now > last[k].exp
      BY <2>1 DEF Expired
    <3>3. now + 1 > last[k].exp
      BY <1>3, <3>1, <3>2
    <3>4. QED BY <1>1, <3>2, <3>3 DEF Expired
  <2>2. \A k \in Keys : Newer(k)' = Newer(k)
    BY <1>1 DEF Newer
  <2>3. QED BY <1>1, <1>2, <2>1, <2>2 DEF EvictedIsOld
<1>7. QED BY <1>4, <1>5, <1>6 DEF CacheInv

LEMMA CacheStart == Init => CacheInv
<1> SUFFICES ASSUME Init PROVE CacheInv
  OBVIOUS
<1>1. /\ capacity \in Nat /\ DOMAIN map = {} /\ order = <<>> /\ now = 0 /\ recent = <<>>
      /\ last = [k \in Keys |-> None] /\ smallest = capacity /\ got = NoGet
  BY CacheAssumption DEF Init, Empty
<1>2. /\ DOMAIN order = {} /\ DOMAIN recent = {} /\ Len(order) = 0
      /\ order \in Seq(Keys) /\ recent \in Seq(Keys)
  BY <1>1
<1>3. TypeOK
  BY <1>1, <1>2, CacheAssumption DEF TypeOK, Init, NoGet
<1>4. OrderIsMap
  <2>1. ToSet(order) = {}
    BY <1>2 DEF ToSet
  <2>2. QED BY <1>1, <1>2, <2>1 DEF OrderIsMap
<1>5. QueueFollowsUse
  BY <1>2 DEF QueueFollowsUse, Once, Queues, Ahead
<1>6. MapIsLastSet
  BY <1>1 DEF MapIsLastSet
<1>7. EvictedIsOld
  BY <1>1 DEF EvictedIsOld
<1>8. ServesLastSet
  BY <1>1 DEF ServesLastSet, NoGet
<1>9. QED BY <1>3, <1>4, <1>5, <1>6, <1>7, <1>8 DEF CacheInv

LEMMA CacheStep == CacheInv /\ [Next]_vars => CacheInv'
<1> SUFFICES ASSUME CacheInv, [Next]_vars PROVE CacheInv'
  OBVIOUS
<1>1. ASSUME NEW k \in Keys, Get(k) PROVE CacheInv'
  BY <1>1, GetStep
<1>2. ASSUME NEW k \in Keys, RemoveKey(k) PROVE CacheInv'
  BY <1>2, ForgetStep DEF RemoveKey
<1>3. ASSUME NEW k \in Keys, NEW v \in Values, NEW ttl \in Ttls \cup {DefaultTtl, NoTtl}, Set(k, v, ttl)
      PROVE  CacheInv'
  BY <1>3, SetStep
<1>4. ASSUME NEW p \in PrefixSets, InvalidatePrefix(p) PROVE CacheInv'
  BY <1>4, ForgetStep DEF InvalidatePrefix
<1>5. ASSUME NEW n \in Capacities, Resize(n) PROVE CacheInv'
  BY <1>5, ResizeStep
<1>6. CASE Clear
  BY <1>6, ForgetStep DEF Clear
<1>7. CASE CleanupExpired
  BY <1>7, CleanupStep
<1>8. CASE Tick
  BY <1>8, TickStep
<1>9. CASE UNCHANGED vars
  <2>1. /\ expiring' = expiring /\ capacity' = capacity /\ map' = map /\ order' = order /\ now' = now
        /\ last' = last /\ recent' = recent /\ smallest' = smallest /\ got' = got
    BY <1>9 DEF vars
  <2>2. TypeOK' /\ OrderIsMap' /\ QueueFollowsUse'
    BY <2>1 DEF CacheInv, TypeOK, OrderIsMap, QueueFollowsUse
  <2>3. MapIsLastSet' /\ EvictedIsOld' /\ ServesLastSet'
    BY <2>1 DEF CacheInv, MapIsLastSet, EvictedIsOld, ServesLastSet, Newer, Expired
  <2>4. QED BY <2>2, <2>3 DEF CacheInv
<1>10. QED BY <1>1, <1>2, <1>3, <1>4, <1>5, <1>6, <1>7, <1>8, <1>9 DEF Next

-----------------------------------------------------------------------------
\* The inductive invariant of the caches: the queue is the map in the order of
\* use, the map holds what was last set, and who was evicted is old.
THEOREM CacheInvariant == Spec => []CacheInv
<1>1. Init => CacheInv
  BY CacheStart
<1>2. CacheInv /\ [Next]_vars => CacheInv'
  BY CacheStep
<1>3. QED BY <1>1, <1>2, PTL DEF Spec

\* SimpleLruCache: the queue and the map have the same keys, each once, and no
\* more of them than the capacity (one, if that is 0).
THEOREM CacheOrderIsMap == Spec => []OrderIsMap
<1>1. CacheInv => OrderIsMap
  BY DEF CacheInv
<1>2. QED BY <1>1, CacheInvariant, PTL

\* QueryCache and PreparedStatementCache: a get returns the last value set
\* that has not expired and was not removed, and it misses such a value only
\* when as many other keys as the capacity were used since.
THEOREM CacheServesLastSet == Spec => []ServesLastSet
<1>1. CacheInv => ServesLastSet
  BY DEF CacheInv
<1>2. QED BY <1>1, CacheInvariant, PTL


-----------------------------------------------------------------------------
(* The reader, on a file that was cut perhaps.                             *)

\* A reader that has read g and stands at a.
Seen(r, a, g) == r.at = a /\ r.ok = TRUE /\ r.got = g

\* A reader that met the end of the file.
Over(b, r) == r.at = Len(b) /\ r.ok = FALSE

\* The file b agrees with w from a on, as far as it goes.
Match(b, a, w) == \A i \in 1..Len(w) : a + i <= Len(b) => b[a + i] = w[i]

\* q is the reader that has read x where w is: all of it, or the end of the file.
Reading(b, a, w, x, q) ==
  IF a + Len(w) <= Len(b) THEN Seen(q, a + Len(w), x) ELSE Over(b, q)

\* One field is read.
LEMMA FieldReads ==
  ASSUME NEW S, NEW b \in Seq(S), NEW a \in 0..Len(b), NEW g, NEW x, Match(b, a, <<x>>),
         NEW r, Seen(r, a, g)
  PROVE  /\ Reading(b, a, <<x>>, x, Field(b, r))
         /\ ~(a + 1 <= Len(b)) => Field(b, r).got = 0
<1>1. Len(<<x>>) = 1 /\ <<x>>[1] = x /\ Len(b) \in Nat /\ a \in Nat
  OBVIOUS
<1>2. r.at = a /\ r.ok = TRUE
  BY DEF Seen
<1>3. CASE a + 1 <= Len(b)
  <2>1. b[a + 1] = x
    BY <1>1, <1>3 DEF Match
  <2>2. r.at < Len(b)
    BY <1>1, <1>2, <1>3
  <2>3. Seen(Field(b, r), a + 1, x)
    BY <1>2, <2>1, <2>2 DEF Field, Seen
  <2>4. QED BY <1>1, <1>3, <2>3 DEF Reading
<1>4. CASE ~(a + 1 <= Len(b))
  <2>1. a = Len(b)
    BY <1>1, <1>4
  <2>2. Over(b, Field(b, r)) /\ Field(b, r).got = 0
    BY <1>1, <1>2, <2>1 DEF Field, Over
  <2>3. QED BY <1>1, <1>4, <2>2 DEF Reading
<1>5. QED BY <1>3, <1>4

\* Past the end nothing is read.
LEMMA FieldOver ==
  ASSUME NEW S, NEW b \in Seq(S), NEW r, Over(b, r)
  PROVE  Over(b, Field(b, r)) /\ Field(b, r).got = 0
<1>1. ~(r.at < Len(b))
  BY DEF Over
<1>2. Field(b, r) = [at |-> r.at, ok |-> FALSE, got |-> 0]
  BY <1>1 DEF Field
<1>3. QED BY <1>2 DEF Over

\* Two parts of a file, one behind the other.
LEMMA MatchSplit ==
  ASSUME NEW S, NEW b \in Seq(S), NEW a \in Nat, NEW u \in Seq(S), NEW v \in Seq(S), Match(b, a, u \o v)
  PROVE  /\ Match(b, a, u) /\ Match(b, a + Len(u), v)
         /\ Len(u) \in Nat /\ Len(v) \in Nat /\ Len(u \o v) = Len(u) + Len(v)
<1>1. /\ Len(u) \in Nat /\ Len(v) \in Nat /\ Len(u \o v) = Len(u) + Len(v)
      /\ \A i \in 1..Len(u) : (u \o v)[i] = u[i]
      /\ \A i \in 1..Len(v) : (u \o v)[Len(u) + i] = v[i]
  BY Joined
<1>2. Match(b, a, u)
  BY <1>1 DEF Match
<1>3. ASSUME NEW i \in 1..Len(v), (a + Len(u)) + i <= Len(b) PROVE b[(a + Len(u)) + i] = v[i]
  <2>1. Len(u) + i \in 1..Len(u \o v) /\ a + (Len(u) + i) = (a + Len(u)) + i
    BY <1>1
  <2>2. b[a + (Len(u) + i)] = (u \o v)[Len(u) + i]
    BY <1>3, <2>1 DEF Match
  <2>3. QED BY <1>1, <2>1, <2>2
<1>4. QED BY <1>1, <1>2, <1>3 DEF Match

\* Two fields are one and then another.
LEMMA Pair ==
  ASSUME NEW S, NEW x \in S, NEW y \in S
  PROVE  <<x, y>> = <<x>> \o <<y>> /\ <<x>> \in Seq(S) /\ <<y>> \in Seq(S) /\ Len(<<x>>) = 1
<1>1. <<x, y>> \in Seq(S) /\ Len(<<x, y>>) = 2 /\ <<x, y>>[1] = x /\ <<x, y>>[2] = y
  OBVIOUS
<1>2. <<x>> \in Seq(S) /\ <<y>> \in Seq(S) /\ Len(<<x>>) = 1 /\ Len(<<y>>) = 1 /\ <<x>>[1] = x /\ <<y>>[1] = y
  OBVIOUS
<1> DEFINE u == <<x, y>>
           w == <<x>> \o <<y>>
<1>3. w \in Seq(S) /\ Len(w) = 2 /\ w[1] = x /\ w[2] = y
  <2> DEFINE v1 == <<x>>
             v2 == <<y>>
  <2>1. v1 \in Seq(S) /\ v2 \in Seq(S) /\ Len(v1) = 1 /\ Len(v2) = 1 /\ v1[1] = x /\ v2[1] = y
    BY <1>2
  <2> HIDE DEF v1, v2
  <2>2. /\ v1 \o v2 \in Seq(S) /\ Len(v1 \o v2) = Len(v1) + Len(v2)
        /\ \A i \in 1..Len(v1) : (v1 \o v2)[i] = v1[i]
        /\ \A i \in 1..Len(v2) : (v1 \o v2)[Len(v1) + i] = v2[i]
    BY <2>1, Joined
  <2>3. (v1 \o v2)[1] = v1[1] /\ (v1 \o v2)[1 + 1] = v2[1]
    BY <2>1, <2>2
  <2>4. QED BY <2>1, <2>2, <2>3 DEF v1, v2
<1> HIDE DEF u, w
<1>4. \A i \in 1..2 : u[i] = w[i]
  BY <1>1, <1>3 DEF u
<1>5. u = w
  BY <1>1, <1>3, <1>4, SeqEqual DEF u
<1>6. QED BY <1>2, <1>5 DEF u, w

\* The second of two parts is read where the first one ended.
LEMMA ReadTwo ==
  ASSUME NEW S, NEW b \in Seq(S), NEW a \in 0..Len(b), NEW u \in Seq(S), NEW v \in Seq(S),
         NEW x, NEW y, NEW p, NEW q, Reading(b, a, u, x, p),
         a + Len(u) <= Len(b) => Reading(b, a + Len(u), v, y, q),
         Over(b, p) => Over(b, q)
  PROVE  Reading(b, a, u \o v, y, q)
<1>1. Len(u) \in Nat /\ Len(v) \in Nat /\ Len(u \o v) = Len(u) + Len(v) /\ Len(b) \in Nat /\ a \in Nat
  BY Joined
<1>2. a + Len(u \o v) = (a + Len(u)) + Len(v)
  BY <1>1
<1>3. CASE a + Len(u) <= Len(b)
  BY <1>2, <1>3 DEF Reading
<1>4. CASE ~(a + Len(u) <= Len(b))
  <2>1. Over(b, q)
    BY <1>4 DEF Reading
  <2>2. ~(a + Len(u \o v) <= Len(b))
    BY <1>1, <1>2, <1>4
  <2>3. QED BY <2>1, <2>2 DEF Reading
<1>5. QED BY <1>3, <1>4

\* What was read is put together.
LEMMA Renamed ==
  ASSUME NEW b, NEW a, NEW w, NEW x, NEW q, NEW y, NEW z, Reading(b, a, w, x, q),
         a + Len(w) <= Len(b) => z = y
  PROVE  Reading(b, a, w, y, Got(q, z))
BY DEF Reading, Seen, Over, Got

LEMMA RenamedOver ==
  ASSUME NEW b, NEW q, NEW z, Over(b, q)
  PROVE  Over(b, Got(q, z))
BY DEF Over, Got

-----------------------------------------------------------------------------
(* Lists of items.                                                         *)

\* Reading an item of one of the lists in a file.
One(kind, b, r) ==
  CASE kind = "value"  -> GetValue(b, r)
    [] kind = "column" -> GetColumn(b, r)
    [] kind = "row"    -> GetRow(b, r)
    [] kind = "table"  -> GetTable(b, r)

After(kind, b, r) == Got(One(kind, b, r), Append(r.got, One(kind, b, r).got))

\* f goes from item to item, from a reader n that has read how many there are.
Items(kind, b, n, f) ==
  f = [k \in 0..n.got |-> IF k = 0 THEN Got(n, <<>>) ELSE After(kind, b, f[k - 1])]

LEMMA ItemsExist ==
  ASSUME NEW kind, NEW b, NEW n, n.got \in Nat
  PROVE  \E f : Items(kind, b, n, f)
<1> DEFINE N == n.got
           Run(f, m) == /\ f = [k \in 0..m |-> f[k]] /\ f[0] = Got(n, <<>>)
                        /\ \A k \in 1..m : f[k] = After(kind, b, f[k - 1])
           T == {m \in 0..N : \E f : Run(f, m)}
<1>0. N \in Nat
  OBVIOUS
<1>1. 0 \in T
  <2> DEFINE f == [k \in 0..0 |-> Got(n, <<>>)]
  <2>1. f = [k \in 0..0 |-> f[k]] /\ f[0] = Got(n, <<>>)
    OBVIOUS
  <2> HIDE DEF f
  <2>2. Run(f, 0)
    BY <2>1
  <2>3. QED BY <1>0, <2>2
<1>2. ASSUME NEW m \in 1..N, m - 1 \in T PROVE m \in T
  <2>1. PICK f : Run(f, m - 1)
    BY <1>2
  <2> DEFINE next == After(kind, b, f[m - 1])
             g == [k \in 0..m |-> IF k = m THEN next ELSE f[k]]
  <2>2. /\ g = [k \in 0..m |-> g[k]]
        /\ \A k \in 0..m : g[k] = IF k = m THEN next ELSE f[k]
    OBVIOUS
  <2> HIDE DEF g, next
  <2>3. m \in Nat /\ m >= 1 /\ 0 \in 0..m /\ m - 1 \in 0..m /\ m \in 0..m /\ m \in 0..N
    BY <1>0
  <2>4. g[0] = Got(n, <<>>)
    BY <2>1, <2>2, <2>3
  <2>5. ASSUME NEW k \in 1..m PROVE g[k] = After(kind, b, g[k - 1])
    <3>1. k \in 0..m /\ k - 1 \in 0..m /\ k - 1 # m
      BY <2>3
    <3>2. g[k - 1] = f[k - 1]
      BY <2>2, <3>1
    <3>3. CASE k = m
      <4>1. g[k] = next
        BY <2>2, <3>1, <3>3
      <4>2. QED BY <3>2, <3>3, <4>1 DEF next
    <3>4. CASE k # m
      <4>1. k \in 1..(m - 1)
        BY <2>3, <3>4
      <4>2. g[k] = f[k]
        BY <2>2, <3>1, <3>4
      <4>3. f[k] = After(kind, b, f[k - 1])
        BY <2>1, <4>1
      <4>4. QED BY <3>2, <4>2, <4>3
    <3>5. QED BY <3>3, <3>4
  <2>6. Run(g, m)
    BY <2>2, <2>4, <2>5
  <2>7. QED BY <2>3, <2>6
<1> HIDE DEF T, N
<1>3. N \in T
  <2>1. \A m \in 0..N : m \in T
    BY <1>0, <1>1, <1>2, Induction
  <2>2. QED BY <1>0, <2>1
<1>4. PICK f : Run(f, N)
  BY <1>3 DEF T
<1>5. ASSUME NEW k \in 0..N
      PROVE  f[k] = IF k = 0 THEN Got(n, <<>>) ELSE After(kind, b, f[k - 1])
  <2>1. CASE k = 0
    BY <1>4, <2>1
  <2>2. CASE k # 0
    <3>1. k \in 1..N
      BY <1>0, <2>2
    <3>2. QED BY <1>4, <2>2, <3>1
  <2>3. QED BY <2>1, <2>2
<1>6. f = [k \in 0..N |-> IF k = 0 THEN Got(n, <<>>) ELSE After(kind, b, f[k - 1])]
  <2>1. f = [k \in 0..N |-> f[k]]
    BY <1>4
  <2>2. QED BY <1>5, <2>1
<1>7. QED BY <1>6 DEF Items, N

\* GetAll chooses one such run, whichever reader it is given.
LEMMA Unrolled ==
  ASSUME NEW b, NEW r, Field(b, r).got \in Nat
  PROVE  LET n == Field(b, r)
         IN  /\ \E f : Items("value", b, n, f) /\ GetAll(b, r, GetValue) = f[n.got]
             /\ \E f : Items("column", b, n, f) /\ GetAll(b, r, GetColumn) = f[n.got]
             /\ \E f : Items("row", b, n, f) /\ GetAll(b, r, GetRow) = f[n.got]
             /\ \E f : Items("table", b, n, f) /\ GetAll(b, r, GetTable) = f[n.got]
<1> DEFINE n == Field(b, r)
<1>1. \E f : Items("value", b, n, f) /\ GetAll(b, r, GetValue) = f[n.got]
  <2> DEFINE Loop(f) == [k \in 0..n.got |->
                 IF k = 0 THEN Got(n, <<>>)
                 ELSE LET q == GetValue(b, f[k - 1]) IN Got(q, Append(f[k - 1].got, q.got))]
             item == CHOOSE f : f = Loop(f)
  <2>1. GetAll(b, r, GetValue) = item[n.got]
    BY DEF GetAll
  <2>2. \A f : Items("value", b, n, f) <=> f = Loop(f)
    BY DEF Items, After, One
  <2>3. \E f : Items("value", b, n, f)
    BY ItemsExist
  <2> HIDE DEF Loop, n
  <2>4. item = Loop(item)
    BY <2>2, <2>3
  <2>5. QED BY <2>1, <2>2, <2>4
<1>2. \E f : Items("column", b, n, f) /\ GetAll(b, r, GetColumn) = f[n.got]
  <2> DEFINE Loop(f) == [k \in 0..n.got |->
                 IF k = 0 THEN Got(n, <<>>)
                 ELSE LET q == GetColumn(b, f[k - 1]) IN Got(q, Append(f[k - 1].got, q.got))]
             item == CHOOSE f : f = Loop(f)
  <2>1. GetAll(b, r, GetColumn) = item[n.got]
    BY DEF GetAll
  <2>2. \A f : Items("column", b, n, f) <=> f = Loop(f)
    BY DEF Items, After, One
  <2>3. \E f : Items("column", b, n, f)
    BY ItemsExist
  <2> HIDE DEF Loop, n
  <2>4. item = Loop(item)
    BY <2>2, <2>3
  <2>5. QED BY <2>1, <2>2, <2>4
<1>3. \E f : Items("row", b, n, f) /\ GetAll(b, r, GetRow) = f[n.got]
  <2> DEFINE Loop(f) == [k \in 0..n.got |->
                 IF k = 0 THEN Got(n, <<>>)
                 ELSE LET q == GetRow(b, f[k - 1]) IN Got(q, Append(f[k - 1].got, q.got))]
             item == CHOOSE f : f = Loop(f)
  <2>1. GetAll(b, r, GetRow) = item[n.got]
    BY DEF GetAll
  <2>2. \A f : Items("row", b, n, f) <=> f = Loop(f)
    BY DEF Items, After, One
  <2>3. \E f : Items("row", b, n, f)
    BY ItemsExist
  <2> HIDE DEF Loop, n
  <2>4. item = Loop(item)
    BY <2>2, <2>3
  <2>5. QED BY <2>1, <2>2, <2>4
<1>4. \E f : Items("table", b, n, f) /\ GetAll(b, r, GetTable) = f[n.got]
  <2> DEFINE Loop(f) == [k \in 0..n.got |->
                 IF k = 0 THEN Got(n, <<>>)
                 ELSE LET q == GetTable(b, f[k - 1]) IN Got(q, Append(f[k - 1].got, q.got))]
             item == CHOOSE f : f = Loop(f)
  <2>1. GetAll(b, r, GetTable) = item[n.got]
    BY DEF GetAll
  <2>2. \A f : Items("table", b, n, f) <=> f = Loop(f)
    BY DEF Items, After, One
  <2>3. \E f : Items("table", b, n, f)
    BY ItemsExist
  <2> HIDE DEF Loop, n
  <2>4. item = Loop(item)
    BY <2>2, <2>3
  <2>5. QED BY <2>1, <2>2, <2>4
<1>5. QED BY <1>1, <1>2, <1>3, <1>4

\* The members of a list of which one more is read.
LEMMA OneMore ==
  ASSUME NEW X, NEW xs \in Seq(X), NEW k \in 1..Len(xs)
  PROVE  /\ Append(SubSeq(xs, 1, k - 1), xs[k]) = SubSeq(xs, 1, k)
         /\ SubSeq(xs, 1, 0) = <<>> /\ SubSeq(xs, 1, Len(xs)) = xs
<1>1. Len(xs) \in Nat /\ k \in Nat /\ k >= 1 /\ k <= Len(xs) /\ \A i \in 1..Len(xs) : xs[i] \in X
  OBVIOUS
<1>2. SubSeq(xs, 1, 0) = <<>>
  OBVIOUS
<1>3. SubSeq(xs, 1, Len(xs)) = xs
  <2>1. SubSeq(xs, 1, Len(xs)) \in Seq(X) /\ Len(SubSeq(xs, 1, Len(xs))) = Len(xs)
    BY <1>1
  <2>2. \A i \in 1..Len(xs) : SubSeq(xs, 1, Len(xs))[i] = xs[i]
    BY <1>1
  <2>3. QED BY <2>1, <2>2, SeqEqual
<1>4. Append(SubSeq(xs, 1, k - 1), xs[k]) = SubSeq(xs, 1, k)
  <2> DEFINE u == SubSeq(xs, 1, k - 1)
             v == SubSeq(xs, 1, k)
             w == Append(u, xs[k])
  <2>1. u \in Seq(X) /\ Len(u) = k - 1 /\ \A i \in 1..(k - 1) : u[i] = xs[i]
    BY <1>1
  <2>2. v \in Seq(X) /\ Len(v) = k /\ \A i \in 1..k : v[i] = xs[i]
    BY <1>1
  <2> HIDE DEF u, v
  <2>3. w \in Seq(X) /\ Len(w) = k /\ w[k] = xs[k] /\ \A i \in 1..(k - 1) : w[i] = u[i]
    BY <1>1, <2>1
  <2> HIDE DEF w
  <2>4. \A i \in 1..k : w[i] = v[i]
    BY <1>1, <2>1, <2>2, <2>3
  <2>5. w = v
    BY <2>2, <2>3, <2>4, SeqEqual
  <2>6. QED BY <2>5 DEF u, v, w
<1>5. QED BY <1>2, <1>3, <1>4

\* What a reader of items must do: read the item that is there, and stay at the end.
ReadsItems(kind, S, b, ws, xs) ==
  /\ \A k \in 1..Len(ws), c \in 0..Len(b) :
       \A r, g : Seen(r, c, g) /\ Match(b, c, ws[k]) => Reading(b, c, ws[k], xs[k], One(kind, b, r))
  /\ \A r : Over(b, r) => Over(b, One(kind, b, r))

\* Then a list of items is read, or the end is met on the way.
LEMMA ItemsRead ==
  ASSUME NEW S, NEW b \in Seq(S), NEW a \in 0..Len(b), NEW ws \in Seq(Seq(S)),
         NEW X, NEW xs \in Seq(X), Len(xs) = Len(ws), NEW kind, NEW n, Seen(n, a, Len(ws)),
         NEW f, Items(kind, b, n, f), ReadsItems(kind, S, b, ws, xs), Match(b, a, FlattenSeq(ws))
  PROVE  Reading(b, a, FlattenSeq(ws), xs, f[Len(ws)])
<1> DEFINE N == Len(ws)
<1>1. /\ N \in Nat /\ Len(b) \in Nat /\ a \in Nat /\ a <= Len(b) /\ n.got = N
      /\ \A k \in 1..N : ws[k] \in Seq(S)
  BY DEF Seen
<1>2. PICK sum : sum \in SumsOf(S, ws)
  BY SumsExist
<1>3. /\ sum \in [0..N -> Seq(S)] /\ sum[0] = <<>> /\ \A k \in 1..N : sum[k] = sum[k - 1] \o ws[k]
  BY <1>2 DEF SumsOf
<1>4. FlattenSeq(ws) = sum[N]
  BY <1>2, FlattenIsSum
<1>5. /\ f[0] = Got(n, <<>>)
      /\ \A k \in 1..N : f[k] = After(kind, b, f[k - 1])
  <2>1. \A k \in 0..N : f[k] = IF k = 0 THEN Got(n, <<>>) ELSE After(kind, b, f[k - 1])
    BY <1>1 DEF Items
  <2>2. 0 \in 0..N /\ \A k \in 1..N : k \in 0..N /\ k # 0
    BY <1>1
  <2>3. QED BY <2>1, <2>2
<1> HIDE DEF N
\* Every sum is there.
<1>6. \A k \in 0..N : Match(b, a, sum[k])
  <2> DEFINE T == {j \in 0..N : Match(b, a, sum[N - j])}
  <2>1. 0 \in T
    BY <1>1, <1>4
  <2>2. ASSUME NEW j \in 1..N, j - 1 \in T PROVE j \in T
    <3> DEFINE k == N - (j - 1)
    <3>1. k \in 1..N /\ k - 1 = N - j /\ k - 1 \in 0..N /\ j \in 0..N
      BY <1>1
    <3>2. Match(b, a, sum[k])
      BY <2>2
    <3> HIDE DEF k
    <3>3. sum[k] = sum[k - 1] \o ws[k] /\ sum[k - 1] \in Seq(S) /\ ws[k] \in Seq(S)
      BY <1>1, <1>3, <3>1
    <3>4. Match(b, a, sum[k - 1])
      BY <1>1, <3>2, <3>3, MatchSplit
    <3>5. QED BY <3>1, <3>4
  <2> HIDE DEF T
  <2>3. \A j \in 0..N : j \in T
    BY <1>1, <2>1, <2>2, Induction
  <2>4. ASSUME NEW k \in 0..N PROVE Match(b, a, sum[k])
    <3>1. N - k \in 0..N /\ N - (N - k) = k
      BY <1>1
    <3>2. N - k \in T
      BY <2>3, <3>1
    <3>3. QED BY <3>1, <3>2 DEF T
  <2>5. QED BY <2>4
<1> DEFINE T == {k \in 0..N : Reading(b, a, sum[k], SubSeq(xs, 1, k), f[k])}
<1>7. 0 \in T
  <2>1. Len(sum[0]) = 0 /\ a + 0 <= Len(b) /\ a + 0 = a
    BY <1>1, <1>3
  <2>2. SubSeq(xs, 1, 0) = <<>>
    OBVIOUS
  <2>3. Seen(f[0], a, <<>>)
    BY <1>5 DEF Seen, Got
  <2>4. Reading(b, a, sum[0], SubSeq(xs, 1, 0), f[0])
    BY <2>1, <2>2, <2>3 DEF Reading
  <2>5. QED BY <1>1, <2>4
<1>8. ASSUME NEW k \in 1..N, k - 1 \in T PROVE k \in T
  <2> DEFINE u == sum[k - 1]
             v == ws[k]
             r == f[k - 1]
             q == One(kind, b, r)
             c == a + Len(u)
  <2>1. k \in 0..N /\ k - 1 \in 0..N /\ k \in 1..Len(ws) /\ k \in 1..Len(xs)
    BY <1>1 DEF N
  <2>2. u \in Seq(S) /\ v \in Seq(S) /\ sum[k] = u \o v /\ Len(u) \in Nat
    <3>1. u \in Seq(S)
      BY <1>3, <2>1
    <3>2. v \in Seq(S)
      BY <1>1
    <3>3. sum[k] = u \o v
      BY <1>3
    <3> HIDE DEF u, v
    <3>4. Len(u) \in Nat
      BY <3>1
    <3>5. QED BY <3>1, <3>2, <3>3, <3>4
  <2>3. Reading(b, a, u, SubSeq(xs, 1, k - 1), r)
    BY <1>8
  <2>4. f[k] = Got(q, Append(r.got, q.got))
    BY <1>5 DEF After
  <2>5. Match(b, c, v)
    <3>1. Match(b, a, u \o v)
      BY <1>6, <2>1, <2>2
    <3> HIDE DEF u, v
    <3>2. QED BY <1>1, <2>2, <3>1, MatchSplit
  <2>6. ASSUME c <= Len(b) PROVE Reading(b, c, v, xs[k], q) /\ r.got = SubSeq(xs, 1, k - 1)
    <3>1. Seen(r, c, SubSeq(xs, 1, k - 1))
      BY <2>3, <2>6 DEF Reading
    <3>2. c \in 0..Len(b)
      BY <1>1, <2>2, <2>6
    <3> HIDE DEF c, q, r, v
    <3>3. Reading(b, c, v, xs[k], q)
      BY <2>1, <2>5, <3>1, <3>2 DEF ReadsItems, q, v
    <3>4. QED BY <3>1, <3>3 DEF Seen
  <2>7. Over(b, r) => Over(b, q)
    BY DEF ReadsItems
  <2> HIDE DEF u, v, q, r
  <2>8. Reading(b, a, u \o v, xs[k], q)
    BY <2>2, <2>3, <2>6, <2>7, ReadTwo
  <2>9. ASSUME a + Len(u \o v) <= Len(b) PROVE Append(r.got, q.got) = SubSeq(xs, 1, k)
    <3>1. q.got = xs[k]
      BY <2>8, <2>9 DEF Reading, Seen
    <3>2. c <= Len(b)
      <4>1. Len(u \o v) = Len(u) + Len(v) /\ Len(v) \in Nat
        BY <2>2
      <4>2. QED BY <1>1, <2>2, <2>9, <4>1
    <3>3. r.got = SubSeq(xs, 1, k - 1)
      BY <2>6, <3>2
    <3>4. QED BY <2>1, <3>1, <3>3, OneMore
  <2>10. Reading(b, a, u \o v, SubSeq(xs, 1, k), f[k])
    BY <2>4, <2>8, <2>9, Renamed
  <2>11. QED BY <2>1, <2>2, <2>10
<1> HIDE DEF T
<1>9. N \in T
  <2>1. \A k \in 0..N : k \in T
    BY <1>1, <1>7, <1>8, Induction
  <2>2. QED BY <1>1, <2>1
<1>10. SubSeq(xs, 1, N) = xs
  BY SubSeqFull DEF N
<1>11. QED BY <1>4, <1>9, <1>10 DEF T, N

\* The encodings of a list make one of fields.
LEMMA Flattened ==
  ASSUME NEW S, NEW ws \in Seq(Seq(S))
  PROVE  FlattenSeq(ws) \in Seq(S)
<1>1. PICK sum : sum \in SumsOf(S, ws)
  BY SumsExist
<1>2. FlattenSeq(ws) = sum[Len(ws)]
  BY <1>1, FlattenIsSum
<1>3. sum \in [0..Len(ws) -> Seq(S)]
  BY <1>1 DEF SumsOf
<1>4. Len(ws) \in 0..Len(ws)
  OBVIOUS
<1>5. QED BY <1>2, <1>3, <1>4

\* A list with its length in front.
LEMMA ListReads ==
  ASSUME NEW S, NEW b \in Seq(S), NEW a \in 0..Len(b), NEW ws \in Seq(Seq(S)), Len(ws) \in S,
         NEW X, NEW xs \in Seq(X), Len(xs) = Len(ws), NEW kind, ReadsItems(kind, S, b, ws, xs),
         NEW r, NEW g, Seen(r, a, g), Match(b, a, <<Len(ws)>> \o FlattenSeq(ws)),
         NEW q, Field(b, r).got \in Nat => \E f : Items(kind, b, Field(b, r), f) /\ q = f[Field(b, r).got]
  PROVE  Reading(b, a, <<Len(ws)>> \o FlattenSeq(ws), xs, q)
<1> DEFINE n == Field(b, r)
           w == FlattenSeq(ws)
           u == <<Len(ws)>>
<1>1. /\ Len(ws) \in Nat /\ Len(b) \in Nat /\ a \in Nat /\ u \in Seq(S) /\ Len(u) = 1 /\ w \in Seq(S)
  BY Flattened
<1>2. Match(b, a, u) /\ Match(b, a + 1, w)
  <2> HIDE DEF w, u
  <2>1. Match(b, a, u \o w)
    BY DEF u, w
  <2>2. Match(b, a, u) /\ Match(b, a + Len(u), w)
    BY <1>1, <2>1, MatchSplit
  <2>3. QED BY <1>1, <2>2
<1>3. Reading(b, a, u, Len(ws), n) /\ (~(a + 1 <= Len(b)) => n.got = 0)
  BY <1>2, FieldReads
<1>4. ASSUME a + 1 <= Len(b) PROVE Reading(b, a + 1, w, xs, q)
  <2>1. Seen(n, a + 1, Len(ws)) /\ a + 1 \in 0..Len(b)
    BY <1>1, <1>3, <1>4 DEF Reading
  <2>2. n.got = Len(ws)
    BY <2>1 DEF Seen
  <2>3. PICK f : Items(kind, b, n, f) /\ q = f[Len(ws)]
    BY <1>1, <2>2
  <2> HIDE DEF n
  <2>4. Reading(b, a + 1, w, xs, f[Len(ws)])
    BY <1>2, <2>1, <2>3, ItemsRead
  <2>5. QED BY <2>3, <2>4
<1>5. ASSUME ~(a + 1 <= Len(b)) PROVE Over(b, n) /\ Over(b, q)
  <2>1. n.got = 0 /\ Over(b, n)
    BY <1>1, <1>3, <1>5 DEF Reading
  <2>2. PICK f : Items(kind, b, n, f) /\ q = f[0]
    BY <2>1
  <2> HIDE DEF n
  <2>3. f[0] = Got(n, <<>>)
    BY <2>1, <2>2 DEF Items
  <2>4. QED BY <2>1, <2>2, <2>3, RenamedOver
<1> HIDE DEF n, w, u
<1>6. Reading(b, a, u \o w, xs, q)
  <2>1. CASE a + 1 <= Len(b)
    <3>1. Reading(b, a + Len(u), w, xs, q) /\ ~Over(b, n)
      BY <1>1, <1>3, <1>4, <2>1 DEF Reading, Seen, Over
    <3>2. QED BY <1>1, <1>3, <3>1, ReadTwo
  <2>2. CASE ~(a + 1 <= Len(b))
    BY <1>1, <1>3, <1>5, <2>2, ReadTwo
  <2>3. QED BY <2>1, <2>2
<1>7. QED BY <1>6 DEF u, w

\* At the end of the file a list is empty.
LEMMA ListOver ==
  ASSUME NEW S, NEW b \in Seq(S), NEW kind, NEW r, Over(b, r),
         NEW q, Field(b, r).got \in Nat => \E f : Items(kind, b, Field(b, r), f) /\ q = f[Field(b, r).got]
  PROVE  Over(b, q)
<1> DEFINE n == Field(b, r)
<1>1. n.got = 0 /\ Over(b, n)
  BY FieldOver
<1>2. PICK f : Items(kind, b, n, f) /\ q = f[0]
  BY <1>1
<1> HIDE DEF n
<1>3. f[0] = Got(n, <<>>)
  BY <1>1, <1>2 DEF Items
<1>4. QED BY <1>1, <1>2, <1>3, RenamedOver

\* A list of x in X, each put as put[x] and read again as wide[x].
PutEach(s, put)   == <<Len(s)>> \o FlattenSeq([i \in DOMAIN s |-> put[s[i]]])
ReadEach(s, wide) == [i \in DOMAIN s |-> wide[s[i]]]
Codec(kind, b, X, put, wide) ==
  /\ \A x \in X, a \in 0..Len(b) : \A r, g :
       Seen(r, a, g) /\ Match(b, a, put[x]) => Reading(b, a, put[x], wide[x], One(kind, b, r))
  /\ \A r : Over(b, r) => Over(b, One(kind, b, r))
ReadAsList(kind, b, w, xs) ==
  \A a \in 0..Len(b) : \A r, g, q :
    /\ Seen(r, a, g) /\ Match(b, a, w)
    /\ Field(b, r).got \in Nat => \E f : Items(kind, b, Field(b, r), f) /\ q = f[Field(b, r).got]
    => Reading(b, a, w, xs, q)

LEMMA ListOf ==
  ASSUME NEW S, Nat \subseteq S, NEW b \in Seq(S), NEW kind, NEW X, NEW s \in Seq(X), NEW Y,
         NEW put \in [X -> Seq(S)], NEW wide \in [X -> Y], Codec(kind, b, X, put, wide)
  PROVE  /\ PutEach(s, put) \in Seq(S) /\ ReadEach(s, wide) \in Seq(Y)
         /\ ReadAsList(kind, b, PutEach(s, put), ReadEach(s, wide))
<1> DEFINE ws == [i \in DOMAIN s |-> put[s[i]]]
           xs == [i \in DOMAIN s |-> wide[s[i]]]
           w  == <<Len(s)>> \o FlattenSeq(ws)
<1>1. Len(s) \in Nat /\ DOMAIN s = 1..Len(s) /\ \A i \in 1..Len(s) : s[i] \in X
  BY ElementOfSeq
<1>2. /\ ws \in [1..Len(s) -> Seq(S)] /\ \A i \in 1..Len(s) : ws[i] = put[s[i]]
      /\ xs \in [1..Len(s) -> Y] /\ \A i \in 1..Len(s) : xs[i] = wide[s[i]]
  BY <1>1
<1> HIDE DEF ws, xs
<1>3. /\ ws \in Seq(Seq(S)) /\ Len(ws) = Len(s)
      /\ xs \in Seq(Y) /\ Len(xs) = Len(s)
  <2>1. ASSUME NEW Z, NEW n \in Nat, NEW f \in [1..n -> Z] PROVE f \in Seq(Z) /\ Len(f) = n
    OBVIOUS
  <2>2. ws \in Seq(Seq(S)) /\ Len(ws) = Len(s)
    BY <1>1, <1>2, <2>1, Zenon
  <2>3. xs \in Seq(Y) /\ Len(xs) = Len(s)
    BY <1>1, <1>2, <2>1, Zenon
  <2>4. QED BY <2>2, <2>3
<1>4. w \in Seq(S)
  <2> DEFINE u == <<Len(s)>>
             v == FlattenSeq(ws)
  <2>1. u \in Seq(S)
    BY <1>1
  <2>2. v \in Seq(S)
    BY <1>3, Flattened
  <2> HIDE DEF u, v
  <2>3. u \o v \in Seq(S)
    BY <2>1, <2>2
  <2>4. QED BY <2>3 DEF u, v
<1>5. ReadsItems(kind, S, b, ws, xs)
  <2>1. ASSUME NEW k \in 1..Len(ws), NEW c \in 0..Len(b), NEW z, NEW h, Seen(z, c, h), Match(b, c, ws[k])
        PROVE  Reading(b, c, ws[k], xs[k], One(kind, b, z))
    <3>1. s[k] \in X /\ ws[k] = put[s[k]] /\ xs[k] = wide[s[k]]
      BY <1>1, <1>2, <1>3
    <3>2. QED BY <2>1, <3>1 DEF Codec
  <2>2. QED BY <2>1 DEF ReadsItems, Codec
<1>6. ASSUME NEW a \in 0..Len(b), NEW r, NEW g, NEW q, Seen(r, a, g), Match(b, a, w),
             Field(b, r).got \in Nat => \E f : Items(kind, b, Field(b, r), f) /\ q = f[Field(b, r).got]
      PROVE  Reading(b, a, w, xs, q)
  <2>1. w = <<Len(ws)>> \o FlattenSeq(ws) /\ Len(ws) \in S
    BY <1>1, <1>3
  <2> HIDE DEF w
  <2>2. Match(b, a, <<Len(ws)>> \o FlattenSeq(ws))
    BY <1>6, <2>1
  <2>3. Reading(b, a, <<Len(ws)>> \o FlattenSeq(ws), xs, q)
    BY <1>3, <1>5, <1>6, <2>1, <2>2, ListReads
  <2>4. QED BY <2>1, <2>3
<1>7. ReadAsList(kind, b, w, xs)
  BY <1>6 DEF ReadAsList
<1>8. w = PutEach(s, put) /\ xs = ReadEach(s, wide)
  BY DEF w, ws, xs, PutEach, ReadEach
<1>9. QED BY <1>3, <1>4, <1>7, <1>8

-----------------------------------------------------------------------------
(* Values.                                                                 *)

\* What the fields of a file are.
Fields == STRING \cup ColumnTypes \cup {"TORMDB01"} \cup Int \cup BOOLEAN

\* A value as it is read again, and a list or an option of them.
WideValue(v) ==
  IF v = Null THEN Null
  ELSE Val(TypeOfTag[Tag(v.t)], IF v.t = "DateTime" /\ v.n > MaxNanos THEN 0 ELSE v.n)
WideAll(s) == [i \in DOMAIN s |-> WideValue(s[i])]

LEMMA ValueWritten ==
  ASSUME NEW v \in SqlValues
  PROVE  \/ v = Null /\ PutValue(v) = << 0 >>
         \/ /\ v # Null /\ Tag(v.t) \in 1..8
            /\ PutValue(v) = <<Tag(v.t), IF v.t = "DateTime" /\ v.n > MaxNanos THEN 0 ELSE v.n>>
            /\ (IF v.t = "DateTime" /\ v.n > MaxNanos THEN 0 ELSE v.n) \in Int
<1>1. CASE v = Null
  BY <1>1 DEF PutValue, Null
<1>2. CASE v # Null
  <2>1. v \in [t : Types \ {"Null"}, n : Int]
    BY <1>2 DEF SqlValues
  <2>2. v.t \in Types /\ v.t # "Null" /\ v.n \in Int
    BY <2>1
  <2>3. Tag(v.t) \in 1..8
    BY <2>2 DEF Tag, Types
  <2>4. QED BY <1>2, <2>2, <2>3 DEF PutValue
<1>3. QED BY <1>1, <1>2

LEMMA ValueFields == ASSUME NEW v \in SqlValues PROVE PutValue(v) \in Seq(Fields)
<1>1. Int \subseteq Fields /\ 0 \in Int /\ 1..8 \subseteq Int
  BY DEF Fields
<1> HIDE DEF Fields
<1>2. CASE PutValue(v) = << 0 >>
  <2>1. 0 \in Fields
    BY <1>1
  <2>2. QED BY <1>2, <2>1
<1>3. ASSUME NEW t \in 1..8, NEW m \in Int, PutValue(v) = <<t, m>> PROVE PutValue(v) \in Seq(Fields)
  <2>1. t \in Fields /\ m \in Fields
    BY <1>1
  <2>2. QED BY <1>3, <2>1
<1>4. QED BY <1>2, <1>3, ValueWritten

LEMMA ValueOver ==
  ASSUME NEW S, NEW b \in Seq(S), NEW r, Over(b, r) \/ Over(b, Field(b, r))
  PROVE  Over(b, GetValue(b, r))
<1>1. Over(b, Field(b, r))
  BY FieldOver
<1>2. Over(b, Field(b, Field(b, r)))
  BY <1>1, FieldOver
<1>3. QED BY <1>1, <1>2, RenamedOver DEF GetValue

LEMMA ValueReads ==
  ASSUME NEW b \in Seq(Fields), NEW a \in 0..Len(b), NEW r, NEW g, Seen(r, a, g),
         NEW v \in SqlValues, Match(b, a, PutValue(v))
  PROVE  Reading(b, a, PutValue(v), WideValue(v), GetValue(b, r))
<1> DEFINE tag == Field(b, r)
           val == Field(b, tag)
<1>1. /\ GetValue(b, r) = IF tag.got = 0 THEN Got(tag, Null) ELSE Got(val, Val(TypeOfTag[tag.got], val.got))
  BY DEF GetValue
<1>2. CASE v = Null
  <2>1. PutValue(v) = << 0 >> /\ WideValue(v) = Null
    BY <1>2, ValueWritten DEF WideValue
  <2>2. Reading(b, a, << 0 >>, 0, tag) /\ tag.got = 0
    <3>1. Reading(b, a, << 0 >>, 0, tag) /\ (~(a + 1 <= Len(b)) => tag.got = 0)
      BY <2>1, FieldReads
    <3>2. a + 1 <= Len(b) => tag.got = 0
      BY <3>1 DEF Reading, Seen
    <3>3. QED BY <3>1, <3>2
  <2> HIDE DEF tag, val
  <2>3. GetValue(b, r) = Got(tag, Null)
    BY <1>1, <2>2
  <2>4. QED BY <2>1, <2>2, <2>3, Renamed
<1>3. CASE v # Null
  <2> DEFINE t == Tag(v.t)
             m == IF v.t = "DateTime" /\ v.n > MaxNanos THEN 0 ELSE v.n
  <2>1. /\ PutValue(v) = <<t, m>> /\ t \in 1..8 /\ m \in Int /\ WideValue(v) = Val(TypeOfTag[t], m)
    BY <1>3, ValueWritten DEF WideValue
  <2> HIDE DEF t, m
  <2>2. t \in Fields /\ m \in Fields
    BY <2>1 DEF Fields
  <2> HIDE DEF Fields, tag
  <2>3. <<t, m>> = <<t>> \o <<m>> /\ <<t>> \in Seq(Fields) /\ <<m>> \in Seq(Fields) /\ Len(<<t>>) = 1
    BY <2>2, Pair
  <2>4. Match(b, a, <<t>>) /\ Match(b, a + 1, <<m>>) /\ a \in Nat /\ Len(b) \in Nat
    <3>1. a \in Nat /\ Len(b) \in Nat
      OBVIOUS
    <3>2. Match(b, a, <<t>> \o <<m>>)
      BY <2>1, <2>3
    <3>3. Match(b, a, <<t>>) /\ Match(b, a + Len(<<t>>), <<m>>)
      BY <2>3, <3>1, <3>2, MatchSplit
    <3>4. QED BY <2>3, <3>1, <3>3
  <2>5. Reading(b, a, <<t>>, t, tag)
    BY <2>4, FieldReads DEF tag
  <2>6. ASSUME a + 1 <= Len(b) PROVE Reading(b, a + 1, <<m>>, m, val) /\ tag.got = t
    <3>1. Seen(tag, a + 1, t) /\ a + 1 \in 0..Len(b)
      BY <2>3, <2>4, <2>5, <2>6 DEF Reading
    <3>2. QED BY <2>4, <3>1, FieldReads DEF Seen
  <2>7. Over(b, tag) => Over(b, val)
    BY FieldOver
  <2> HIDE DEF val
  <2>8. Reading(b, a, <<t>> \o <<m>>, m, val)
    BY <2>3, <2>5, <2>6, <2>7, ReadTwo
  <2>9. CASE a + 1 <= Len(b)
    <3>1. GetValue(b, r) = Got(val, Val(TypeOfTag[t], val.got))
      BY <1>1, <2>1, <2>6, <2>9
    <3>2. a + Len(<<t>> \o <<m>>) <= Len(b) => val.got = m
      BY <2>8 DEF Reading, Seen
    <3>3. Reading(b, a, <<t>> \o <<m>>, Val(TypeOfTag[t], m), Got(val, Val(TypeOfTag[t], val.got)))
      BY <2>8, <3>2, Renamed
    <3>4. QED BY <2>1, <2>3, <3>1, <3>3
  <2>10. CASE ~(a + 1 <= Len(b))
    <3>1. Over(b, tag)
      BY <2>3, <2>5, <2>10 DEF Reading
    <3>2. Over(b, GetValue(b, r))
      BY <3>1, ValueOver DEF tag
    <3>3. ~(a + Len(<<t, m>>) <= Len(b))
      BY <2>4, <2>10
    <3>4. QED BY <2>1, <3>2, <3>3 DEF Reading
  <2>11. QED BY <2>9, <2>10
<1>4. QED BY <1>2, <1>3

\* A row's values.
LEMMA ValuesRead ==
  ASSUME NEW b \in Seq(Fields), NEW s \in Seq(SqlValues)
  PROVE  LET w == PutAll(s, PutValue)
         IN  /\ w \in Seq(Fields) /\ WideAll(s) \in Seq({WideValue(v) : v \in SqlValues})
             /\ \A a \in 0..Len(b) : \A r, g : Seen(r, a, g) /\ Match(b, a, w) =>
                  Reading(b, a, w, WideAll(s), GetAll(b, r, GetValue))
<1> DEFINE X == SqlValues
           Y == {WideValue(v) : v \in SqlValues}
           put == [v \in X |-> PutValue(v)]
           wide == [v \in X |-> WideValue(v)]
           w == PutAll(s, PutValue)
<1>1. Nat \subseteq Fields /\ s \in Seq(X)
  BY DEF Fields
<1>2. put \in [X -> Seq(Fields)] /\ wide \in [X -> Y] /\ \A x \in X : put[x] = PutValue(x) /\ wide[x] = WideValue(x)
  BY ValueFields
<1>3. DOMAIN s = 1..Len(s) /\ \A i \in 1..Len(s) : s[i] \in X
  BY ElementOfSeq
<1>4. w = <<Len(s)>> \o FlattenSeq([i \in DOMAIN s |-> put[s[i]]])
  <2>1. [i \in DOMAIN s |-> PutValue(s[i])] = [i \in DOMAIN s |-> put[s[i]]]
    <3> HIDE DEF put, X
    <3> QED BY <1>2, <1>3
  <2>2. w = <<Len(s)>> \o FlattenSeq([i \in DOMAIN s |-> PutValue(s[i])])
    BY DEF PutAll
  <2> HIDE DEF w, put
  <2>3. QED BY <2>1, <2>2
<1>5. WideAll(s) = [i \in DOMAIN s |-> wide[s[i]]]
  <2> HIDE DEF wide, X
  <2>1. QED BY <1>2, <1>3 DEF WideAll
<1> HIDE DEF put, wide, w, Y
<1>6. \A x \in X, a \in 0..Len(b) : \A r, g :
        Seen(r, a, g) /\ Match(b, a, put[x]) => Reading(b, a, put[x], wide[x], One("value", b, r))
  BY <1>2, ValueReads DEF One
<1>7. \A r : Over(b, r) => Over(b, One("value", b, r))
  BY ValueOver DEF One
<1>8. /\ w \in Seq(Fields) /\ WideAll(s) \in Seq(Y)
      /\ ReadAsList("value", b, w, WideAll(s))
  <2> HIDE DEF X, Fields
  <2>1. put \in [X -> Seq(Fields)] /\ wide \in [X -> Y]
    BY <1>2
  <2>2. Codec("value", b, X, put, wide)
    BY <1>6, <1>7 DEF Codec
  <2>3. /\ PutEach(s, put) \in Seq(Fields) /\ ReadEach(s, wide) \in Seq(Y)
        /\ ReadAsList("value", b, PutEach(s, put), ReadEach(s, wide))
    BY <1>1, <2>1, <2>2, ListOf
  <2>4. w = PutEach(s, put) /\ WideAll(s) = ReadEach(s, wide)
    BY <1>4, <1>5 DEF PutEach, ReadEach
  <2>5. QED BY <2>3, <2>4
<1>9. \A r : Field(b, r).got \in Nat =>
        \E f : Items("value", b, Field(b, r), f) /\ GetAll(b, r, GetValue) = f[Field(b, r).got]
  BY Unrolled
<1>10. QED BY <1>8, <1>9 DEF ReadAsList, w, Y

LEMMA ValuesOver ==
  ASSUME NEW b \in Seq(Fields), NEW r, Over(b, r)
  PROVE  Over(b, GetAll(b, r, GetValue))
<1> DEFINE q == GetAll(b, r, GetValue)
<1>1. Field(b, r).got \in Nat => \E f : Items("value", b, Field(b, r), f) /\ q = f[Field(b, r).got]
  BY Unrolled
<1> HIDE DEF q
<1>2. Over(b, q)
  BY <1>1, ListOver
<1>3. QED BY <1>2 DEF q

-----------------------------------------------------------------------------
(* Options.                                                                *)

\* What GetOption returns, where q has read what follows the flag.
Chosen(flag, q) == IF flag.got = 0 THEN Got(flag, <<>>) ELSE Got(q, <<q.got>>)

LEMMA NoneReads ==
  ASSUME NEW S, NEW b \in Seq(S), NEW a \in 0..Len(b), NEW r, NEW g, Seen(r, a, g),
         Match(b, a, << 0 >>), NEW q
  PROVE  Reading(b, a, << 0 >>, <<>>, Chosen(Field(b, r), q))
<1> DEFINE flag == Field(b, r)
<1>1. Reading(b, a, << 0 >>, 0, flag) /\ (~(a + 1 <= Len(b)) => flag.got = 0)
  BY FieldReads
<1> HIDE DEF flag
<1>2. flag.got = 0
  BY <1>1 DEF Reading, Seen
<1>3. Reading(b, a, << 0 >>, <<>>, Got(flag, <<>>))
  BY <1>1, Renamed
<1>4. QED BY <1>2, <1>3 DEF Chosen, flag

LEMMA SomeReads ==
  ASSUME NEW S, NEW b \in Seq(S), NEW a \in 0..Len(b), NEW r, NEW g, Seen(r, a, g),
         NEW v \in Seq(S), 1 \in S, Match(b, a, << 1 >> \o v), NEW y, NEW q,
         a + 1 <= Len(b) => Reading(b, a + 1, v, y, q)
  PROVE  Reading(b, a, << 1 >> \o v, <<y>>, Chosen(Field(b, r), q))
<1> DEFINE flag == Field(b, r)
           u == << 1 >>
           p == Chosen(flag, q)
<1>1. u \in Seq(S) /\ Len(u) = 1 /\ a \in Nat /\ Len(b) \in Nat /\ Len(v) \in Nat
  OBVIOUS
<1>2. Match(b, a, u)
  <2>1. Match(b, a, u \o v)
    OBVIOUS
  <2> HIDE DEF u
  <2>2. QED BY <1>1, <2>1, MatchSplit
<1>3. Reading(b, a, u, 1, flag) /\ (~(a + 1 <= Len(b)) => flag.got = 0)
  BY <1>2, FieldReads
<1> HIDE DEF u, flag
<1>4. Len(u \o v) = 1 + Len(v)
  <2>1. Len(u \o v) = Len(u) + Len(v)
    BY <1>1, Joined
  <2>2. QED BY <1>1, <2>1
<1>5. CASE a + 1 <= Len(b)
  <2>1. flag.got = 1 /\ flag.got # 0
    BY <1>1, <1>3, <1>5 DEF Reading, Seen
  <2>2. p = Got(q, <<q.got>>)
    BY <2>1 DEF Chosen
  <2>3. Reading(b, a + 1, v, y, q)
    BY <1>5
  <2>4. (a + 1) + Len(v) = a + Len(u \o v)
    BY <1>1, <1>4
  <2>5. Reading(b, a, u \o v, y, q)
    BY <2>3, <2>4 DEF Reading
  <2>6. a + Len(u \o v) <= Len(b) => <<q.got>> = <<y>>
    BY <2>5 DEF Reading, Seen
  <2>7. QED BY <2>2, <2>5, <2>6, Renamed DEF u, flag
<1>6. CASE ~(a + 1 <= Len(b))
  <2>1. flag.got = 0 /\ Over(b, flag)
    BY <1>1, <1>3, <1>6 DEF Reading
  <2>2. Over(b, p)
    BY <2>1, RenamedOver DEF Chosen
  <2>3. ~(a + Len(u \o v) <= Len(b))
    BY <1>1, <1>4, <1>6
  <2>4. QED BY <2>2, <2>3 DEF Reading, u, flag
<1>7. QED BY <1>5, <1>6

LEMMA ChosenOver ==
  ASSUME NEW S, NEW b \in Seq(S), NEW r, Over(b, r), NEW q
  PROVE  Over(b, Chosen(Field(b, r), q))
<1>1. Over(b, Field(b, r)) /\ Field(b, r).got = 0
  BY FieldOver
<1>2. QED BY <1>1, RenamedOver DEF Chosen

\* The default of a column.
LEMMA DefaultReads ==
  ASSUME NEW b \in Seq(Fields), NEW o \in OptionOf(SqlValues)
  PROVE  /\ PutOption(o, PutValue) \in Seq(Fields)
         /\ \A a \in 0..Len(b) : \A r, g : Seen(r, a, g) /\ Match(b, a, PutOption(o, PutValue)) =>
              Reading(b, a, PutOption(o, PutValue), WideAll(o), GetOption(b, r, GetValue))
         /\ \A r : Over(b, r) => Over(b, GetOption(b, r, GetValue))
<1>1. \A r : GetOption(b, r, GetValue) = Chosen(Field(b, r), GetValue(b, Field(b, r)))
  BY DEF GetOption, Chosen
<1>2. o \in Seq(SqlValues) /\ Len(o) <= 1 /\ Len(o) \in Nat /\ 0 \in Fields /\ 1 \in Fields
  BY DEF OptionOf, Fields
<1>3. \A r : Over(b, r) => Over(b, GetOption(b, r, GetValue))
  BY <1>1, ChosenOver
<1>6. Len(o) = 0 \/ Len(o) = 1
  <2>1. Len(o) \in Nat /\ Len(o) <= 1
    BY <1>2
  <2>2. ASSUME NEW n \in Nat, n <= 1 PROVE n = 0 \/ n = 1
    BY <2>2
  <2>3. QED BY <2>1, <2>2, Zenon
<1>4. CASE o = <<>>
  <2>1. PutOption(o, PutValue) = << 0 >> /\ WideAll(o) = <<>>
    BY <1>4 DEF PutOption, WideAll
  <2>2. << 0 >> \in Seq(Fields)
    BY <1>2
  <2>3. ASSUME NEW a \in 0..Len(b), NEW r, NEW g, Seen(r, a, g), Match(b, a, << 0 >>)
        PROVE  Reading(b, a, << 0 >>, <<>>, GetOption(b, r, GetValue))
    BY <1>1, <2>3, NoneReads
  <2>4. QED BY <1>3, <2>1, <2>2, <2>3
<1>5. CASE o # <<>>
  <2> DEFINE v == PutValue(o[1])
             y == WideValue(o[1])
  <2>1. o[1] \in SqlValues /\ Len(o) = 1 /\ DOMAIN o = 1..1
    <3>1. Len(o) # 0
      BY <1>2, <1>5, EmptySeq
    <3>2. Len(o) = 1
      BY <1>6, <3>1
    <3>3. QED BY <1>2, <3>2
  <2>2. PutOption(o, PutValue) = << 1 >> \o v
    BY <1>5 DEF PutOption
  <2>3. WideAll(o) = <<y>>
    <3>1. WideAll(o) = [i \in 1..1 |-> WideValue(o[i])]
      BY <2>1 DEF WideAll
    <3> HIDE DEF WideAll
    <3>2. WideAll(o) \in Seq({WideValue(z) : z \in SqlValues})
      BY <1>2, ValuesRead
    <3>3. WideAll(o)[1] = y /\ Len(WideAll(o)) = 1
      BY <3>1, <3>2
    <3> HIDE DEF y
    <3>4. QED BY <2>1, <3>2, <3>3
  <2>4. v \in Seq(Fields) /\ << 1 >> \in Seq(Fields)
    BY <1>2, <2>1, ValueFields
  <2>5. ASSUME NEW a \in 0..Len(b), NEW r, NEW g, Seen(r, a, g), Match(b, a, << 1 >> \o v)
        PROVE  Reading(b, a, << 1 >> \o v, <<y>>, GetOption(b, r, GetValue))
    <3> DEFINE flag == Field(b, r)
               q == GetValue(b, flag)
    <3>0. a \in Nat /\ Len(b) \in Nat /\ Len(<< 1 >>) = 1
      OBVIOUS
    <3>1. Match(b, a, << 1 >>) /\ Match(b, a + 1, v)
      <4> DEFINE u == << 1 >>
      <4>1. u \in Seq(Fields) /\ Match(b, a, u \o v) /\ Len(u) = 1
        BY <2>4, <2>5
      <4> HIDE DEF u, v
      <4>2. Match(b, a, u) /\ Match(b, a + Len(u), v)
        BY <2>4, <3>0, <4>1, MatchSplit
      <4>3. QED BY <4>1, <4>2 DEF u
    <3>2. Reading(b, a, << 1 >>, 1, flag)
      BY <2>5, <3>1, FieldReads
    <3> HIDE DEF flag
    <3>3. ASSUME a + 1 <= Len(b) PROVE Reading(b, a + 1, v, y, q)
      <4>1. Seen(flag, a + 1, 1) /\ a + 1 \in 0..Len(b)
        BY <3>0, <3>2, <3>3 DEF Reading
      <4>2. QED BY <2>1, <3>1, <4>1, ValueReads
    <3> HIDE DEF v, y, q
    <3>4. Reading(b, a, << 1 >> \o v, <<y>>, Chosen(Field(b, r), q))
      BY <1>2, <2>4, <2>5, <3>3, SomeReads
    <3>5. QED BY <1>1, <3>4 DEF q, flag
  <2>6. << 1 >> \o v \in Seq(Fields)
    <3> DEFINE u == << 1 >>
    <3> HIDE DEF u, v
    <3>1. u \o v \in Seq(Fields)
      BY <2>4 DEF u
    <3>2. QED BY <3>1 DEF u
  <2> HIDE DEF v, y
  <2>7. QED BY <1>3, <2>2, <2>3, <2>5, <2>6
<1>7. QED BY <1>4, <1>5

LEMMA Single ==
  ASSUME NEW S, NEW o \in Seq(S), Len(o) = 1
  PROVE  o[1] \in S /\ o = <<o[1]>>
<1> DEFINE y == o[1]
<1>1. y \in S
  <2>1. 1 \in 1..Len(o)
    OBVIOUS
  <2>2. \A i \in 1..Len(o) : o[i] \in S
    BY ElementOfSeq
  <2>3. QED BY <2>1, <2>2
<1> HIDE DEF y
<1>2. <<y>> \in Seq(S) /\ Len(<<y>>) = 1 /\ <<y>>[1] = y
  BY <1>1
<1>3. \A i \in 1..Len(o) : o[i] = <<y>>[i]
  BY <1>2 DEF y
<1>4. o = <<y>>
  BY <1>2, <1>3, SeqEqual
<1>5. QED BY <1>1, <1>4 DEF y

\* The primary key of a table.
LEMMA KeyReads ==
  ASSUME NEW b \in Seq(Fields), NEW o \in OptionOf(STRING)
  PROVE  LET w == PutOption(o, LAMBDA k : <<k>>)
         IN  /\ w \in Seq(Fields)
             /\ \A a \in 0..Len(b) : \A r, g : Seen(r, a, g) /\ Match(b, a, w) =>
                  Reading(b, a, w, o, GetOption(b, r, Field))
             /\ \A r : Over(b, r) => Over(b, GetOption(b, r, Field))
<1> DEFINE w == PutOption(o, LAMBDA k : <<k>>)
<1>1. \A r : GetOption(b, r, Field) = Chosen(Field(b, r), Field(b, Field(b, r)))
  BY DEF GetOption, Chosen
<1>2. o \in Seq(STRING) /\ Len(o) <= 1 /\ Len(o) \in Nat /\ 0 \in Fields /\ 1 \in Fields /\ STRING \subseteq Fields
  <2>1. o \in Seq(STRING) /\ Len(o) <= 1
    BY DEF OptionOf
  <2>2. Len(o) \in Nat
    BY <2>1
  <2>3. 0 \in Fields /\ 1 \in Fields /\ STRING \subseteq Fields
    BY DEF Fields
  <2>4. QED BY <2>1, <2>2, <2>3
<1>3. \A r : Over(b, r) => Over(b, GetOption(b, r, Field))
  BY <1>1, ChosenOver
<1>4. Len(o) = 0 \/ Len(o) = 1
  <2>1. Len(o) \in Nat /\ Len(o) <= 1
    BY <1>2
  <2>2. ASSUME NEW n \in Nat, n <= 1 PROVE n = 0 \/ n = 1
    BY <2>2
  <2>3. QED BY <2>1, <2>2, Zenon
<1>5. CASE o = <<>>
  <2>1. w = << 0 >>
    BY <1>5 DEF PutOption
  <2>2. << 0 >> \in Seq(Fields)
    BY <1>2
  <2>3. ASSUME NEW a \in 0..Len(b), NEW r, NEW g, Seen(r, a, g), Match(b, a, << 0 >>)
        PROVE  Reading(b, a, << 0 >>, <<>>, GetOption(b, r, Field))
    BY <1>1, <2>3, NoneReads
  <2> HIDE DEF w
  <2>4. QED BY <1>3, <1>5, <2>1, <2>2, <2>3 DEF w
<1>6. CASE o # <<>>
  <2> DEFINE y == o[1]
             v == <<y>>
  <2>1. Len(o) = 1
    <3>1. Len(o) # 0
      BY <1>2, <1>6, EmptySeq
    <3>2. QED BY <1>4, <3>1
  <2>2. y \in Fields /\ o = <<y>>
    <3>1. y \in STRING /\ o = <<y>>
      BY <1>2, <2>1, Single, Zenon
    <3>2. QED BY <1>2, <3>1
  <2>3. w = << 1 >> \o v
    BY <1>6 DEF PutOption
  <2> HIDE DEF y, w
  <2>4. v \in Seq(Fields) /\ << 1 >> \in Seq(Fields) /\ <<1, y>> = << 1 >> \o v /\ Len(<< 1 >>) = 1
    BY <1>2, <2>2, Pair
  <2>5. ASSUME NEW a \in 0..Len(b), NEW r, NEW g, Seen(r, a, g), Match(b, a, << 1 >> \o v)
        PROVE  Reading(b, a, << 1 >> \o v, <<y>>, GetOption(b, r, Field))
    <3> DEFINE flag == Field(b, r)
               q == Field(b, flag)
    <3>0. a \in Nat /\ Len(b) \in Nat
      OBVIOUS
    <3>1. Match(b, a, << 1 >>) /\ Match(b, a + 1, v)
      <4> DEFINE u == << 1 >>
      <4>1. u \in Seq(Fields) /\ Match(b, a, u \o v) /\ Len(u) = 1
        BY <2>4, <2>5
      <4> HIDE DEF u, v
      <4>2. Match(b, a, u) /\ Match(b, a + Len(u), v)
        BY <2>4, <3>0, <4>1, MatchSplit
      <4>3. QED BY <4>1, <4>2 DEF u
    <3>2. Reading(b, a, << 1 >>, 1, flag)
      BY <2>5, <3>1, FieldReads
    <3> HIDE DEF flag
    <3>3. ASSUME a + 1 <= Len(b) PROVE Reading(b, a + 1, v, y, q)
      <4>1. Seen(flag, a + 1, 1) /\ a + 1 \in 0..Len(b)
        BY <2>4, <3>0, <3>2, <3>3 DEF Reading
      <4>2. QED BY <3>1, <4>1, FieldReads
    <3> HIDE DEF v, q
    <3>4. Reading(b, a, << 1 >> \o v, <<y>>, Chosen(Field(b, r), q))
      BY <1>2, <2>4, <2>5, <3>3, SomeReads
    <3>5. QED BY <1>1, <3>4 DEF q, flag
  <2>6. << 1 >> \o v \in Seq(Fields)
    <3>1. <<1, y>> \in Seq(Fields)
      BY <1>2, <2>2
    <3>2. QED BY <2>4, <3>1
  <2> HIDE DEF v
  <2>7. QED BY <1>3, <2>2, <2>3, <2>5, <2>6 DEF w
<1>7. QED BY <1>5, <1>6

-----------------------------------------------------------------------------
(* Columns.                                                                *)

WideColumn(c) == [name |-> c.name, type |-> c.type, nullable |-> c.nullable, unique |-> c.unique,
                  default |-> WideAll(c.default)]
WideColumns(s) == [i \in DOMAIN s |-> WideColumn(s[i])]

\* Four fields, one behind the other.
LEMMA FourRead ==
  ASSUME NEW S, NEW b \in Seq(S), NEW a \in 0..Len(b), NEW r, NEW g, Seen(r, a, g),
         NEW x1 \in S, NEW x2 \in S, NEW x3 \in S, NEW x4 \in S, Match(b, a, <<x1, x2, x3, x4>>)
  PROVE  LET q1 == Field(b, r)
             q2 == Field(b, q1)
             q3 == Field(b, q2)
             q4 == Field(b, q3)
             w  == <<x1, x2, x3, x4>>
         IN  /\ w \in Seq(S) /\ Len(w) = 4
             /\ Reading(b, a, w, x4, q4)
             /\ a + 4 <= Len(b) => q1.got = x1 /\ q2.got = x2 /\ q3.got = x3
<1> DEFINE w == <<x1, x2, x3, x4>>
<1>1. /\ w \in Seq(S) /\ Len(w) = 4 /\ a \in Nat /\ Len(b) \in Nat
      /\ w[1] = x1 /\ w[2] = x2 /\ w[3] = x3 /\ w[4] = x4
  OBVIOUS
<1> HIDE DEF w
<1>2. ASSUME NEW x, Len(<<x>>) = 1, <<x>>[1] = x, NEW i \in 0..3, w[i + 1] = x PROVE Match(b, a + i, <<x>>)
  <2>1. Match(b, a, w)
    BY DEF w
  <2>2. i + 1 \in 1..Len(w) /\ a + (i + 1) = (a + i) + 1
    BY <1>1
  <2>3. (a + i) + 1 <= Len(b) => b[(a + i) + 1] = x
    BY <1>2, <2>1, <2>2 DEF Match
  <2>4. QED BY <1>2, <2>3 DEF Match
<1>3. \A x : Len(<<x>>) = 1 /\ <<x>>[1] = x
  OBVIOUS
<1>4. Match(b, a + 0, <<x1>>) /\ Match(b, a + 1, <<x2>>) /\ Match(b, a + 2, <<x3>>) /\ Match(b, a + 3, <<x4>>)
  <2>1. 0 \in 0..3 /\ 1 \in 0..3 /\ 2 \in 0..3 /\ 3 \in 0..3 /\ 0 + 1 = 1 /\ 1 + 1 = 2 /\ 2 + 1 = 3 /\ 3 + 1 = 4
    OBVIOUS
  <2>2. QED BY <1>1, <1>2, <1>3, <2>1
\* Whoever has read i of them reads the next.
<1>5. ASSUME NEW i \in 0..3, NEW x, Match(b, a + i, <<x>>), NEW p, NEW h,
             IF a + i <= Len(b) THEN Seen(p, a + i, h) ELSE Over(b, p)
      PROVE  IF a + (i + 1) <= Len(b) THEN Seen(Field(b, p), a + (i + 1), x) ELSE Over(b, Field(b, p))
  <2>1. a + (i + 1) = (a + i) + 1 /\ a + i \in Nat
    BY <1>1
  <2>2. CASE a + i <= Len(b)
    <3>1. a + i \in 0..Len(b)
      BY <1>1, <2>1, <2>2
    <3>2. Reading(b, a + i, <<x>>, x, Field(b, p))
      BY <1>5, <2>2, <3>1, FieldReads
    <3>3. QED BY <1>3, <2>1, <3>2 DEF Reading
  <2>3. CASE ~(a + i <= Len(b))
    BY <1>1, <1>5, <2>1, <2>3, FieldOver
  <2>4. QED BY <2>2, <2>3
<1> DEFINE q1 == Field(b, r)
           q2 == Field(b, q1)
           q3 == Field(b, q2)
           q4 == Field(b, q3)
           At(i, p, x) == IF a + i <= Len(b) THEN Seen(p, a + i, x) ELSE Over(b, p)
<1>6. At(0, r, g)
  BY <1>1
<1>7. At(1, q1, x1)
  <2> HIDE DEF q1
  <2>1. 0 \in 0..3 /\ 0 + 1 = 1
    OBVIOUS
  <2>2. At(0 + 1, q1, x1)
    BY <1>4, <1>5, <1>6, <2>1 DEF q1
  <2>3. QED BY <2>1, <2>2
<1> HIDE DEF q1
<1>8. At(2, q2, x2)
  <2> HIDE DEF q2
  <2>1. 1 \in 0..3 /\ 1 + 1 = 2
    OBVIOUS
  <2>2. At(1 + 1, q2, x2)
    BY <1>4, <1>5, <1>7, <2>1 DEF q2
  <2>3. QED BY <2>1, <2>2
<1> HIDE DEF q2
<1>9. At(3, q3, x3)
  <2> HIDE DEF q3
  <2>1. 2 \in 0..3 /\ 2 + 1 = 3
    OBVIOUS
  <2>2. At(2 + 1, q3, x3)
    BY <1>4, <1>5, <1>8, <2>1 DEF q3
  <2>3. QED BY <2>1, <2>2
<1> HIDE DEF q3
<1>10. At(4, q4, x4)
  <2> HIDE DEF q4
  <2>1. 3 \in 0..3 /\ 3 + 1 = 4
    OBVIOUS
  <2>2. At(3 + 1, q4, x4)
    BY <1>4, <1>5, <1>9, <2>1 DEF q4
  <2>3. QED BY <2>1, <2>2
<1> HIDE DEF q4
<1>11. Reading(b, a, w, x4, q4)
  BY <1>1, <1>10 DEF Reading
<1>12. a + 4 <= Len(b) => q1.got = x1 /\ q2.got = x2 /\ q3.got = x3
  <2> SUFFICES ASSUME a + 4 <= Len(b) PROVE q1.got = x1 /\ q2.got = x2 /\ q3.got = x3
    OBVIOUS
  <2>1. a + 1 <= Len(b) /\ a + 2 <= Len(b) /\ a + 3 <= Len(b)
    BY <1>1
  <2>2. QED BY <1>7, <1>8, <1>9, <2>1 DEF Seen
<1>13. QED BY <1>1, <1>11, <1>12 DEF w, q1, q2, q3, q4

\* A column.
LEMMA ColumnReads ==
  ASSUME NEW b \in Seq(Fields), NEW c \in ColumnDefs
  PROVE  /\ PutColumn(c) \in Seq(Fields)
         /\ \A a \in 0..Len(b) : \A r, g : Seen(r, a, g) /\ Match(b, a, PutColumn(c)) =>
              Reading(b, a, PutColumn(c), WideColumn(c), GetColumn(b, r))
<1> DEFINE u == <<c.name, c.type, c.nullable, c.unique>>
           v == PutOption(c.default, PutValue)
<1>1. /\ c.name \in Fields /\ c.type \in Fields /\ c.nullable \in Fields /\ c.unique \in Fields
      /\ c.default \in OptionOf(SqlValues)
  <2>1. /\ c.name \in STRING /\ c.type \in ColumnTypes /\ c.nullable \in BOOLEAN /\ c.unique \in BOOLEAN
        /\ c.default \in OptionOf(SqlValues)
    BY DEF ColumnDefs
  <2>2. QED BY <2>1 DEF Fields
<1>2. u \in Seq(Fields) /\ Len(u) = 4
  <2> HIDE DEF Fields
  <2>1. QED BY <1>1
<1>3. /\ v \in Seq(Fields)
      /\ \A a \in 0..Len(b) : \A r, g : Seen(r, a, g) /\ Match(b, a, v) =>
           Reading(b, a, v, WideAll(c.default), GetOption(b, r, GetValue))
      /\ \A r : Over(b, r) => Over(b, GetOption(b, r, GetValue))
  BY <1>1, DefaultReads
<1>4. PutColumn(c) = u \o v
  BY DEF PutColumn
<1>5. u \o v \in Seq(Fields)
  <2> HIDE DEF u, v, Fields
  <2>1. QED BY <1>2, <1>3
<1>6. ASSUME NEW a \in 0..Len(b), NEW r, NEW g, Seen(r, a, g), Match(b, a, u \o v)
      PROVE  Reading(b, a, u \o v, WideColumn(c), GetColumn(b, r))
  <2> DEFINE q1 == Field(b, r)
             q2 == Field(b, q1)
             q3 == Field(b, q2)
             q4 == Field(b, q3)
             d  == GetOption(b, q4, GetValue)
             z  == [name |-> q1.got, type |-> q2.got, nullable |-> q3.got, unique |-> q4.got, default |-> d.got]
  <2>1. GetColumn(b, r) = Got(d, z)
    BY DEF GetColumn
  <2>2. a \in Nat /\ Len(b) \in Nat
    OBVIOUS
  <2>3. Match(b, a, u) /\ Match(b, a + 4, v)
    <3> HIDE DEF u, v, Fields
    <3>1. Match(b, a, u) /\ Match(b, a + Len(u), v)
      BY <1>2, <1>3, <1>6, <2>2, MatchSplit
    <3>2. QED BY <1>2, <3>1
  <2>4. /\ Reading(b, a, u, c.unique, q4)
        /\ a + 4 <= Len(b) => q1.got = c.name /\ q2.got = c.type /\ q3.got = c.nullable
    <3> HIDE DEF Fields
    <3>1. QED BY <1>1, <1>6, <2>3, FourRead
  <2> HIDE DEF u, v, q1, q2, q3, q4, Fields
  <2>5. ASSUME a + 4 <= Len(b) PROVE Reading(b, a + 4, v, WideAll(c.default), d) /\ q4.got = c.unique
    <3>1. Seen(q4, a + 4, c.unique) /\ a + 4 \in 0..Len(b)
      BY <1>2, <2>2, <2>4, <2>5 DEF Reading
    <3>2. QED BY <1>3, <2>3, <3>1 DEF Seen
  <2>6. Over(b, q4) => Over(b, d)
    BY <1>3
  <2> HIDE DEF d
  <2>7. Reading(b, a, u \o v, WideAll(c.default), d)
    BY <1>2, <1>3, <2>4, <2>5, <2>6, ReadTwo
  <2>8. ASSUME a + Len(u \o v) <= Len(b) PROVE z = WideColumn(c)
    <3>1. a + 4 <= Len(b)
      <4>1. Len(u \o v) = Len(u) + Len(v) /\ Len(v) \in Nat
        BY <1>2, <1>3, Joined
      <4>2. QED BY <1>2, <2>2, <2>8, <4>1
    <3>2. d.got = WideAll(c.default)
      BY <2>7, <2>8 DEF Reading, Seen
    <3>3. q1.got = c.name /\ q2.got = c.type /\ q3.got = c.nullable /\ q4.got = c.unique
      BY <2>4, <2>5, <3>1
    <3>4. QED BY <3>2, <3>3 DEF WideColumn
  <2> HIDE DEF z
  <2>9. Reading(b, a, u \o v, WideColumn(c), Got(d, z))
    BY <2>7, <2>8, Renamed
  <2>10. QED BY <2>1, <2>9
<1> HIDE DEF u, v
<1>7. QED BY <1>4, <1>5, <1>6

LEMMA ColumnOver ==
  ASSUME NEW S, NEW b \in Seq(S), NEW r, Over(b, r)
  PROVE  Over(b, GetColumn(b, r))
<1> DEFINE q1 == Field(b, r)
           q2 == Field(b, q1)
           q3 == Field(b, q2)
           q4 == Field(b, q3)
           d  == GetOption(b, q4, GetValue)
<1>1. Over(b, q1)
  BY FieldOver
<1>2. Over(b, q2)
  BY <1>1, FieldOver
<1>3. Over(b, q3)
  BY <1>2, FieldOver
<1>4. Over(b, q4)
  BY <1>3, FieldOver
<1> HIDE DEF q4
<1>5. d = Chosen(Field(b, q4), GetValue(b, Field(b, q4)))
  BY DEF GetOption, Chosen
<1>6. Over(b, d)
  BY <1>4, <1>5, ChosenOver
<1>7. QED BY <1>6, RenamedOver DEF GetColumn, q4

\* The columns of a table.
LEMMA ColumnsRead ==
  ASSUME NEW b \in Seq(Fields), NEW s \in Seq(ColumnDefs)
  PROVE  LET w == PutAll(s, PutColumn)
         IN  /\ w \in Seq(Fields) /\ WideColumns(s) \in Seq({WideColumn(v) : v \in ColumnDefs})
             /\ \A a \in 0..Len(b) : \A r, g : Seen(r, a, g) /\ Match(b, a, w) =>
                  Reading(b, a, w, WideColumns(s), GetAll(b, r, GetColumn))
<1> DEFINE X == ColumnDefs
           Y == {WideColumn(v) : v \in ColumnDefs}
           put == [v \in X |-> PutColumn(v)]
           wide == [v \in X |-> WideColumn(v)]
           w == PutAll(s, PutColumn)
<1>1. Nat \subseteq Fields /\ s \in Seq(X)
  BY DEF Fields
<1>2. put \in [X -> Seq(Fields)] /\ wide \in [X -> Y] /\ \A x \in X : put[x] = PutColumn(x) /\ wide[x] = WideColumn(x)
  BY ColumnReads
<1>3. DOMAIN s = 1..Len(s) /\ \A i \in 1..Len(s) : s[i] \in X
  BY ElementOfSeq
<1>4. w = <<Len(s)>> \o FlattenSeq([i \in DOMAIN s |-> put[s[i]]])
  <2>1. [i \in DOMAIN s |-> PutColumn(s[i])] = [i \in DOMAIN s |-> put[s[i]]]
    <3> HIDE DEF put, X
    <3> QED BY <1>2, <1>3
  <2>2. w = <<Len(s)>> \o FlattenSeq([i \in DOMAIN s |-> PutColumn(s[i])])
    BY DEF PutAll
  <2> HIDE DEF w, put
  <2>3. QED BY <2>1, <2>2
<1>5. WideColumns(s) = [i \in DOMAIN s |-> wide[s[i]]]
  <2> HIDE DEF wide, X
  <2>1. QED BY <1>2, <1>3 DEF WideColumns
<1> HIDE DEF put, wide, w, Y
<1>6. \A x \in X, a \in 0..Len(b) : \A r, g :
        Seen(r, a, g) /\ Match(b, a, put[x]) => Reading(b, a, put[x], wide[x], One("column", b, r))
  BY <1>2, ColumnReads DEF One
<1>7. \A r : Over(b, r) => Over(b, One("column", b, r))
  BY ColumnOver DEF One
<1>8. /\ w \in Seq(Fields) /\ WideColumns(s) \in Seq(Y)
      /\ ReadAsList("column", b, w, WideColumns(s))
  <2> HIDE DEF X, Fields
  <2>1. put \in [X -> Seq(Fields)] /\ wide \in [X -> Y]
    BY <1>2
  <2>2. Codec("column", b, X, put, wide)
    BY <1>6, <1>7 DEF Codec
  <2>3. /\ PutEach(s, put) \in Seq(Fields) /\ ReadEach(s, wide) \in Seq(Y)
        /\ ReadAsList("column", b, PutEach(s, put), ReadEach(s, wide))
    BY <1>1, <2>1, <2>2, ListOf
  <2>4. w = PutEach(s, put) /\ WideColumns(s) = ReadEach(s, wide)
    BY <1>4, <1>5 DEF PutEach, ReadEach
  <2>5. QED BY <2>3, <2>4
<1>9. \A r : Field(b, r).got \in Nat =>
        \E f : Items("column", b, Field(b, r), f) /\ GetAll(b, r, GetColumn) = f[Field(b, r).got]
  BY Unrolled
<1>10. QED BY <1>8, <1>9 DEF ReadAsList, w, Y

LEMMA ColumnsOver ==
  ASSUME NEW b \in Seq(Fields), NEW r, Over(b, r)
  PROVE  Over(b, GetAll(b, r, GetColumn))
<1> DEFINE q == GetAll(b, r, GetColumn)
<1>1. Field(b, r).got \in Nat => \E f : Items("column", b, Field(b, r), f) /\ q = f[Field(b, r).got]
  BY Unrolled
<1> HIDE DEF q
<1>2. Over(b, q)
  BY <1>1, ListOver
<1>3. QED BY <1>2 DEF q

-----------------------------------------------------------------------------
(* Rows.                                                                   *)

WideRow(w) == [id |-> w.id, values |-> WideAll(w.values)]
WideRows(s) == [i \in DOMAIN s |-> WideRow(s[i])]

LEMMA RowReads ==
  ASSUME NEW b \in Seq(Fields), NEW c \in RowsData
  PROVE  /\ PutRow(c) \in Seq(Fields)
         /\ \A a \in 0..Len(b) : \A r, g : Seen(r, a, g) /\ Match(b, a, PutRow(c)) =>
              Reading(b, a, PutRow(c), WideRow(c), GetRow(b, r))
<1> DEFINE u == <<c.id>>
           v == PutAll(c.values, PutValue)
<1>1. c.id \in Fields /\ c.values \in Seq(SqlValues)
  BY DEF RowsData, Fields
<1>2. u \in Seq(Fields) /\ Len(u) = 1
  <2> HIDE DEF Fields
  <2>1. QED BY <1>1
<1>3. /\ v \in Seq(Fields)
      /\ \A a \in 0..Len(b) : \A r, g : Seen(r, a, g) /\ Match(b, a, v) =>
           Reading(b, a, v, WideAll(c.values), GetAll(b, r, GetValue))
  BY <1>1, ValuesRead
<1>4. PutRow(c) = u \o v
  BY DEF PutRow
<1>5. u \o v \in Seq(Fields)
  <2> HIDE DEF u, v, Fields
  <2>1. QED BY <1>2, <1>3
<1>6. ASSUME NEW a \in 0..Len(b), NEW r, NEW g, Seen(r, a, g), Match(b, a, u \o v)
      PROVE  Reading(b, a, u \o v, WideRow(c), GetRow(b, r))
  <2> DEFINE n == Field(b, r)
             d == GetAll(b, n, GetValue)
             z == [id |-> n.got, values |-> d.got]
  <2>1. GetRow(b, r) = Got(d, z)
    BY DEF GetRow
  <2>2. a \in Nat /\ Len(b) \in Nat
    OBVIOUS
  <2>3. Match(b, a, u) /\ Match(b, a + 1, v)
    <3> HIDE DEF u, v, Fields
    <3>1. Match(b, a, u) /\ Match(b, a + Len(u), v)
      BY <1>2, <1>3, <1>6, <2>2, MatchSplit
    <3>2. QED BY <1>2, <3>1
  <2>4. Reading(b, a, u, c.id, n)
    BY <1>6, <2>3, FieldReads
  <2> HIDE DEF u, v, n, Fields
  <2>5. ASSUME a + 1 <= Len(b) PROVE Reading(b, a + 1, v, WideAll(c.values), d) /\ n.got = c.id
    <3>1. Seen(n, a + 1, c.id) /\ a + 1 \in 0..Len(b)
      BY <1>2, <2>2, <2>4, <2>5 DEF Reading
    <3>2. QED BY <1>3, <2>3, <3>1 DEF Seen
  <2>6. Over(b, n) => Over(b, d)
    BY ValuesOver
  <2> HIDE DEF d
  <2>7. Reading(b, a, u \o v, WideAll(c.values), d)
    BY <1>2, <1>3, <2>4, <2>5, <2>6, ReadTwo
  <2>8. ASSUME a + Len(u \o v) <= Len(b) PROVE z = WideRow(c)
    <3>1. a + 1 <= Len(b)
      <4>1. Len(u \o v) = Len(u) + Len(v) /\ Len(v) \in Nat
        BY <1>2, <1>3, Joined
      <4>2. QED BY <1>2, <2>2, <2>8, <4>1
    <3>2. d.got = WideAll(c.values)
      BY <2>7, <2>8 DEF Reading, Seen
    <3>3. QED BY <2>5, <3>1, <3>2 DEF WideRow
  <2> HIDE DEF z
  <2>9. Reading(b, a, u \o v, WideRow(c), Got(d, z))
    BY <2>7, <2>8, Renamed
  <2>10. QED BY <2>1, <2>9
<1> HIDE DEF u, v
<1>7. QED BY <1>4, <1>5, <1>6

LEMMA RowOver ==
  ASSUME NEW b \in Seq(Fields), NEW r, Over(b, r)
  PROVE  Over(b, GetRow(b, r))
<1>1. Over(b, Field(b, r))
  BY FieldOver
<1>2. Over(b, GetAll(b, Field(b, r), GetValue))
  BY <1>1, ValuesOver
<1>3. QED BY <1>2, RenamedOver DEF GetRow

\* The rows of a table.
LEMMA RowsRead ==
  ASSUME NEW b \in Seq(Fields), NEW s \in Seq(RowsData)
  PROVE  LET w == PutAll(s, PutRow)
         IN  /\ w \in Seq(Fields) /\ WideRows(s) \in Seq({WideRow(v) : v \in RowsData})
             /\ \A a \in 0..Len(b) : \A r, g : Seen(r, a, g) /\ Match(b, a, w) =>
                  Reading(b, a, w, WideRows(s), GetAll(b, r, GetRow))
<1> DEFINE X == RowsData
           Y == {WideRow(v) : v \in RowsData}
           put == [v \in X |-> PutRow(v)]
           wide == [v \in X |-> WideRow(v)]
           w == PutAll(s, PutRow)
<1>1. Nat \subseteq Fields /\ s \in Seq(X)
  BY DEF Fields
<1>2. put \in [X -> Seq(Fields)] /\ wide \in [X -> Y] /\ \A x \in X : put[x] = PutRow(x) /\ wide[x] = WideRow(x)
  BY RowReads
<1>3. DOMAIN s = 1..Len(s) /\ \A i \in 1..Len(s) : s[i] \in X
  BY ElementOfSeq
<1>4. w = <<Len(s)>> \o FlattenSeq([i \in DOMAIN s |-> put[s[i]]])
  <2>1. [i \in DOMAIN s |-> PutRow(s[i])] = [i \in DOMAIN s |-> put[s[i]]]
    <3> HIDE DEF put, X
    <3> QED BY <1>2, <1>3
  <2>2. w = <<Len(s)>> \o FlattenSeq([i \in DOMAIN s |-> PutRow(s[i])])
    BY DEF PutAll
  <2> HIDE DEF w, put
  <2>3. QED BY <2>1, <2>2
<1>5. WideRows(s) = [i \in DOMAIN s |-> wide[s[i]]]
  <2> HIDE DEF wide, X
  <2>1. QED BY <1>2, <1>3 DEF WideRows
<1> HIDE DEF put, wide, w, Y
<1>6. \A x \in X, a \in 0..Len(b) : \A r, g :
        Seen(r, a, g) /\ Match(b, a, put[x]) => Reading(b, a, put[x], wide[x], One("row", b, r))
  BY <1>2, RowReads DEF One
<1>7. \A r : Over(b, r) => Over(b, One("row", b, r))
  BY RowOver DEF One
<1>8. /\ w \in Seq(Fields) /\ WideRows(s) \in Seq(Y)
      /\ ReadAsList("row", b, w, WideRows(s))
  <2> HIDE DEF X, Fields
  <2>1. put \in [X -> Seq(Fields)] /\ wide \in [X -> Y]
    BY <1>2
  <2>2. Codec("row", b, X, put, wide)
    BY <1>6, <1>7 DEF Codec
  <2>3. /\ PutEach(s, put) \in Seq(Fields) /\ ReadEach(s, wide) \in Seq(Y)
        /\ ReadAsList("row", b, PutEach(s, put), ReadEach(s, wide))
    BY <1>1, <2>1, <2>2, ListOf
  <2>4. w = PutEach(s, put) /\ WideRows(s) = ReadEach(s, wide)
    BY <1>4, <1>5 DEF PutEach, ReadEach
  <2>5. QED BY <2>3, <2>4
<1>9. \A r : Field(b, r).got \in Nat =>
        \E f : Items("row", b, Field(b, r), f) /\ GetAll(b, r, GetRow) = f[Field(b, r).got]
  BY Unrolled
<1>10. QED BY <1>8, <1>9 DEF ReadAsList, w, Y

LEMMA RowsOver ==
  ASSUME NEW b \in Seq(Fields), NEW r, Over(b, r)
  PROVE  Over(b, GetAll(b, r, GetRow))
<1> DEFINE q == GetAll(b, r, GetRow)
<1>1. Field(b, r).got \in Nat => \E f : Items("row", b, Field(b, r), f) /\ q = f[Field(b, r).got]
  BY Unrolled
<1> HIDE DEF q
<1>2. Over(b, q)
  BY <1>1, ListOver
<1>3. QED BY <1>2 DEF q

-----------------------------------------------------------------------------
(* Tables.                                                                 *)

WideTable(d) ==
  [schema |-> [columns |-> WideColumns(d.schema.columns), primary_key |-> d.schema.primary_key],
   rows |-> WideRows(d.rows)]

\* What was read first was read, and the next part behind it.
GoesOn(b, p, x, v, y, q) ==
  /\ \A c \in 0..Len(b) : Seen(p, c, x) /\ Match(b, c, v) => Reading(b, c, v, y, q)
  /\ Over(b, p) => Over(b, q)

LEMMA ReadNext ==
  ASSUME NEW S, NEW b \in Seq(S), NEW a \in 0..Len(b), NEW u \in Seq(S), NEW v \in Seq(S),
         Match(b, a, u \o v), NEW x, NEW y, NEW p, NEW q, Reading(b, a, u, x, p),
         GoesOn(b, p, x, v, y, q)
  PROVE  /\ Reading(b, a, u \o v, y, q)
         /\ a + Len(u \o v) <= Len(b) => a + Len(u) <= Len(b) /\ p.got = x /\ q.got = y
<1>1. /\ Match(b, a + Len(u), v) /\ Len(u) \in Nat /\ Len(v) \in Nat
      /\ Len(u \o v) = Len(u) + Len(v) /\ Len(b) \in Nat /\ a \in Nat
  <2>1. a \in Nat /\ Len(b) \in Nat
    OBVIOUS
  <2>2. QED BY <2>1, MatchSplit
<1>2. ASSUME a + Len(u) <= Len(b) PROVE Reading(b, a + Len(u), v, y, q) /\ p.got = x
  <2>1. Seen(p, a + Len(u), x)
    BY <1>2 DEF Reading
  <2>2. a + Len(u) \in 0..Len(b)
    BY <1>1, <1>2
  <2>3. QED BY <1>1, <2>1, <2>2 DEF Seen, GoesOn
<1>3. Reading(b, a, u \o v, y, q)
  BY <1>2, ReadTwo DEF GoesOn
<1>4. ASSUME a + Len(u \o v) <= Len(b) PROVE a + Len(u) <= Len(b) /\ p.got = x /\ q.got = y
  <2>1. a + Len(u) <= Len(b)
    BY <1>1, <1>4
  <2>2. q.got = y
    BY <1>3, <1>4 DEF Reading, Seen
  <2>3. QED BY <1>2, <2>1, <2>2
<1>5. QED BY <1>3, <1>4

\* A table and its name.
LEMMA TableReads ==
  ASSUME NEW b \in Seq(Fields), NEW name \in STRING, NEW d \in TablesData
  PROVE  /\ PutTable(name, d) \in Seq(Fields)
         /\ \A a \in 0..Len(b) : \A r, g : Seen(r, a, g) /\ Match(b, a, PutTable(name, d)) =>
              Reading(b, a, PutTable(name, d), <<name, WideTable(d)>>, GetTable(b, r))
<1> DEFINE w1 == <<name>>
           w2 == PutAll(d.schema.columns, PutColumn)
           w3 == PutOption(d.schema.primary_key, LAMBDA k : <<k>>)
           w4 == PutAll(d.rows, PutRow)
           x2 == WideColumns(d.schema.columns)
           x3 == d.schema.primary_key
           x4 == WideRows(d.rows)
<1>1. /\ name \in Fields /\ d.schema.columns \in Seq(ColumnDefs) /\ d.schema.primary_key \in OptionOf(STRING)
      /\ d.rows \in Seq(RowsData)
  <2>1. name \in Fields
    BY DEF Fields
  <2>2. d.schema \in TableSchemas /\ d.rows \in Seq(RowsData)
    BY DEF TablesData
  <2>3. QED BY <2>1, <2>2 DEF TableSchemas
<1>2. w1 \in Seq(Fields) /\ Len(w1) = 1
  <2> HIDE DEF Fields
  <2>1. QED BY <1>1
<1>3. /\ w2 \in Seq(Fields)
      /\ \A a \in 0..Len(b) : \A r, g : Seen(r, a, g) /\ Match(b, a, w2) =>
           Reading(b, a, w2, x2, GetAll(b, r, GetColumn))
  BY <1>1, ColumnsRead
<1>4. /\ w3 \in Seq(Fields)
      /\ \A a \in 0..Len(b) : \A r, g : Seen(r, a, g) /\ Match(b, a, w3) =>
           Reading(b, a, w3, x3, GetOption(b, r, Field))
      /\ \A r : Over(b, r) => Over(b, GetOption(b, r, Field))
  BY <1>1, KeyReads
<1>5. /\ w4 \in Seq(Fields)
      /\ \A a \in 0..Len(b) : \A r, g : Seen(r, a, g) /\ Match(b, a, w4) =>
           Reading(b, a, w4, x4, GetAll(b, r, GetRow))
  BY <1>1, RowsRead
<1>6. PutTable(name, d) = w1 \o w2 \o w3 \o w4
  BY DEF PutTable
<1>7. WideTable(d) = [schema |-> [columns |-> x2, primary_key |-> x3], rows |-> x4]
  BY DEF WideTable
<1> HIDE DEF w1, w2, w3, w4, x2, x3, x4, Fields
<1>8. w1 \o w2 \in Seq(Fields)
  BY <1>2, <1>3
<1>9. (w1 \o w2) \o w3 \in Seq(Fields)
  BY <1>4, <1>8
<1>10. ((w1 \o w2) \o w3) \o w4 \in Seq(Fields)
  BY <1>5, <1>9
<1>11. ASSUME NEW a \in 0..Len(b), NEW r, NEW g, Seen(r, a, g), Match(b, a, w1 \o w2 \o w3 \o w4)
       PROVE  Reading(b, a, w1 \o w2 \o w3 \o w4, <<name, WideTable(d)>>, GetTable(b, r))
  <2> DEFINE q1 == Field(b, r)
             q2 == GetAll(b, q1, GetColumn)
             q3 == GetOption(b, q2, Field)
             q4 == GetAll(b, q3, GetRow)
             z  == <<q1.got, [schema |-> [columns |-> q2.got, primary_key |-> q3.got], rows |-> q4.got]>>
             u2 == w1 \o w2
             u3 == u2 \o w3
             u4 == u3 \o w4
  <2>1. GetTable(b, r) = Got(q4, z)
    BY DEF GetTable
  <2>2. a \in Nat /\ Len(b) \in Nat
    OBVIOUS
  <2>3. Match(b, a, u4)
    BY <1>11
  <2>4. u2 \in Seq(Fields) /\ u3 \in Seq(Fields) /\ u4 \in Seq(Fields)
    BY <1>8, <1>9, <1>10
  <2>5. Match(b, a, u3)
    <3> HIDE DEF u3
    <3>1. QED BY <1>5, <2>2, <2>3, <2>4, MatchSplit
  <2>6. Match(b, a, u2)
    <3> HIDE DEF u2
    <3>1. QED BY <1>4, <2>2, <2>4, <2>5, MatchSplit
  <2>7. Match(b, a, w1)
    BY <1>2, <1>3, <2>2, <2>6, MatchSplit
  <2>8. Reading(b, a, w1, name, q1)
    BY <1>11, <2>7, FieldReads DEF w1
  <2>9. /\ Over(b, q1) => Over(b, q2)
        /\ Over(b, q2) => Over(b, q3)
        /\ Over(b, q3) => Over(b, q4)
    BY <1>4, ColumnsOver, RowsOver
  <2>10. /\ GoesOn(b, q1, name, w2, x2, q2)
         /\ GoesOn(b, q2, x2, w3, x3, q3)
         /\ GoesOn(b, q3, x3, w4, x4, q4)
    BY <1>3, <1>4, <1>5, <2>9 DEF GoesOn
  <2> HIDE DEF q1, q2, q3, q4
  <2>11. /\ Reading(b, a, u2, x2, q2)
         /\ a + Len(u2) <= Len(b) => q1.got = name /\ q2.got = x2
    BY <1>2, <1>3, <2>6, <2>8, <2>10, ReadNext
  <2> HIDE DEF u2
  <2>12. /\ Reading(b, a, u3, x3, q3)
         /\ a + Len(u3) <= Len(b) => a + Len(u2) <= Len(b) /\ q3.got = x3
    BY <1>4, <2>4, <2>5, <2>10, <2>11, ReadNext
  <2> HIDE DEF u3
  <2>13. /\ Reading(b, a, u4, x4, q4)
         /\ a + Len(u4) <= Len(b) => a + Len(u3) <= Len(b) /\ q4.got = x4
    BY <1>5, <2>3, <2>4, <2>10, <2>12, ReadNext
  <2> HIDE DEF u4
  <2>14. ASSUME a + Len(u4) <= Len(b) PROVE z = <<name, WideTable(d)>>
    BY <1>7, <2>11, <2>12, <2>13, <2>14
  <2> HIDE DEF z
  <2>15. Reading(b, a, u4, <<name, WideTable(d)>>, Got(q4, z))
    BY <2>13, <2>14, Renamed
  <2>16. QED BY <2>1, <2>15 DEF u4, u3, u2
<1>12. QED BY <1>6, <1>10, <1>11

LEMMA TableOver ==
  ASSUME NEW b \in Seq(Fields), NEW r, Over(b, r)
  PROVE  Over(b, GetTable(b, r))
<1> DEFINE q1 == Field(b, r)
           q2 == GetAll(b, q1, GetColumn)
           q3 == GetOption(b, q2, Field)
           q4 == GetAll(b, q3, GetRow)
<1>1. Over(b, q1)
  BY FieldOver
<1>2. Over(b, q2)
  BY <1>1, ColumnsOver
<1> HIDE DEF q2
<1>3. q3 = Chosen(Field(b, q2), Field(b, Field(b, q2)))
  BY DEF GetOption, Chosen
<1>4. Over(b, q3)
  BY <1>2, <1>3, ChosenOver
<1>5. Over(b, q4)
  BY <1>4, RowsOver
<1>6. QED BY <1>5, RenamedOver DEF GetTable, q2

-----------------------------------------------------------------------------
(* Files.                                                                  *)

\* The tables of an engine in the order a file has them in.
LEMMA NamesOnce ==
  ASSUME NEW D, IsFiniteSet(D)
  PROVE  LET s == SetToSeq(D)
         IN  /\ s \in Seq(D)
             /\ \A i, j \in 1..Len(s) : s[i] = s[j] => i = j
             /\ \A x \in D : \E i \in 1..Len(s) : s[i] = x
<1> DEFINE N == Cardinality(D)
           s == SetToSeq(D)
<1>1. N \in Nat /\ ExistsBijection(1..N, D)
  BY FS_CardinalityType
<1> HIDE DEF N
<1>2. \E f \in [1..N -> D] : IsInjective(f)
  BY <1>1 DEF ExistsBijection, Bijection, Injection
<1>3. s \in [1..N -> D] /\ IsInjective(s)
  BY <1>2 DEF SetToSeq, N
<1> HIDE DEF s
<1>4. s \in Injection(1..N, D)
  BY <1>3 DEF Injection
<1>5. IsFiniteSet(1..N) /\ Cardinality(1..N) = N
  <2>1. 1 \in Int /\ N \in Int
    BY <1>1
  <2>2. IsFiniteSet(1..N) /\ Cardinality(1..N) = IF 1 > N THEN 0 ELSE N - 1 + 1
    BY <2>1, FS_Interval
  <2>3. QED BY <1>1, <2>2
<1>6. s \in Surjection(1..N, D)
  BY <1>4, <1>5, FS_Injection DEF N
<1>7. \A x \in D : \E i \in 1..N : s[i] = x
  BY <1>6 DEF Surjection
<1>8. s \in Seq(D) /\ Len(s) = N
  BY <1>1, <1>3
<1>9. \A i, j \in 1..N : s[i] = s[j] => i = j
  BY <1>3 DEF IsInjective
<1>10. QED BY <1>7, <1>8, <1>9 DEF s

\* An engine that can be saved, and what is read again of it.
Storable(e) == /\ IsFiniteSet(DOMAIN e) /\ DOMAIN e \subseteq STRING
               /\ \A n \in DOMAIN e : e[n] \in TablesData
WideEngine(e) == [n \in DOMAIN e |-> WideTable(e[n])]

\* The names and tables that a file holds, in their order.
Written(e) == [i \in DOMAIN SetToSeq(DOMAIN e) |-> <<SetToSeq(DOMAIN e)[i], WideTable(e[SetToSeq(DOMAIN e)[i]])>>]

LEMMA TablesRead ==
  ASSUME NEW b \in Seq(Fields), NEW e, Storable(e)
  PROVE  LET w == PutAll(SetToSeq(DOMAIN e), LAMBDA name : PutTable(name, e[name]))
         IN  /\ w \in Seq(Fields)
             /\ \A a \in 0..Len(b) : \A r, g : Seen(r, a, g) /\ Match(b, a, w) =>
                  Reading(b, a, w, Written(e), GetAll(b, r, GetTable))
<1> DEFINE X == DOMAIN e
           s == SetToSeq(X)
           Y == {<<v, WideTable(e[v])>> : v \in X}
           put == [v \in X |-> PutTable(v, e[v])]
           wide == [v \in X |-> <<v, WideTable(e[v])>>]
           w == PutAll(s, LAMBDA name : PutTable(name, e[name]))
<1>0. X \subseteq STRING /\ \A n \in X : e[n] \in TablesData
  BY DEF Storable
<1>1. Nat \subseteq Fields /\ s \in Seq(X)
  <2>1. Nat \subseteq Fields
    BY DEF Fields
  <2>2. QED BY <2>1, NamesOnce DEF Storable
<1>2. put \in [X -> Seq(Fields)] /\ wide \in [X -> Y]
      /\ \A x \in X : put[x] = PutTable(x, e[x]) /\ wide[x] = <<x, WideTable(e[x])>>
  <2>1. \A x \in X : PutTable(x, e[x]) \in Seq(Fields)
    BY <1>0, TableReads
  <2>2. QED BY <2>1
<1>5. Written(e) = [i \in DOMAIN s |-> wide[s[i]]]
  <2>1. DOMAIN s = 1..Len(s) /\ \A i \in 1..Len(s) : s[i] \in X
    <3> HIDE DEF s
    <3>1. QED BY <1>1, ElementOfSeq
  <2>2. Written(e) = [i \in DOMAIN s |-> <<s[i], WideTable(e[s[i]])>>]
    BY DEF Written
  <2> HIDE DEF wide, X, s
  <2>3. QED BY <1>2, <2>1, <2>2
<1>4. w = <<Len(s)>> \o FlattenSeq([i \in DOMAIN s |-> put[s[i]]])
  <2>1. w = <<Len(s)>> \o FlattenSeq([i \in DOMAIN s |-> PutTable(s[i], e[s[i]])])
    BY DEF PutAll
  <2> HIDE DEF w, s
  <2>2. DOMAIN s = 1..Len(s) /\ \A i \in 1..Len(s) : s[i] \in X
    BY <1>1, ElementOfSeq
  <2> HIDE DEF put, X
  <2>3. [i \in DOMAIN s |-> PutTable(s[i], e[s[i]])] = [i \in DOMAIN s |-> put[s[i]]]
    BY <1>2, <2>2
  <2>4. QED BY <2>1, <2>3
<1>6. \A x \in X, a \in 0..Len(b) : \A r, g :
        Seen(r, a, g) /\ Match(b, a, put[x]) => Reading(b, a, put[x], wide[x], One("table", b, r))
  <2> HIDE DEF put, wide
  <2>1. ASSUME NEW x \in X, NEW a \in 0..Len(b), NEW r, NEW g, Seen(r, a, g), Match(b, a, put[x])
        PROVE  Reading(b, a, put[x], wide[x], One("table", b, r))
    <3>1. x \in STRING /\ e[x] \in TablesData
      BY <1>0
    <3>2. One("table", b, r) = GetTable(b, r)
      BY DEF One
    <3>3. put[x] = PutTable(x, e[x]) /\ wide[x] = <<x, WideTable(e[x])>>
      BY <1>2
    <3>4. QED BY <2>1, <3>1, <3>2, <3>3, TableReads
  <2>2. QED BY <2>1
<1>7. \A r : Over(b, r) => Over(b, One("table", b, r))
  BY TableOver DEF One
<1> HIDE DEF put, wide, w, Y, s
<1>8. /\ w \in Seq(Fields)
      /\ ReadAsList("table", b, w, Written(e))
  <2> HIDE DEF X, Fields
  <2>1. put \in [X -> Seq(Fields)] /\ wide \in [X -> Y]
    BY <1>2
  <2>2. Codec("table", b, X, put, wide)
    BY <1>6, <1>7 DEF Codec
  <2>3. /\ PutEach(s, put) \in Seq(Fields) /\ ReadEach(s, wide) \in Seq(Y)
        /\ ReadAsList("table", b, PutEach(s, put), ReadEach(s, wide))
    BY <1>1, <2>1, <2>2, ListOf
  <2>4. w = PutEach(s, put) /\ Written(e) = ReadEach(s, wide)
    BY <1>4, <1>5 DEF PutEach, ReadEach
  <2>5. QED BY <2>3, <2>4
<1>9. \A r : Field(b, r).got \in Nat =>
        \E f : Items("table", b, Field(b, r), f) /\ GetAll(b, r, GetTable) = f[Field(b, r).got]
  BY Unrolled
<1>10. QED BY <1>8, <1>9 DEF ReadAsList, w, s

LEMMA TablesOver ==
  ASSUME NEW b \in Seq(Fields), NEW r, Over(b, r)
  PROVE  Over(b, GetAll(b, r, GetTable))
<1> DEFINE q == GetAll(b, r, GetTable)
<1>1. Field(b, r).got \in Nat => \E f : Items("table", b, Field(b, r), f) /\ q = f[Field(b, r).got]
  BY Unrolled
<1> HIDE DEF q
<1>2. Over(b, q)
  BY <1>1, ListOver
<1>3. QED BY <1>2 DEF q

\* The file of an engine, or the front of it: Decode finds all the tables, or
\* that the end is missing.
LEMMA FileReads ==
  ASSUME NEW b \in Seq(Fields), NEW e, Storable(e), Match(b, 0, Encode(e))
  PROVE  LET tables0 == GetAll(b, Field(b, Field(b, Reader)), GetTable)
         IN  Encode(e) \in Seq(Fields) /\ Reading(b, 0, Encode(e), Written(e), tables0)
<1> DEFINE w == PutAll(SetToSeq(DOMAIN e), LAMBDA name : PutTable(name, e[name]))
           h == <<"TORMDB01", 1>>
           h1 == <<"TORMDB01">>
           h2 == << 1 >>
           q1 == Field(b, Reader)
           q2 == Field(b, q1)
           q3 == GetAll(b, q2, GetTable)
<1>1. /\ w \in Seq(Fields)
      /\ \A a \in 0..Len(b) : \A r, g : Seen(r, a, g) /\ Match(b, a, w) =>
           Reading(b, a, w, Written(e), GetAll(b, r, GetTable))
  BY TablesRead
<1>2. "TORMDB01" \in Fields /\ 1 \in Fields
  BY DEF Fields
<1>3. Encode(e) = h \o w
  BY DEF Encode
<1> HIDE DEF w, Fields
<1>4. h = h1 \o h2 /\ h1 \in Seq(Fields) /\ h2 \in Seq(Fields)
  BY <1>2, Pair
<1>5. h \in Seq(Fields)
  BY <1>2
<1>6. 0 \in 0..Len(b) /\ Len(b) \in Nat /\ 0 \in Nat
  OBVIOUS
<1>7. h \o w \in Seq(Fields)
  <2> HIDE DEF h
  <2>1. QED BY <1>1, <1>5
<1>8. Match(b, 0, h)
  <2> HIDE DEF h
  <2>1. QED BY <1>1, <1>3, <1>5, <1>6, MatchSplit
<1>9. Match(b, 0, h1)
  <2> HIDE DEF h, h1, h2
  <2>1. QED BY <1>4, <1>6, <1>8, MatchSplit
<1>10. Seen(Reader, 0, 0)
  BY DEF Seen, Reader
<1>11. Reading(b, 0, h1, "TORMDB01", q1)
  BY <1>6, <1>9, <1>10, FieldReads
<1>12. /\ Over(b, q1) => Over(b, q2)
       /\ Over(b, q2) => Over(b, q3)
  BY FieldOver, TablesOver
<1>13. GoesOn(b, q1, "TORMDB01", h2, 1, q2) /\ GoesOn(b, q2, 1, w, Written(e), q3)
  BY <1>1, <1>12, FieldReads DEF GoesOn
<1> HIDE DEF h, h1, h2, q1, q2, q3
<1>14. Reading(b, 0, h, 1, q2)
  BY <1>4, <1>6, <1>8, <1>11, <1>13, ReadNext
<1>15. Reading(b, 0, h \o w, Written(e), q3)
  BY <1>1, <1>3, <1>5, <1>6, <1>13, <1>14, ReadNext
<1>16. QED BY <1>3, <1>7, <1>15 DEF q1, q2, q3

LEMMA FileFields == ASSUME NEW e, Storable(e) PROVE Encode(e) \in Seq(Fields)
<1> DEFINE b == <<>>
<1>1. b \in Seq(Fields) /\ Len(b) = 0
  OBVIOUS
<1> HIDE DEF b
<1>2. Match(b, 0, Encode(e))
  BY <1>1 DEF Match
<1>3. QED BY <1>1, <1>2, FileReads

\* What Decode makes of the tables it has read.
LEMMA Decoded ==
  ASSUME NEW b
  PROVE  LET q  == GetAll(b, Field(b, Field(b, Reader)), GetTable)
             ts == q.got
         IN  /\ Decode(b).ok = q.ok
             /\ q.ok => Decode(b).engine =
                  [name \in {ts[i][1] : i \in DOMAIN ts} |-> ts[SelectLastInSeq(ts, LAMBDA t : t[1] = name)][2]]
BY DEF Decode

\* A file that ends early is never taken for one.
LEMMA CutFile ==
  ASSUME NEW e, Storable(e), NEW k \in 0..(Len(Encode(e)) - 1)
  PROVE  ~Decode(SubSeq(Encode(e), 1, k)).ok
<1> DEFINE w == Encode(e)
           b == SubSeq(w, 1, k)
           q == GetAll(b, Field(b, Field(b, Reader)), GetTable)
<1>1. w \in Seq(Fields)
  BY FileFields
<1> HIDE DEF w, Fields
<1>2. Len(w) \in Nat /\ k \in Nat /\ k < Len(w)
  BY <1>1 DEF w
<1>3. b \in Seq(Fields) /\ Len(b) = k /\ \A i \in 1..k : b[i] = w[i]
  BY <1>1, <1>2
<1> HIDE DEF b
<1>4. Match(b, 0, w)
  <2>1. ASSUME NEW i \in 1..Len(w), 0 + i <= Len(b) PROVE b[0 + i] = w[i]
    <3>1. 0 + i = i /\ i \in 1..k
      BY <1>2, <1>3, <2>1
    <3>2. QED BY <1>3, <3>1
  <2>2. QED BY <2>1 DEF Match
<1>5. Reading(b, 0, w, Written(e), q)
  BY <1>3, <1>4, FileReads DEF w
<1>6. ~(0 + Len(w) <= Len(b))
  BY <1>2, <1>3
<1>7. q.ok = FALSE
  BY <1>5, <1>6 DEF Reading, Over
<1>8. ~Decode(b).ok
  BY <1>7, Decoded
<1>9. QED BY <1>8 DEF b, w

\* One that does not holds every table as it is read again.
LEMMA WholeFile ==
  ASSUME NEW e, Storable(e)
  PROVE  Decode(Encode(e)).ok /\ Decode(Encode(e)).engine = WideEngine(e)
<1> DEFINE b == Encode(e)
           q == GetAll(b, Field(b, Field(b, Reader)), GetTable)
           ts == Written(e)
           D == DOMAIN e
           s == SetToSeq(D)
           Final(name) == SelectLastInSeq(ts, LAMBDA t : t[1] = name)
<1>1. b \in Seq(Fields)
  BY FileFields
<1> HIDE DEF b, Fields
<1>2. Match(b, 0, b) /\ Len(b) \in Nat
  BY <1>1 DEF Match
<1>3. Reading(b, 0, b, ts, q)
  BY <1>1, <1>2, FileReads DEF b
<1>4. q.ok = TRUE /\ q.got = ts
  BY <1>2, <1>3 DEF Reading, Seen
<1>5. Decode(b).ok /\ Decode(b).engine = [name \in {ts[i][1] : i \in DOMAIN ts} |-> ts[Final(name)][2]]
  <2> HIDE DEF q, ts
  <2>1. Decode(b).ok = q.ok
    BY Decoded DEF q
  <2>2. Decode(b).engine = [name \in {q.got[i][1] : i \in DOMAIN q.got} |->
                              q.got[SelectLastInSeq(q.got, LAMBDA t : t[1] = name)][2]]
    BY <1>4, Decoded DEF q
  <2>3. QED BY <1>4, <2>1, <2>2
<1>6. /\ s \in Seq(D)
      /\ \A i, j \in 1..Len(s) : s[i] = s[j] => i = j
      /\ \A x \in D : \E i \in 1..Len(s) : s[i] = x
  BY NamesOnce DEF Storable
<1>7. ts = [i \in DOMAIN s |-> <<s[i], WideTable(e[s[i]])>>]
  BY DEF Written
<1> HIDE DEF ts, s, D
<1>8. Len(s) \in Nat /\ DOMAIN s = 1..Len(s) /\ \A i \in 1..Len(s) : s[i] \in D
  BY <1>6, ElementOfSeq
<1>9. DOMAIN ts = 1..Len(s) /\ Len(ts) = Len(s)
      /\ \A i \in 1..Len(s) : ts[i][1] = s[i] /\ ts[i][2] = WideTable(e[s[i]])
  <2>1. ts = [i \in 1..Len(s) |-> <<s[i], WideTable(e[s[i]])>>]
    BY <1>7, <1>8
  <2>2. DOMAIN ts = 1..Len(s) /\ \A i \in 1..Len(s) : ts[i] = <<s[i], WideTable(e[s[i]])>>
    BY <2>1
  <2>3. Len(ts) = Len(s)
    BY <1>8, <2>1
  <2>4. QED BY <2>2, <2>3
<1>10. {ts[i][1] : i \in DOMAIN ts} = D
  <2>1. ASSUME NEW x \in D PROVE x \in {ts[i][1] : i \in DOMAIN ts}
    BY <1>6, <1>9
  <2>2. ASSUME NEW i \in DOMAIN ts PROVE ts[i][1] \in D
    BY <1>8, <1>9
  <2>3. QED BY <2>1, <2>2
<1>11. ASSUME NEW name \in D PROVE ts[Final(name)][2] = WideTable(e[name])
  <2> DEFINE I == {i \in 1..Len(ts) : ts[i][1] = name}
  <2>1. PICK i \in 1..Len(s) : s[i] = name
    BY <1>6
  <2>2. i \in I /\ I # {}
    BY <1>9, <2>1
  <2>3. \A j \in I : j = i
    BY <1>6, <1>9, <2>1
  <2>4. I = {i}
    BY <2>2, <2>3
  <2>5. Final(name) = CHOOSE x \in I : \A y \in I : x >= y
    BY <2>2 DEF SelectLastInSeq, Max
  <2>6. (CHOOSE x \in I : \A y \in I : x >= y) = i
    <3>1. \E x \in I : \A y \in I : x >= y
      <4>1. i >= i
        BY <1>8, <2>1
      <4>2. QED BY <2>4, <4>1
    <3> HIDE DEF I
    <3>2. (CHOOSE x \in I : \A y \in I : x >= y) \in I
      BY <3>1
    <3>3. QED BY <2>3, <3>2
  <2>7. Final(name) = i
    BY <2>5, <2>6
  <2>8. QED BY <1>9, <2>1, <2>7
<1>12. [name \in {ts[i][1] : i \in DOMAIN ts} |-> ts[Final(name)][2]] = WideEngine(e)
  <2> HIDE DEF Final
  <2>1. [name \in D |-> ts[Final(name)][2]] = [name \in D |-> WideTable(e[name])]
    BY <1>11
  <2>2. QED BY <1>10, <2>1 DEF WideEngine, D
<1>13. QED BY <1>5, <1>12 DEF b

-----------------------------------------------------------------------------
(* What a table keeps.                                                     *)

\* A table whose rows its schema accepts, and an engine of them.
TableOK(d) == /\ d \in TablesData
              /\ \A i \in DOMAIN d.rows : Len(d.rows[i].values) = Len(d.schema.columns)
              /\ Fits(d)
Sound(e) == /\ IsFiniteSet(DOMAIN e) /\ DOMAIN e \subseteq TableNames
            /\ e = [n \in DOMAIN e |-> e[n]]
            /\ \A n \in DOMAIN e : TableOK(e[n])

LEMMA SoundStorable == ASSUME NEW e, Sound(e) PROVE Storable(e)
BY StorageAssumption DEF Sound, Storable, TableOK

LEMMA WideTyped ==
  ASSUME NEW v \in SqlValues
  PROVE  /\ WideValue(v) \in SqlValues /\ SameValue(v, WideValue(v))
         /\ WideValue(v) = Null <=> v = Null
         /\ \A col : Accepts(col, v) /\ col.type \in ColumnTypes => v = Null \/ WideValue(v).t \in Stores(col.type)
<1>1. CASE v = Null
  <2>1. WideValue(v) = Null
    BY <1>1 DEF WideValue
  <2>2. QED BY <1>1, <2>1 DEF SqlValues, SameValue
<1>2. CASE v # Null
  <2> DEFINE m == IF v.t = "DateTime" /\ v.n > MaxNanos THEN 0 ELSE v.n
             t == TypeOfTag[Tag(v.t)]
  <2>1. v \in [t : Types \ {"Null"}, n : Int] /\ v.t \in Types /\ v.t # "Null" /\ v.n \in Int
    BY <1>2 DEF SqlValues
  <2>2. v = [t |-> v.t, n |-> v.n] /\ m \in Int
    BY <2>1
  <2>3. WideValue(v) = [t |-> t, n |-> m]
    BY <1>2 DEF WideValue, Val
  <2>4. t = IF v.t \in {"I8", "I16"} THEN "I32" ELSE IF v.t = "F32" THEN "F64" ELSE v.t
    BY <2>1 DEF Tag, TypeOfTag, Types
  <2> HIDE DEF t, m
  <2>5. t \in Types \ {"Null"}
    BY <2>1, <2>4 DEF Types
  <2>6. WideValue(v) \in SqlValues /\ WideValue(v) # Null
    BY <2>2, <2>3, <2>5 DEF SqlValues, Null
  <2>7. SameValue(v, WideValue(v))
    <3>1. CASE v.t = "DateTime" /\ v.n > MaxNanos
      BY <2>3, <2>4, <3>1 DEF SameValue
    <3>2. CASE ~(v.t = "DateTime" /\ v.n > MaxNanos)
      <4>1. m = v.n
        BY <3>2 DEF m
      <4>2. QED BY <2>2, <2>3, <2>4, <4>1 DEF SameValue, Val
    <3>3. QED BY <3>1, <3>2
  <2>8. ASSUME NEW col, Accepts(col, v), col.type \in ColumnTypes PROVE WideValue(v).t \in Stores(col.type)
    <3>1. v.t \in Stores(col.type)
      BY <1>2, <2>8 DEF Accepts
    <3>2. WideValue(v).t = t
      BY <2>3
    <3>3. QED BY <2>4, <2>8, <3>1, <3>2 DEF Stores, ColumnTypes
  <2>9. QED BY <1>2, <2>6, <2>7, <2>8
<1>3. QED BY <1>1, <1>2

\* What a column accepts it accepts when it is read again.
LEMMA WideAccepts ==
  ASSUME NEW c \in ColumnDefs, NEW v \in SqlValues, Accepts(c, v)
  PROVE  Accepts(WideColumn(c), WideValue(v))
<1>1. c.type \in ColumnTypes /\ WideColumn(c).type = c.type /\ WideColumn(c).nullable = c.nullable
  BY DEF ColumnDefs, WideColumn
<1>2. CASE v = Null
  <2>1. WideValue(v) = Null /\ c.nullable
    BY <1>2, WideTyped DEF Accepts
  <2>2. QED BY <1>1, <2>1 DEF Accepts
<1>3. CASE v # Null
  <2>1. WideValue(v) # Null /\ WideValue(v).t \in Stores(c.type)
    BY <1>1, <1>3, WideTyped
  <2>2. QED BY <1>1, <2>1 DEF Accepts
<1>4. QED BY <1>2, <1>3

LEMMA MapIsSeq ==
  ASSUME NEW Z, NEW n \in Nat, NEW f \in [1..n -> Z]
  PROVE  f \in Seq(Z) /\ Len(f) = n /\ DOMAIN f = 1..n
OBVIOUS

LEMMA WideAllTyped ==
  ASSUME NEW s \in Seq(SqlValues)
  PROVE  /\ WideAll(s) \in Seq(SqlValues) /\ Len(WideAll(s)) = Len(s) /\ DOMAIN WideAll(s) = DOMAIN s
         /\ \A i \in DOMAIN s : s[i] \in SqlValues /\ WideAll(s)[i] = WideValue(s[i])
<1>1. Len(s) \in Nat /\ DOMAIN s = 1..Len(s) /\ \A i \in 1..Len(s) : s[i] \in SqlValues
  BY ElementOfSeq
<1> DEFINE f == WideAll(s)
<1>2. f \in [1..Len(s) -> SqlValues] /\ \A i \in 1..Len(s) : f[i] = WideValue(s[i])
  BY <1>1, WideTyped DEF WideAll
<1> HIDE DEF f
<1>3. f \in Seq(SqlValues) /\ Len(f) = Len(s) /\ DOMAIN f = 1..Len(s)
  BY <1>1, <1>2, MapIsSeq, Zenon
<1>4. QED BY <1>1, <1>2, <1>3 DEF f

LEMMA WideColumnsTyped ==
  ASSUME NEW s \in Seq(ColumnDefs)
  PROVE  /\ WideColumns(s) \in Seq(ColumnDefs) /\ Len(WideColumns(s)) = Len(s) /\ DOMAIN WideColumns(s) = DOMAIN s
         /\ \A i \in DOMAIN s : s[i] \in ColumnDefs /\ WideColumns(s)[i] = WideColumn(s[i])
<1>1. Len(s) \in Nat /\ DOMAIN s = 1..Len(s) /\ \A i \in 1..Len(s) : s[i] \in ColumnDefs
  BY ElementOfSeq
<1>2. ASSUME NEW c \in ColumnDefs PROVE WideColumn(c) \in ColumnDefs
  <2>1. /\ c.name \in STRING /\ c.type \in ColumnTypes /\ c.nullable \in BOOLEAN /\ c.unique \in BOOLEAN
        /\ c.default \in OptionOf(SqlValues)
    BY DEF ColumnDefs
  <2>2. c.default \in Seq(SqlValues) /\ Len(c.default) <= 1
    BY <2>1 DEF OptionOf
  <2>3. WideAll(c.default) \in OptionOf(SqlValues)
    BY <2>2, WideAllTyped DEF OptionOf
  <2>4. QED BY <2>1, <2>3 DEF WideColumn, ColumnDefs
<1> DEFINE f == WideColumns(s)
<1>3. f \in [1..Len(s) -> ColumnDefs] /\ \A i \in 1..Len(s) : f[i] = WideColumn(s[i])
  BY <1>1, <1>2 DEF WideColumns
<1> HIDE DEF f
<1>4. f \in Seq(ColumnDefs) /\ Len(f) = Len(s) /\ DOMAIN f = 1..Len(s)
  BY <1>1, <1>3, MapIsSeq, Zenon
<1>5. QED BY <1>1, <1>3, <1>4 DEF f

LEMMA WideRowsTyped ==
  ASSUME NEW s \in Seq(RowsData)
  PROVE  /\ WideRows(s) \in Seq(RowsData) /\ Len(WideRows(s)) = Len(s) /\ DOMAIN WideRows(s) = DOMAIN s
         /\ \A i \in DOMAIN s : s[i] \in RowsData /\ WideRows(s)[i] = WideRow(s[i])
<1>1. Len(s) \in Nat /\ DOMAIN s = 1..Len(s) /\ \A i \in 1..Len(s) : s[i] \in RowsData
  BY ElementOfSeq
<1>2. ASSUME NEW c \in RowsData PROVE WideRow(c) \in RowsData
  <2>1. c.id \in Nat /\ c.values \in Seq(SqlValues)
    BY DEF RowsData
  <2>2. QED BY <2>1, WideAllTyped DEF WideRow, RowsData
<1> DEFINE f == WideRows(s)
<1>3. f \in [1..Len(s) -> RowsData] /\ \A i \in 1..Len(s) : f[i] = WideRow(s[i])
  BY <1>1, <1>2 DEF WideRows
<1> HIDE DEF f
<1>4. f \in Seq(RowsData) /\ Len(f) = Len(s) /\ DOMAIN f = 1..Len(s)
  BY <1>1, <1>3, MapIsSeq, Zenon
<1>5. QED BY <1>1, <1>3, <1>4 DEF f

LEMMA TableTyped ==
  ASSUME NEW d \in TablesData
  PROVE  /\ d.schema \in TableSchemas /\ d.rows \in Seq(RowsData)
         /\ d.schema.columns \in Seq(ColumnDefs) /\ d.schema.primary_key \in OptionOf(STRING)
         /\ Len(d.rows) \in Nat /\ DOMAIN d.rows = 1..Len(d.rows)
         /\ Len(d.schema.columns) \in Nat /\ DOMAIN d.schema.columns = 1..Len(d.schema.columns)
         /\ \A k \in DOMAIN d.schema.columns : d.schema.columns[k] \in ColumnDefs
         /\ \A i \in DOMAIN d.rows : /\ d.rows[i] \in RowsData /\ d.rows[i].id \in Nat
                                     /\ d.rows[i].values \in Seq(SqlValues)
<1>1. d.schema \in TableSchemas /\ d.rows \in Seq(RowsData)
  BY DEF TablesData
<1>2. d.schema.columns \in Seq(ColumnDefs) /\ d.schema.primary_key \in OptionOf(STRING)
  BY <1>1 DEF TableSchemas
<1>3. /\ Len(d.rows) \in Nat /\ DOMAIN d.rows = 1..Len(d.rows)
      /\ \A i \in DOMAIN d.rows : d.rows[i] \in RowsData
  BY <1>1, ElementOfSeq
<1>4. /\ Len(d.schema.columns) \in Nat /\ DOMAIN d.schema.columns = 1..Len(d.schema.columns)
      /\ \A k \in DOMAIN d.schema.columns : d.schema.columns[k] \in ColumnDefs
  BY <1>2, ElementOfSeq
<1>5. \A w \in RowsData : w.id \in Nat /\ w.values \in Seq(SqlValues)
  BY DEF RowsData
<1>6. QED BY <1>1, <1>2, <1>3, <1>4, <1>5

\* A table that is read again is as good as the one that was written, and the
\* same up to the widths of its values.
LEMMA WideTableOK ==
  ASSUME NEW d, TableOK(d)
  PROVE  TableOK(WideTable(d)) /\ SameTable(d, WideTable(d))
<1> DEFINE cs == d.schema.columns
           rs == d.rows
           wc == WideColumns(cs)
           wr == WideRows(rs)
           w  == WideTable(d)
<1>1. /\ d \in TablesData /\ \A i \in DOMAIN rs : Len(rs[i].values) = Len(cs)
      /\ Fits(d)
  BY DEF TableOK
<1>2. /\ cs \in Seq(ColumnDefs) /\ d.schema.primary_key \in OptionOf(STRING) /\ rs \in Seq(RowsData)
      /\ Len(cs) \in Nat /\ DOMAIN cs = 1..Len(cs) /\ Len(rs) \in Nat /\ DOMAIN rs = 1..Len(rs)
      /\ \A i \in DOMAIN rs : rs[i] \in RowsData /\ rs[i].values \in Seq(SqlValues)
  BY <1>1, TableTyped
<1>3. /\ wc \in Seq(ColumnDefs) /\ Len(wc) = Len(cs) /\ DOMAIN wc = DOMAIN cs
      /\ \A i \in DOMAIN cs : cs[i] \in ColumnDefs /\ wc[i] = WideColumn(cs[i])
  BY <1>2, WideColumnsTyped
<1>4. /\ wr \in Seq(RowsData) /\ Len(wr) = Len(rs) /\ DOMAIN wr = DOMAIN rs
      /\ \A i \in DOMAIN rs : rs[i] \in RowsData /\ wr[i] = WideRow(rs[i])
  BY <1>2, WideRowsTyped
<1>5. w = [schema |-> [columns |-> wc, primary_key |-> d.schema.primary_key], rows |-> wr]
  BY DEF WideTable
<1> HIDE DEF w, wc, wr
<1>6. /\ w.schema.columns = wc /\ w.schema.primary_key = d.schema.primary_key /\ w.rows = wr
      /\ w \in TablesData
  BY <1>2, <1>3, <1>4, <1>5 DEF TablesData, TableSchemas
<1>7. ASSUME NEW i \in DOMAIN rs
      PROVE  /\ wr[i].id = rs[i].id /\ Len(wr[i].values) = Len(rs[i].values)
             /\ \A k \in DOMAIN rs[i].values : /\ rs[i].values[k] \in SqlValues
                                               /\ wr[i].values[k] = WideValue(rs[i].values[k])
             /\ DOMAIN rs[i].values = 1..Len(cs)
  <2>1. wr[i].id = rs[i].id /\ wr[i].values = WideAll(rs[i].values)
    <3>1. wr[i] = WideRow(rs[i])
      BY <1>4
    <3>2. \A x : WideRow(x).id = x.id /\ WideRow(x).values = WideAll(x.values)
      BY DEF WideRow
    <3>3. QED BY <3>1, <3>2
  <2>2. rs[i].values \in Seq(SqlValues) /\ Len(rs[i].values) = Len(cs)
    BY <1>1, <1>2
  <2>3. DOMAIN rs[i].values = 1..Len(cs)
    BY <2>2
  <2>4. QED BY <2>1, <2>2, <2>3, WideAllTyped
<1>8. \A i \in DOMAIN w.rows : Len(w.rows[i].values) = Len(w.schema.columns)
  BY <1>1, <1>3, <1>4, <1>6, <1>7
<1>9. Fits(w)
  <2>1. ASSUME NEW i \in DOMAIN w.rows, NEW k \in DOMAIN w.schema.columns
        PROVE  Accepts(w.schema.columns[k], w.rows[i].values[k])
    <3>1. i \in DOMAIN rs /\ k \in DOMAIN cs /\ k \in DOMAIN rs[i].values
      BY <1>2, <1>3, <1>4, <1>6, <1>7, <2>1
    <3>2. Accepts(cs[k], rs[i].values[k])
      BY <1>1, <3>1 DEF Fits
    <3>3. Accepts(WideColumn(cs[k]), WideValue(rs[i].values[k]))
      BY <1>3, <1>7, <3>1, <3>2, WideAccepts
    <3>4. QED BY <1>3, <1>6, <1>7, <3>1, <3>3
  <2>2. QED BY <2>1 DEF Fits
<1>10. SameSchema(d.schema, w.schema)
  <2>1. ASSUME NEW i \in DOMAIN cs PROVE SameColumn(cs[i], wc[i])
    <3> DEFINE c == cs[i]
               x == wc[i]
    <3>1. c \in ColumnDefs /\ x = WideColumn(c)
      BY <1>3
    <3> HIDE DEF c, x
    <3>2. /\ c = [name |-> c.name, type |-> c.type, nullable |-> c.nullable, unique |-> c.unique, default |-> c.default]
          /\ c.default \in Seq(SqlValues)
      BY <3>1 DEF ColumnDefs, OptionOf
    <3>3. x = [name |-> c.name, type |-> c.type, nullable |-> c.nullable, unique |-> c.unique,
               default |-> WideAll(c.default)]
      BY <3>1 DEF WideColumn
    <3>4. x.default = WideAll(c.default)
      BY <3>3
    <3>5. x = [c EXCEPT !.default = x.default]
      BY <3>2, <3>3, <3>4
    <3>6. Len(x.default) = Len(c.default) /\ \A j \in DOMAIN c.default : SameValue(c.default[j], x.default[j])
      BY <3>2, <3>4, WideAllTyped, WideTyped
    <3>7. SameColumn(c, x)
      BY <3>5, <3>6 DEF SameColumn
    <3>8. QED BY <3>7 DEF c, x
  <2>2. QED BY <1>3, <1>6, <2>1 DEF SameSchema
<1>11. SameTable(d, w)
  <2>1. Rows(w) = Rows(d)
    BY <1>4, <1>6 DEF Rows
  <2>2. ASSUME NEW i \in DOMAIN rs, NEW k \in DOMAIN rs[i].values
        PROVE  SameValue(rs[i].values[k], wr[i].values[k])
    BY <1>7, WideTyped
  <2>3. QED BY <1>6, <1>7, <1>10, <2>1, <2>2 DEF SameTable
<1>12. QED BY <1>6, <1>8, <1>9, <1>11 DEF TableOK, w

LEMMA WideEngineOK ==
  ASSUME NEW e, Sound(e)
  PROVE  Sound(WideEngine(e)) /\ SameEngine(e, WideEngine(e))
<1>1. DOMAIN WideEngine(e) = DOMAIN e /\ \A n \in DOMAIN e : WideEngine(e)[n] = WideTable(e[n])
  BY DEF WideEngine
<1>2. WideEngine(e) = [n \in DOMAIN WideEngine(e) |-> WideEngine(e)[n]]
  BY DEF WideEngine
<1>3. \A n \in DOMAIN e : TableOK(WideTable(e[n])) /\ SameTable(e[n], WideTable(e[n]))
  BY WideTableOK DEF Sound
<1>4. QED BY <1>1, <1>2, <1>3 DEF Sound, SameEngine

\* Rows that fit make a table, with the schema there was.
LEMMA RowsMakeTable ==
  ASSUME NEW d, TableOK(d), NEW rs \in Seq(RowsData),
         \A i \in DOMAIN rs : /\ Len(rs[i].values) = Len(d.schema.columns)
                              /\ \A k \in DOMAIN d.schema.columns : Accepts(d.schema.columns[k], rs[i].values[k])
  PROVE  TableOK([d EXCEPT !.rows = rs])
<1> DEFINE x == [d EXCEPT !.rows = rs]
<1>1. d \in TablesData
  BY DEF TableOK
<1>2. x \in TablesData /\ x.schema = d.schema /\ x.rows = rs
  BY <1>1 DEF TablesData
<1> HIDE DEF x
<1>3. TableOK(x)
  BY <1>2 DEF TableOK, Fits
<1>4. QED BY <1>3 DEF x

\* One table of an engine may change, as long as it stays one.
LEMMA OneTableChanged ==
  ASSUME NEW e, Sound(e), NEW name \in DOMAIN e, NEW rs,
         TableOK([e[name] EXCEPT !.rows = rs])
  PROVE  Sound([e EXCEPT ![name].rows = rs])
<1> DEFINE x == [e[name] EXCEPT !.rows = rs]
           f == [e EXCEPT ![name] = x]
<1>1. f = [e EXCEPT ![name].rows = rs]
  OBVIOUS
<1> HIDE DEF x
<1>2. DOMAIN f = DOMAIN e /\ f = [n \in DOMAIN f |-> f[n]] /\ \A n \in DOMAIN e : f[n] = IF n = name THEN x ELSE e[n]
  BY DEF Sound
<1> HIDE DEF f
<1>3. Sound(f)
  BY <1>2 DEF Sound, x
<1>4. QED BY <1>1, <1>3

-----------------------------------------------------------------------------
(* What the operations keep.                                               *)

LEMMA EmptySound == Sound(NoEngine)
<1>1. DOMAIN NoEngine = {} /\ NoEngine = [n \in {} |-> NoEngine[n]]
  BY DEF NoEngine
<1>2. QED BY <1>1, FS_EmptySet DEF Sound

LEMMA CreateSound ==
  ASSUME Sound(tables), NEW name \in TableNames, NEW schema \in Schemas, CreateTable(name, schema)
  PROVE  Sound(tables')
<1> DEFINE d == [schema |-> schema, rows |-> <<>>]
<1>1. d \in TablesData /\ d.rows = <<>> /\ d.schema = schema
  BY StorageAssumption DEF TablesData
<1>2. TableOK(d)
  BY <1>1 DEF TableOK, Fits
<1> HIDE DEF d
<1>3. tables' = [n \in DOMAIN tables \cup {name} |-> IF n = name THEN d ELSE tables[n]]
  BY DEF CreateTable, d
<1>4. DOMAIN tables' = DOMAIN tables \cup {name} /\ tables' = [n \in DOMAIN tables' |-> tables'[n]]
      /\ \A n \in DOMAIN tables' : tables'[n] = IF n = name THEN d ELSE tables[n]
  BY <1>3
<1>5. IsFiniteSet(DOMAIN tables')
  BY <1>4, FS_AddElement DEF Sound
<1>6. QED BY <1>2, <1>4, <1>5 DEF Sound

LEMMA DropSound ==
  ASSUME Sound(tables), NEW name \in TableNames, DropTable(name)
  PROVE  Sound(tables')
<1>1. tables' = [n \in DOMAIN tables \ {name} |-> tables[n]]
  BY DEF DropTable
<1>2. DOMAIN tables' = DOMAIN tables \ {name} /\ tables' = [n \in DOMAIN tables' |-> tables'[n]]
      /\ \A n \in DOMAIN tables' : tables'[n] = tables[n]
  BY <1>1
<1>3. IsFiniteSet(DOMAIN tables')
  BY <1>2, FS_RemoveElement DEF Sound
<1>4. QED BY <1>2, <1>3 DEF Sound

\* The rows of a table, and that they fit.
LEMMA TableFits ==
  ASSUME NEW d, TableOK(d)
  PROVE  /\ d.rows \in Seq(RowsData) /\ Len(d.rows) \in Nat /\ DOMAIN d.rows = 1..Len(d.rows)
         /\ \A i \in DOMAIN d.rows :
              /\ d.rows[i] \in RowsData /\ d.rows[i].values \in Seq(SqlValues)
              /\ Len(d.rows[i].values) = Len(d.schema.columns)
              /\ \A k \in DOMAIN d.schema.columns : Accepts(d.schema.columns[k], d.rows[i].values[k])
         /\ d.schema.columns \in Seq(ColumnDefs)
         /\ Len(d.schema.columns) \in Nat /\ DOMAIN d.schema.columns = 1..Len(d.schema.columns)
BY TableTyped DEF TableOK, Fits

LEMMA InsertSound ==
  ASSUME Sound(tables), NEW name \in TableNames, NEW values \in Inputs, Insert(name, values)
  PROVE  Sound(tables')
<1> DEFINE d == tables[name]
           r == [id |-> Rows(d) + 1, values |-> values]
           rs == Append(d.rows, r)
<1>1. name \in DOMAIN tables /\ TableOK(d)
  BY DEF Insert, Sound
<1>2. /\ Len(values) = Len(d.schema.columns) /\ values \in Seq(SqlValues)
      /\ \A i \in DOMAIN values : Accepts(d.schema.columns[i], values[i])
      /\ tables' = [tables EXCEPT ![name].rows = rs]
  BY StorageAssumption DEF Insert
<1> HIDE DEF d
<1>3. /\ d.rows \in Seq(RowsData) /\ Len(d.rows) \in Nat /\ DOMAIN d.rows = 1..Len(d.rows)
      /\ \A i \in DOMAIN d.rows :
           /\ Len(d.rows[i].values) = Len(d.schema.columns)
           /\ \A k \in DOMAIN d.schema.columns : Accepts(d.schema.columns[k], d.rows[i].values[k])
      /\ DOMAIN d.schema.columns = 1..Len(d.schema.columns)
  BY <1>1, TableFits
<1>4. DOMAIN values = 1..Len(values)
  BY <1>2
<1>5. r \in RowsData /\ r.values = values
  BY <1>2, <1>3 DEF RowsData, Rows
<1> HIDE DEF r
<1>6. /\ rs \in Seq(RowsData) /\ DOMAIN rs = 1..(Len(d.rows) + 1)
      /\ \A i \in DOMAIN rs : i \in DOMAIN d.rows \/ i = Len(d.rows) + 1
      /\ \A i \in DOMAIN d.rows : rs[i] = d.rows[i]
      /\ rs[Len(d.rows) + 1] = r
  BY <1>3, <1>5, WriteEnd
<1> HIDE DEF rs
<1>7. ASSUME NEW i \in DOMAIN rs
      PROVE  /\ Len(rs[i].values) = Len(d.schema.columns)
             /\ \A k \in DOMAIN d.schema.columns : Accepts(d.schema.columns[k], rs[i].values[k])
  <2>1. CASE i \in DOMAIN d.rows
    BY <1>3, <1>6, <2>1
  <2>2. CASE i = Len(d.rows) + 1
    BY <1>2, <1>3, <1>4, <1>5, <1>6, <2>2
  <2>3. QED BY <1>6, <2>1, <2>2
<1>8. TableOK([d EXCEPT !.rows = rs])
  BY <1>1, <1>6, <1>7, RowsMakeTable
<1>9. QED BY <1>1, <1>2, <1>8, OneTableChanged DEF d

\* A row that is updated holds new values where its columns accept them.
LEMMA AssignFits ==
  ASSUME NEW d, TableOK(d), NEW i \in DOMAIN d.rows, NEW u \in Updates,
         \A col \in DOMAIN u : LET k == Position(d.schema, col)
                               IN k > 0 => Accepts(d.schema.columns[k], u[col])
  PROVE  LET r == Assign(d, d.rows[i], u)
         IN  /\ r \in RowsData /\ Len(r.values) = Len(d.schema.columns)
             /\ \A k \in DOMAIN d.schema.columns : Accepts(d.schema.columns[k], r.values[k])
<1> DEFINE cs == d.schema.columns
           row == d.rows[i]
           vs == row.values
           New(k) == cs[k].name \in DOMAIN u /\ Position(d.schema, cs[k].name) = k
           ws == [k \in DOMAIN vs |-> IF New(k) THEN u[cs[k].name] ELSE vs[k]]
           r == Assign(d, row, u)
<1>1. /\ row \in RowsData /\ vs \in Seq(SqlValues) /\ Len(vs) = Len(cs)
      /\ \A k \in DOMAIN cs : Accepts(cs[k], vs[k])
      /\ Len(cs) \in Nat /\ DOMAIN cs = 1..Len(cs)
  BY TableFits
<1>2. r = [row EXCEPT !.values = ws]
  BY DEF Assign
<1>3. DOMAIN vs = 1..Len(cs) /\ \A k \in 1..Len(cs) : vs[k] \in SqlValues
  BY <1>1, ElementOfSeq
<1>4. ASSUME NEW k \in 1..Len(cs), New(k) PROVE u[cs[k].name] \in SqlValues /\ Accepts(cs[k], u[cs[k].name])
  <2>1. k > 0
    BY <1>1
  <2>2. cs[k].name \in DOMAIN u /\ Position(d.schema, cs[k].name) = k
    BY <1>4
  <2> HIDE DEF New
  <2>3. QED BY <2>1, <2>2, StorageAssumption
<1> HIDE DEF New
<1>5. /\ ws \in [1..Len(cs) -> SqlValues]
      /\ \A k \in 1..Len(cs) : ws[k] = IF New(k) THEN u[cs[k].name] ELSE vs[k]
  BY <1>3, <1>4
<1> HIDE DEF ws, r, row, vs
<1>6. ws \in Seq(SqlValues) /\ Len(ws) = Len(cs)
  BY <1>1, <1>5, MapIsSeq, Zenon
<1>7. r \in RowsData /\ r.values = ws
  BY <1>1, <1>2, <1>6 DEF RowsData
<1>8. \A k \in 1..Len(cs) : Accepts(cs[k], ws[k])
  BY <1>1, <1>4, <1>5
<1>9. QED BY <1>1, <1>6, <1>7, <1>8 DEF r, row

LEMMA UpdateSound ==
  ASSUME Sound(tables), NEW name \in TableNames, NEW u \in Updates, NEW c \in Wheres, Update(name, u, c)
  PROVE  Sound(tables')
<1> DEFINE d == tables[name]
           rs == [i \in DOMAIN d.rows |-> IF Matches(c, d.rows[i], d.schema) THEN Assign(d, d.rows[i], u) ELSE d.rows[i]]
<1>1. name \in DOMAIN tables /\ TableOK(d)
  BY DEF Update, Sound
<1>2. /\ \A col \in DOMAIN u : LET k == Position(d.schema, col)
                               IN k > 0 => Accepts(d.schema.columns[k], u[col])
      /\ tables' = [tables EXCEPT ![name].rows = rs]
  BY DEF Update
<1> HIDE DEF d
<1>3. /\ Len(d.rows) \in Nat /\ DOMAIN d.rows = 1..Len(d.rows)
      /\ \A i \in DOMAIN d.rows :
           /\ d.rows[i] \in RowsData
           /\ Len(d.rows[i].values) = Len(d.schema.columns)
           /\ \A k \in DOMAIN d.schema.columns : Accepts(d.schema.columns[k], d.rows[i].values[k])
  BY <1>1, TableFits
<1>4. ASSUME NEW i \in 1..Len(d.rows)
      PROVE  /\ rs[i] \in RowsData
             /\ Len(rs[i].values) = Len(d.schema.columns)
             /\ \A k \in DOMAIN d.schema.columns : Accepts(d.schema.columns[k], rs[i].values[k])
  <2>1. rs[i] = IF Matches(c, d.rows[i], d.schema) THEN Assign(d, d.rows[i], u) ELSE d.rows[i]
    BY <1>3
  <2> HIDE DEF rs
  <2>2. CASE Matches(c, d.rows[i], d.schema)
    BY <1>1, <1>2, <1>3, <2>1, <2>2, AssignFits
  <2>3. CASE ~Matches(c, d.rows[i], d.schema)
    BY <1>3, <2>1, <2>3
  <2>4. QED BY <2>2, <2>3
<1>5. rs \in [1..Len(d.rows) -> RowsData]
  <2>1. rs = [i \in 1..Len(d.rows) |-> rs[i]]
    BY <1>3
  <2> HIDE DEF rs
  <2>2. QED BY <1>4, <2>1
<1> HIDE DEF rs
<1>6. rs \in Seq(RowsData) /\ DOMAIN rs = 1..Len(d.rows)
  BY <1>3, <1>5, MapIsSeq, Zenon
<1>7. TableOK([d EXCEPT !.rows = rs])
  BY <1>1, <1>4, <1>6, RowsMakeTable
<1>8. QED BY <1>1, <1>2, <1>7, OneTableChanged DEF d

LEMMA DeleteSound ==
  ASSUME Sound(tables), NEW name \in TableNames, NEW c \in Wheres, Delete(name, c)
  PROVE  Sound(tables')
<1> DEFINE d == tables[name]
           rs == Retain(d.rows, {r \in ToSet(d.rows) : Matches(c, r, d.schema)})
<1>1. name \in DOMAIN tables /\ TableOK(d) /\ tables' = [tables EXCEPT ![name].rows = rs]
  BY DEF Delete, Sound
<1> HIDE DEF d
<1>2. /\ d.rows \in Seq(RowsData)
      /\ \A i \in DOMAIN d.rows :
           /\ Len(d.rows[i].values) = Len(d.schema.columns)
           /\ \A k \in DOMAIN d.schema.columns : Accepts(d.schema.columns[k], d.rows[i].values[k])
  BY <1>1, TableFits
<1>3. rs \in Seq(RowsData) /\ \A r : Queues(rs, r) => Queues(d.rows, r)
  BY <1>2, RetainFacts
<1> HIDE DEF rs
<1>4. ASSUME NEW i \in DOMAIN rs PROVE \E j \in DOMAIN d.rows : d.rows[j] = rs[i]
  <2>1. Queues(rs, rs[i])
    BY DEF Queues
  <2>2. QED BY <1>3, <2>1 DEF Queues
<1>5. ASSUME NEW i \in DOMAIN rs
      PROVE  /\ Len(rs[i].values) = Len(d.schema.columns)
             /\ \A k \in DOMAIN d.schema.columns : Accepts(d.schema.columns[k], rs[i].values[k])
  <2>1. PICK j \in DOMAIN d.rows : d.rows[j] = rs[i]
    BY <1>4
  <2>2. QED BY <1>2, <2>1
<1>6. TableOK([d EXCEPT !.rows = rs])
  BY <1>1, <1>3, <1>5, RowsMakeTable
<1>7. QED BY <1>1, <1>6, OneTableChanged DEF d

-----------------------------------------------------------------------------
(* The invariant.                                                          *)

\* The file is the front of what was written of e, up to the k-th field.
WrittenUpTo(e, k) == Sound(e) /\ k \in 0..Len(Encode(e)) /\ file = SubSeq(Encode(e), 1, k)

StoreInv ==
  /\ Sound(tables) /\ Sound(saved)
  /\ file = NoFile \/ \E e, k : WrittenUpTo(e, k) /\ (k = Len(Encode(e)) => e = saved)

\* What a file that was written up to the k-th field is taken for.
LEMMA FileTaken ==
  ASSUME NEW e, NEW k, WrittenUpTo(e, k)
  PROVE  /\ file \in Seq(Fields) /\ Len(file) = k /\ k \in Nat
         /\ k = Len(Encode(e)) => Decode(file).ok /\ Decode(file).engine = WideEngine(e)
         /\ k # Len(Encode(e)) => ~Decode(file).ok
         /\ \A j \in 0..(k - 1) : ~Decode(SubSeq(file, 1, j)).ok
<1> DEFINE w == Encode(e)
<1>1. Sound(e) /\ k \in 0..Len(w) /\ file = SubSeq(w, 1, k)
  BY DEF WrittenUpTo
<1>2. Storable(e) /\ w \in Seq(Fields)
  BY <1>1, SoundStorable, FileFields
<1>3. /\ Decode(w).ok /\ Decode(w).engine = WideEngine(e)
      /\ \A j \in 0..(Len(w) - 1) : ~Decode(SubSeq(w, 1, j)).ok
  BY <1>2, WholeFile, CutFile
<1> HIDE DEF w, Fields
<1>4. Len(w) \in Nat /\ k \in Nat /\ k <= Len(w)
  BY <1>1, <1>2
<1>5. file \in Seq(Fields) /\ Len(file) = k
  BY <1>1, <1>2, <1>4
<1>6. ASSUME k = Len(w) PROVE Decode(file).ok /\ Decode(file).engine = WideEngine(e)
  <2>1. SubSeq(w, 1, Len(w)) = w
    BY <1>2, SubSeqFull
  <2>2. QED BY <1>1, <1>3, <1>6, <2>1
<1>7. ASSUME k # Len(w) PROVE ~Decode(file).ok
  <2>1. k \in 0..(Len(w) - 1)
    BY <1>4, <1>7
  <2>2. QED BY <1>1, <1>3, <2>1
<1>8. ASSUME NEW j \in 0..(k - 1) PROVE ~Decode(SubSeq(file, 1, j)).ok
  <2>1. j \in 0..(Len(w) - 1) /\ j \in Nat /\ j <= k
    BY <1>4
  <2>2. SubSeq(file, 1, j) = SubSeq(w, 1, j)
    <3> DEFINE x == SubSeq(file, 1, j)
               y == SubSeq(w, 1, j)
    <3>1. \A i \in 1..k : file[i] = w[i]
      BY <1>1, <1>2, <1>4
    <3>2. x \in Seq(Fields) /\ Len(x) = j /\ \A i \in 1..j : x[i] = file[i]
      BY <1>5, <2>1
    <3>3. y \in Seq(Fields) /\ Len(y) = j /\ \A i \in 1..j : y[i] = w[i]
      BY <1>2, <1>4, <2>1
    <3> HIDE DEF x, y
    <3>4. \A i \in 1..j : i \in 1..k
      BY <1>4, <2>1
    <3>5. \A i \in 1..j : x[i] = y[i]
      BY <3>1, <3>2, <3>3, <3>4
    <3>6. x = y
      BY <3>2, <3>3, <3>5, SeqEqual
    <3>7. QED BY <3>6 DEF x, y
  <2>3. QED BY <1>3, <2>1, <2>2
<1>9. QED BY <1>4, <1>5, <1>6, <1>7, <1>8 DEF w

\* The file and what it is the file of, when neither is written.
LEMMA FileKept ==
  ASSUME StoreInv, Sound(tables'), file' = file, saved' = saved
  PROVE  StoreInv'
BY DEF StoreInv, WrittenUpTo

LEMMA StoreInits == StoreInit => StoreInv
BY EmptySound DEF StoreInit, StoreInv

LEMMA StoreSteps == StoreInv /\ [StoreNext]_storeVars => StoreInv'
<1> SUFFICES ASSUME StoreInv, [StoreNext]_storeVars PROVE StoreInv'
  OBVIOUS
<1>0. Sound(tables) /\ Sound(saved)
  BY DEF StoreInv
<1>1. ASSUME NEW n \in TableNames, NEW s \in Schemas, CreateTable(n, s) PROVE StoreInv'
  BY <1>0, <1>1, CreateSound, FileKept DEF CreateTable
<1>2. ASSUME NEW n \in TableNames, DropTable(n) PROVE StoreInv'
  BY <1>0, <1>2, DropSound, FileKept DEF DropTable
<1>3. ASSUME NEW n \in TableNames, NEW v \in Inputs, Insert(n, v) PROVE StoreInv'
  BY <1>0, <1>3, InsertSound, FileKept DEF Insert
<1>4. ASSUME NEW n \in TableNames, NEW u \in Updates, NEW c \in Wheres, Update(n, u, c) PROVE StoreInv'
  BY <1>0, <1>4, UpdateSound, FileKept DEF Update
<1>5. ASSUME NEW n \in TableNames, NEW c \in Wheres, Delete(n, c) PROVE StoreInv'
  BY <1>0, <1>5, DeleteSound, FileKept DEF Delete
<1>6. CASE ClearEngine
  BY <1>6, EmptySound, FileKept DEF ClearEngine
<1>7. CASE Save
  <2> DEFINE w == Encode(tables)
  <2>1. file' = w /\ saved' = tables /\ tables' = tables
    BY <1>7 DEF Save
  <2>2. w \in Seq(Fields)
    BY <1>0, SoundStorable, FileFields
  <2> HIDE DEF Fields
  <2>3. Len(w) \in 0..Len(w) /\ SubSeq(w, 1, Len(w)) = w
    <3> HIDE DEF w
    <3>1. Len(w) \in Nat
      BY <2>2
    <3>2. QED BY <2>2, <3>1, SubSeqFull
  <2>4. WrittenUpTo(tables, Len(w))'
    BY <1>0, <2>1, <2>3 DEF WrittenUpTo
  <2>5. QED BY <1>0, <2>1, <2>4 DEF StoreInv
<1>8. CASE SaveTorn
  <2> DEFINE w == Encode(tables)
  <2>1. PICK k \in Cuts : k < Len(w) /\ file' = SubSeq(w, 1, k)
    BY <1>8 DEF SaveTorn
  <2>2. saved' = NoEngine /\ (tables' = tables \/ tables' = NoEngine)
    BY <1>8 DEF SaveTorn
  <2>3. k \in 0..Len(w) /\ k # Len(w)
    <3>1. w \in Seq(Fields) /\ k \in Nat
      BY <1>0, SoundStorable, FileFields, StorageAssumption
    <3> HIDE DEF w
    <3>2. Len(w) \in Nat
      BY <3>1
    <3>3. QED BY <2>1, <3>1, <3>2
  <2>4. Sound(tables') /\ Sound(saved')
    BY <1>0, <2>2, EmptySound
  <2>5. /\ k # Len(Encode(tables)) /\ Sound(tables) /\ k \in 0..Len(Encode(tables))
        /\ file' = SubSeq(Encode(tables), 1, k)
    BY <1>0, <2>1, <2>3
  <2>6. QED BY <2>4, <2>5 DEF StoreInv, WrittenUpTo
<1>9. CASE Load
  <2>1. file # NoFile /\ Decode(file).ok /\ tables' = Decode(file).engine /\ file' = file /\ saved' = saved
    BY <1>9 DEF Load
  <2>2. PICK e, k : WrittenUpTo(e, k) /\ (k = Len(Encode(e)) => e = saved)
    BY <2>1 DEF StoreInv
  <2>3. k = Len(Encode(e)) /\ tables' = WideEngine(e) /\ Sound(e)
    BY <2>1, <2>2, FileTaken DEF WrittenUpTo
  <2>4. Sound(tables')
    BY <2>3, WideEngineOK
  <2>5. QED BY <2>1, <2>4, FileKept
<1>10. CASE UNCHANGED storeVars
  BY <1>0, <1>10, FileKept DEF storeVars
<1>11. QED BY <1>1, <1>2, <1>3, <1>4, <1>5, <1>6, <1>7, <1>8, <1>9, <1>10 DEF StoreNext

\* StoreInv holds of every behaviour of the engine and its file.
THEOREM StorageInvariant == StoreSpec => []StoreInv
BY StoreInits, StoreSteps, PTL DEF StoreSpec

\* The engine, the saved engine and the file keep their shape.
THEOREM StorageTypeOK == StoreSpec => []StoreTypeOK
<1>1. StoreInv => StoreTypeOK
  <2> SUFFICES ASSUME StoreInv PROVE StoreTypeOK
    OBVIOUS
  <2>1. EngineOK(tables) /\ EngineOK(saved)
    BY DEF StoreInv, Sound, EngineOK, TableOK
  <2>2. DOMAIN file = 1..Len(file)
    <3>1. CASE file = NoFile
      <4>1. \A x : DOMAIN <<x>> = 1..1 /\ Len(<<x>>) = 1
        OBVIOUS
      <4>2. QED BY <3>1, <4>1 DEF NoFile
    <3>2. CASE file # NoFile
      <4>1. PICK e, k : WrittenUpTo(e, k)
        BY <3>2 DEF StoreInv
      <4>2. file \in Seq(Fields)
        BY <4>1, FileTaken
      <4> HIDE DEF Fields
      <4>3. QED BY <4>2
    <3>3. QED BY <3>1, <3>2
  <2>3. QED BY <2>1, <2>2 DEF StoreTypeOK
<1>2. QED BY <1>1, StorageInvariant, PTL

\* Every stored value is one its column accepts, after any inserts, updates,
\* saves and loads (storage.rs:131-146, 210-221).
THEOREM StorageRowsFit == StoreSpec => []RowsFitSchema
<1>1. StoreInv => RowsFitSchema
  BY DEF StoreInv, Sound, TableOK, RowsFitSchema
<1>2. QED BY <1>1, StorageInvariant, PTL

\* A load finds the engine of the last save or an error, wherever a write was
\* cut (storage.rs:722-808).
THEOREM StorageLoadIsLastSave == StoreSpec => []LoadIsLastSave
<1>1. StoreInv => LoadIsLastSave
  <2> SUFFICES ASSUME StoreInv, file # NoFile PROVE LoadIsLastSave
    BY DEF LoadIsLastSave
  <2>1. PICK e, k : WrittenUpTo(e, k) /\ (k = Len(Encode(e)) => e = saved)
    BY DEF StoreInv
  <2>2. /\ Len(file) = k
        /\ k = Len(Encode(e)) => Decode(file).ok /\ Decode(file).engine = WideEngine(e)
        /\ k # Len(Encode(e)) => ~Decode(file).ok
        /\ \A j \in 0..(k - 1) : ~Decode(SubSeq(file, 1, j)).ok
    BY <2>1, FileTaken
  <2>3. ASSUME Decode(file).ok PROVE SameEngine(saved, Decode(file).engine)
    <3>1. k = Len(Encode(e)) /\ Sound(saved)
      BY <2>2, <2>3 DEF StoreInv
    <3>2. Decode(file).engine = WideEngine(saved)
      BY <2>1, <2>2, <3>1
    <3>3. QED BY <3>1, <3>2, WideEngineOK
  <2>4. QED BY <2>2, <2>3 DEF LoadIsLastSave
<1>2. QED BY <1>1, StorageInvariant, PTL

-----------------------------------------------------------------------------
(* The page of a select.                                                   *)

LEMMA Modulo ==
  ASSUME NEW m \in Nat, NEW n \in Int
  PROVE  /\ 0 <= n /\ n <= m => n % (m + 1) = n
         /\ m < n /\ n <= 2 * m + 1 => n % (m + 1) = n - (m + 1)
         /\ n < 0 /\ 0 <= n + m + 1 => n % (m + 1) = n + (m + 1)
  OBVIOUS

LEMMA Wrapped ==
  ASSUME NEW n \in Int
  PROVE  /\ 0 <= n /\ n <= UsizeMax => Wrap(n) = n
         /\ UsizeMax < n /\ n <= 2 * UsizeMax + 1 => Wrap(n) = n - (UsizeMax + 1)
         /\ n < 0 /\ 0 <= n + UsizeMax + 1 => Wrap(n) = n + (UsizeMax + 1)
<1>1. ASSUME NEW m \in Nat
      PROVE  /\ 0 <= n /\ n <= m => n % (m + 1) = n
             /\ m < n /\ n <= 2 * m + 1 => n % (m + 1) = n - (m + 1)
             /\ n < 0 /\ 0 <= n + m + 1 => n % (m + 1) = n + (m + 1)
  BY Modulo
<1>2. PICK m \in Nat : m = UsizeMax
  BY StorageAssumption
<1>3. Wrap(n) = n % (m + 1)
  BY <1>2 DEF Wrap
<1>4. QED BY <1>1, <1>2, <1>3

LEMMA Smaller ==
  ASSUME NEW a \in Int, NEW b \in Int
  PROVE  Min({a, b}) = IF a <= b THEN a ELSE b
<1> DEFINE w == IF a <= b THEN a ELSE b
<1>1. w \in {a, b} /\ \A y \in {a, b} : w <= y
  OBVIOUS
<1>2. \A x \in {a, b} : (\A y \in {a, b} : x <= y) => x = w
  OBVIOUS
<1>3. QED BY <1>1, <1>2 DEF Min

\* Two slices from the same place that end at the same place, or before they begin.
LEMMA SameSlice ==
  ASSUME NEW s, NEW a \in Int, NEW b \in Int, NEW c \in Int, b = c \/ (b < a /\ c < a)
  PROVE  SubSeq(s, a, b) = SubSeq(s, a, c)
<1>1. CASE b = c
  BY <1>1
<1>2. CASE b < a /\ c < a
  <2>1. SubSeq(s, a, b) = [i \in 1..(1 + b - a) |-> s[a + i - 1]] /\ SubSeq(s, a, c) = [i \in 1..(1 + c - a) |-> s[a + i - 1]]
    OBVIOUS
  <2>2. 1..(1 + b - a) = {} /\ 1..(1 + c - a) = {}
    BY <1>2
  <2>3. QED BY <2>1, <2>2
<1>3. QED BY <1>1, <1>2

LEMMA PageOf ==
  ASSUME NEW s, Len(s) \in Usize, NEW offset \in Usize, NEW limit \in {<<>>} \cup {<<l>> : l \in Usize}
  PROVE  Page(s, offset, limit) =
           SubSeq(s, offset + 1, IF limit = <<>> THEN Len(s) ELSE Min({offset + limit[1], Len(s)}))
<1> DEFINE n == Len(s)
           m == UsizeMax
           end == IF limit = <<>> THEN n ELSE Min({Wrap(offset + limit[1]), n})
           count == Wrap(end - offset)
           to == IF limit = <<>> THEN n ELSE Min({offset + limit[1], n})
           upto == Min({offset + count, n})
<1>1. m \in Nat /\ n \in 0..m /\ offset \in 0..m
  BY StorageAssumption DEF Usize
<1>2. Page(s, offset, limit) = SubSeq(s, offset + 1, upto)
  BY DEF Page, SkipTake
<1>3. CASE limit = <<>>
  <2>1. end = n /\ to = n
    BY <1>3
  <2>2. count = IF offset <= n THEN n - offset ELSE n - offset + (m + 1)
    <3>1. count = Wrap(n - offset) /\ n - offset \in Int
      BY <1>1, <2>1
    <3> HIDE DEF n, count
    <3>2. QED BY <1>1, <3>1, Wrapped
  <2> HIDE DEF n, m, end, count, to
  <2>3. upto = n
    BY <1>1, <2>2, Smaller
  <2>4. Page(s, offset, limit) = SubSeq(s, offset + 1, to)
    BY <1>2, <2>1, <2>3
  <2>5. QED BY <2>4 DEF to, n
<1>4. CASE limit # <<>>
  <2>1. PICK l \in 0..m : limit = <<l>>
    BY <1>4 DEF Usize
  <2>2. limit[1] = l
    BY <2>1
  <2> DEFINE e == Wrap(offset + l)
  <2>3. end = Min({e, n}) /\ to = Min({offset + l, n})
    BY <1>4, <2>2
  <2>4. e = IF offset + l <= m THEN offset + l ELSE offset + l - (m + 1)
    <3>1. offset + l \in Int
      BY <1>1
    <3> HIDE DEF n
    <3>2. QED BY <1>1, <3>1, Wrapped
  <2>5. end = IF e <= n THEN e ELSE n
    <3>1. e \in Int /\ n \in Int
      BY <1>1, <2>4
    <3> HIDE DEF n, e, end
    <3>2. QED BY <2>3, <3>1, Smaller
  <2>6. count = IF offset <= end THEN end - offset ELSE end - offset + (m + 1)
    <3>1. end \in 0..m
      BY <1>1, <2>4, <2>5
    <3> HIDE DEF end
    <3>2. end - offset \in Int
      BY <1>1, <3>1
    <3>3. QED BY <1>1, <3>1, <3>2, Wrapped
  <2> HIDE DEF n, m, end, count, to, e
  <2>7. to = IF offset + l <= n THEN offset + l ELSE n
    BY <1>1, <2>3, Smaller
  <2>8. count \in Int
    BY <1>1, <2>4, <2>5, <2>6
  <2>9. upto = IF offset + count <= n THEN offset + count ELSE n
    BY <1>1, <2>8, Smaller
  <2>10. upto \in Int /\ to \in Int /\ (upto = to \/ (upto < offset + 1 /\ to < offset + 1))
    BY <1>1, <2>4, <2>5, <2>6, <2>7, <2>9
  <2>11. SubSeq(s, offset + 1, upto) = SubSeq(s, offset + 1, to)
    <3>1. offset + 1 \in Int
      BY <1>1
    <3> HIDE DEF upto
    <3>2. QED BY <2>10, <3>1, SameSlice
  <2>12. Page(s, offset, limit) = SubSeq(s, offset + 1, to)
    BY <1>2, <2>11
  <2>13. QED BY <2>12 DEF to, n
<1>5. QED BY <1>3, <1>4


-----------------------------------------------------------------------------
(* The loop of like_matcher.                                               *)

Percent(c) == c = "%"
Same(c, d) == c \in {"_", d}

LikeStart == [t |-> 1, p |-> 1, star |-> 0, again |-> 1, no |-> FALSE]
LikeStates == [t : Nat, p : Nat, star : Nat, again : Nat, no : BOOLEAN]

\* f is what the loop holds after each of its turns.
Turning(text, pattern, n, f) == f[0] = LikeStart /\ \A i \in 1..n : f[i] = LikeTurn(text, pattern, f[i - 1])

LikeOver(text, m) == m.no \/ m.t > Len(text)

\* What a turn makes of m.
Turns(text, pattern, m, k) ==
  LET same == m.p <= Len(pattern) /\ Same(pattern[m.p], text[m.t])
      any  == m.p <= Len(pattern) /\ Percent(pattern[m.p])
  IN  \/ LikeOver(text, m) /\ k = m
      \/ /\ ~LikeOver(text, m)
         /\ \/ same /\ k.t = m.t + 1 /\ k.p = m.p + 1 /\ k.star = m.star /\ k.again = m.again /\ ~k.no
            \/ ~same /\ any /\ k.t = m.t /\ k.p = m.p + 1 /\ k.star = m.p /\ k.again = m.again /\ ~k.no
            \/ /\ ~same /\ ~any /\ m.star > 0
               /\ k.t = m.again + 1 /\ k.p = m.star + 1 /\ k.star = m.star /\ k.again = m.again + 1 /\ ~k.no
            \/ ~same /\ ~any /\ m.star = 0 /\ k.t = m.t /\ k.p = m.p /\ k.star = m.star /\ k.again = m.again /\ k.no

\* The fields of a record of the loop.
LEMMA LikeFields ==
  ASSUME NEW m \in LikeStates
  PROVE  /\ m.t \in Nat /\ m.p \in Nat /\ m.star \in Nat /\ m.again \in Nat /\ m.no \in BOOLEAN
         /\ m = [t |-> m.t, p |-> m.p, star |-> m.star, again |-> m.again, no |-> m.no]
BY DEF LikeStates

LEMMA LikeRecord ==
  ASSUME NEW t \in Nat, NEW p \in Nat, NEW star \in Nat, NEW again \in Nat, NEW no \in BOOLEAN,
         NEW k, k = [t |-> t, p |-> p, star |-> star, again |-> again, no |-> no]
  PROVE  k \in LikeStates /\ k.t = t /\ k.p = p /\ k.star = star /\ k.again = again /\ k.no = no
BY DEF LikeStates

LEMMA Turned ==
  ASSUME NEW text, NEW pattern, NEW m \in LikeStates
  PROVE  LikeTurn(text, pattern, m) \in LikeStates /\ Turns(text, pattern, m, LikeTurn(text, pattern, m))
<1> DEFINE k == LikeTurn(text, pattern, m)
           same == m.p <= Len(pattern) /\ Same(pattern[m.p], text[m.t])
           any  == m.p <= Len(pattern) /\ Percent(pattern[m.p])
<1>1. m.t \in Nat /\ m.p \in Nat /\ m.star \in Nat /\ m.again \in Nat /\ m.no \in BOOLEAN
  BY LikeFields
<1>2. CASE LikeOver(text, m)
  BY <1>2 DEF LikeOver, LikeTurn, Turns
<1>3. CASE ~LikeOver(text, m) /\ same
  <2>1. k = [m EXCEPT !.t = @ + 1, !.p = @ + 1]
    BY <1>3 DEF LikeOver, LikeTurn, Same, Percent
  <2>2. k \in LikeStates /\ k.t = m.t + 1 /\ k.p = m.p + 1 /\ k.star = m.star /\ k.again = m.again /\ k.no = m.no
    <3>1. k = [t |-> m.t + 1, p |-> m.p + 1, star |-> m.star, again |-> m.again, no |-> m.no]
      BY <2>1, LikeFields
    <3>2. m.t + 1 \in Nat /\ m.p + 1 \in Nat
      BY <1>1
    <3> HIDE DEF k
    <3>3. QED BY <1>1, <3>1, <3>2, LikeRecord
  <2>3. QED BY <1>3, <2>2 DEF LikeOver, Turns
<1>4. CASE ~LikeOver(text, m) /\ ~same /\ any
  <2>1. k = [m EXCEPT !.star = m.p, !.p = @ + 1]
    BY <1>4 DEF LikeOver, LikeTurn, Same, Percent
  <2>2. k \in LikeStates /\ k.t = m.t /\ k.p = m.p + 1 /\ k.star = m.p /\ k.again = m.again /\ k.no = m.no
    <3>1. k = [t |-> m.t, p |-> m.p + 1, star |-> m.p, again |-> m.again, no |-> m.no]
      BY <2>1, LikeFields
    <3>2. m.p + 1 \in Nat
      BY <1>1
    <3> HIDE DEF k
    <3>3. QED BY <1>1, <3>1, <3>2, LikeRecord
  <2>3. QED BY <1>4, <2>2 DEF LikeOver, Turns
<1>5. CASE ~LikeOver(text, m) /\ ~same /\ ~any /\ m.star > 0
  <2>1. k = [m EXCEPT !.p = m.star + 1, !.again = @ + 1, !.t = m.again + 1]
    BY <1>5 DEF LikeOver, LikeTurn, Same, Percent
  <2>2. k \in LikeStates /\ k.t = m.again + 1 /\ k.p = m.star + 1 /\ k.star = m.star /\ k.again = m.again + 1 /\ k.no = m.no
    <3>1. k = [t |-> m.again + 1, p |-> m.star + 1, star |-> m.star, again |-> m.again + 1, no |-> m.no]
      BY <2>1, LikeFields
    <3>2. m.again + 1 \in Nat /\ m.star + 1 \in Nat
      BY <1>1
    <3> HIDE DEF k
    <3>3. QED BY <1>1, <3>1, <3>2, LikeRecord
  <2>3. QED BY <1>5, <2>2 DEF LikeOver, Turns
<1>6. CASE ~LikeOver(text, m) /\ ~same /\ ~any /\ ~(m.star > 0)
  <2>1. k = [m EXCEPT !.no = TRUE]
    BY <1>6 DEF LikeOver, LikeTurn, Same, Percent
  <2>2. k \in LikeStates /\ k.t = m.t /\ k.p = m.p /\ k.star = m.star /\ k.again = m.again /\ k.no
    <3>1. PICK u \in BOOLEAN : u
      OBVIOUS
    <3>2. u = TRUE
      BY <3>1
    <3>3. k = [t |-> m.t, p |-> m.p, star |-> m.star, again |-> m.again, no |-> u]
      BY <2>1, <3>2, LikeFields
    <3> HIDE DEF k
    <3>4. k \in LikeStates /\ k.t = m.t /\ k.p = m.p /\ k.star = m.star /\ k.again = m.again /\ k.no = u
      BY <1>1, <3>3, LikeRecord
    <3>5. QED BY <3>1, <3>4
  <2>3. m.star = 0
    <3>1. \A n \in Nat : ~(n > 0) => n = 0
      OBVIOUS
    <3>2. QED BY <1>1, <1>6, <3>1
  <2>4. QED BY <1>6, <2>2, <2>3 DEF LikeOver, Turns
<1>7. QED BY <1>2, <1>3, <1>4, <1>5, <1>6

LEMMA TurningRuns ==
  ASSUME NEW text, NEW pattern, NEW n \in Nat
  PROVE  \E f \in [0..n -> LikeStates] : Turning(text, pattern, n, f)
<1> DEFINE V == LikeStates
           step == [q \in (1..n) \X V |-> LikeTurn(text, pattern, q[2])]
<1>1. LikeStart \in V
  BY DEF LikeStart, LikeStates
<1>2. step \in [(1..n) \X V -> V] /\ \A i \in 1..n, v \in V : step[<<i, v>>] = LikeTurn(text, pattern, v)
  <2>1. \A v \in V : LikeTurn(text, pattern, v) \in V
    BY Turned
  <2> HIDE DEF V
  <2>2. QED BY <2>1
<1> HIDE DEF V, step
<1>3. PICK f : f \in LoopFrom(n, V, LikeStart, step)
  BY <1>1, <1>2, LoopRuns
<1>4. f \in [0..n -> V] /\ f[0] = LikeStart /\ \A i \in 1..n : f[i] = step[<<i, f[i - 1]>>]
  BY <1>3 DEF LoopFrom
<1>5. ASSUME NEW i \in 1..n PROVE f[i] = LikeTurn(text, pattern, f[i - 1])
  <2>1. i - 1 \in 0..n
    OBVIOUS
  <2>2. f[i - 1] \in V
    BY <1>4, <2>1
  <2>3. QED BY <1>2, <1>4, <2>2
<1>6. QED BY <1>4, <1>5 DEF Turning, V

\* The matcher says what the last turn says.
MatcherRun(text, pattern, n, f) ==
  /\ n = (Len(text) + 1) * (Len(pattern) + 2)
  /\ f \in [0..n -> LikeStates] /\ Turning(text, pattern, n, f)
  /\ LikeMatcher(text, pattern) = (~f[n].no /\ TrailingStars(pattern, f[n].p))

LEMMA MatcherIs ==
  ASSUME NEW S, NEW text \in Seq(S), NEW pattern \in Seq(S)
  PROVE  \E n \in Nat : \E f : MatcherRun(text, pattern, n, f)
<1>1. PICK n \in Nat : n = (Len(text) + 1) * (Len(pattern) + 2)
  OBVIOUS
<1> DEFINE Loop(g) == [i \in 0..n |-> IF i = 0 THEN LikeStart ELSE LikeTurn(text, pattern, g[i - 1])]
           f == CHOOSE g : g = Loop(g)
<1>2. f = Loop(f) /\ \E g \in [0..n -> LikeStates] : Turning(text, pattern, n, g) /\ g = Loop(g)
  <2>1. PICK g \in [0..n -> LikeStates] : Turning(text, pattern, n, g)
    BY TurningRuns
  <2>2. ASSUME NEW i \in 0..n PROVE g[i] = IF i = 0 THEN LikeStart ELSE LikeTurn(text, pattern, g[i - 1])
    <3>1. i = 0 \/ i \in 1..n
      OBVIOUS
    <3>2. QED BY <2>1, <3>1 DEF Turning
  <2>3. g = Loop(g)
    BY <2>1, <2>2
  <2> HIDE DEF Loop
  <2>4. QED BY <2>1, <2>3
<1>3. LikeMatcher(text, pattern) = (~f[n].no /\ TrailingStars(pattern, f[n].p))
  BY <1>1 DEF LikeMatcher, LikeStart
<1>4. Turning(text, pattern, n, f) /\ f \in [0..n -> LikeStates]
  <2> HIDE DEF f
  <2>1. \A i \in 0..n : f[i] = IF i = 0 THEN LikeStart ELSE LikeTurn(text, pattern, f[i - 1])
    BY <1>2
  <2>2. 0 \in 0..n /\ \A i \in 1..n : i \in 0..n /\ i # 0
    OBVIOUS
  <2>3. Turning(text, pattern, n, f)
    BY <2>1, <2>2 DEF Turning
  <2>4. \A i \in 0..n : f[i] \in LikeStates
    <3> DEFINE T == {i \in 0..n : f[i] \in LikeStates}
    <3>1. 0 \in T
      <4>1. f[0] = LikeStart /\ LikeStart \in LikeStates /\ 0 \in 0..n
        BY <2>3 DEF Turning, LikeStart, LikeStates
      <4>2. QED BY <4>1
    <3>2. ASSUME NEW i \in 1..n, i - 1 \in T PROVE i \in T
      <4>1. f[i] = LikeTurn(text, pattern, f[i - 1]) /\ f[i - 1] \in LikeStates
        BY <2>3, <3>2 DEF Turning
      <4>2. QED BY <4>1, Turned
    <3>3. \A i \in 0..n : i \in T
      <4> HIDE DEF T
      <4>1. QED BY <3>1, <3>2, Induction
    <3>4. QED BY <3>3
  <2>5. f = [i \in 0..n |-> f[i]]
    BY <1>2
  <2>6. QED BY <2>3, <2>4, <2>5
<1>5. QED BY <1>1, <1>3, <1>4 DEF MatcherRun


-----------------------------------------------------------------------------
(* What the loop of like_matcher has found out: the pattern from the last     *)
(* '%' to before p is laid over the text that ends before t.                 *)

Begun(t, p, s) == t - (p - 1 - s)

Holding(text, pattern, t, p, s, a) ==
  /\ 1 <= a /\ a <= Begun(t, p, s)
  /\ s < p /\ p <= Len(pattern) + 1 /\ t <= Len(text) + 1
  /\ s = 0 => Begun(t, p, s) = 1
  /\ s > 0 => Percent(pattern[s])
  /\ \A i \in (s + 1)..(p - 1) : ~Percent(pattern[i]) /\ Same(pattern[i], text[Begun(t, p, s) + i - s - 1])

\* No matter how the pattern is laid over the text, its part up to the last '%'
\* ends no earlier than where the matcher goes on from.
Before(f, t, p, s) == f[s] >= Begun(t, p, s) - 1

Plain(text) == \A i \in 1..Len(text) : ~Percent(text[i])

LEMMA HoldSame ==
  ASSUME NEW S, NEW text \in Seq(S), NEW pattern \in Seq(S), Plain(text),
         NEW t \in Nat, NEW p \in Nat, NEW s \in Nat, NEW a \in Nat, Holding(text, pattern, t, p, s, a),
         t <= Len(text), p <= Len(pattern), Same(pattern[p], text[t])
  PROVE  Holding(text, pattern, t + 1, p + 1, s, a) /\ Begun(t + 1, p + 1, s) = Begun(t, p, s)
<1>1. Begun(t + 1, p + 1, s) = Begun(t, p, s) /\ Begun(t, p, s) \in Int /\ Begun(t, p, s) + p - s - 1 = t
  BY DEF Begun
<1>2. ~Percent(pattern[p])
  <2>1. t \in 1..Len(text)
    BY DEF Holding, Begun
  <2>2. ~Percent(text[t])
    BY <2>1 DEF Plain
  <2>3. Same(pattern[p], text[t]) => pattern[p] = text[t] \/ pattern[p] = "_"
    BY DEF Same
  <2>4. QED BY <2>2, <2>3 DEF Percent
<1> DEFINE b == Begun(t, p, s)
<1>3. \A i \in (s + 1)..p : ~Percent(pattern[i]) /\ Same(pattern[i], text[b + i - s - 1])
  <2>1. ASSUME NEW i \in (s + 1)..p PROVE ~Percent(pattern[i]) /\ Same(pattern[i], text[b + i - s - 1])
    <3>1. i \in (s + 1)..(p - 1) \/ i = p
      OBVIOUS
    <3>2. CASE i \in (s + 1)..(p - 1)
      BY <3>2 DEF Holding
    <3>3. CASE i = p
      BY <1>1, <1>2, <3>3
    <3>4. QED BY <3>1, <3>2, <3>3
  <2>2. QED BY <2>1
<1>4. p = (p + 1) - 1
  OBVIOUS
<1>5. QED BY <1>1, <1>3, <1>4 DEF Holding

LEMMA HoldAny ==
  ASSUME NEW S, NEW text \in Seq(S), NEW pattern \in Seq(S),
         NEW t \in Nat, NEW p \in Nat, NEW s \in Nat, NEW a \in Nat, Holding(text, pattern, t, p, s, a),
         t <= Len(text), p <= Len(pattern), Percent(pattern[p])
  PROVE  Holding(text, pattern, t, p + 1, p, a) /\ Begun(t, p + 1, p) = t
<1>1. Begun(t, p + 1, p) = t /\ Begun(t, p, s) <= t /\ p > 0
  BY DEF Begun, Holding
<1>2. a <= t /\ 1 <= a
  BY <1>1 DEF Holding, Begun
<1>3. \A i \in (p + 1)..((p + 1) - 1) : FALSE
  OBVIOUS
<1>4. QED BY <1>1, <1>2, <1>3 DEF Holding

LEMMA HoldAgain ==
  ASSUME NEW S, NEW text \in Seq(S), NEW pattern \in Seq(S),
         NEW t \in Nat, NEW p \in Nat, NEW s \in Nat, NEW a \in Nat, Holding(text, pattern, t, p, s, a),
         t <= Len(text), s > 0
  PROVE  Holding(text, pattern, a + 1, s + 1, s, a + 1) /\ Begun(a + 1, s + 1, s) = a + 1
<1>1. Begun(a + 1, s + 1, s) = a + 1 /\ Begun(t, p, s) <= t /\ Begun(t, p, s) \in Int
  BY DEF Begun, Holding
<1>2. a + 1 <= Len(text) + 1 /\ 1 <= a + 1 /\ s + 1 <= Len(pattern) + 1 /\ s < s + 1
  BY <1>1 DEF Holding
<1>3. \A i \in (s + 1)..((s + 1) - 1) : FALSE
  OBVIOUS
<1>4. Percent(pattern[s]) /\ s # 0
  BY DEF Holding
<1>5. QED BY <1>1, <1>2, <1>3, <1>4 DEF Holding

-----------------------------------------------------------------------------
(* What holds of the way a pattern lies over a text.                        *)

\* Where no '%' is, it goes character by character.
NoStar(pattern, s, q) == \A i \in (s + 1)..q : ~Percent(pattern[i])
Apart(f, s, q) == f[q] = f[s] + (q - s)

LEMMA Steady ==
  ASSUME NEW S, NEW text \in Seq(S), NEW pattern \in Seq(S),
         NEW f \in [0..Len(pattern) -> 0..Len(text)], Lies(f, text, pattern),
         NEW s \in Nat, NEW q \in 0..Len(pattern), s <= q,
         NoStar(pattern, s, q)
  PROVE  Apart(f, s, q)
<1> DEFINE N == q - s
           T == {n \in 0..N : f[s + n] = f[s] + n}
<1>1. N \in Nat /\ Len(pattern) \in Nat
  OBVIOUS
<1>2. 0 \in T
  <2>1. s + 0 = s /\ s \in 0..Len(pattern)
    OBVIOUS
  <2>2. f[s] \in Int
    BY <2>1
  <2>3. 0 \in 0..N /\ f[s] + 0 = f[s]
    BY <1>1, <2>2
  <2>4. QED BY <2>1, <2>3
<1>3. ASSUME NEW n \in 1..N, n - 1 \in T PROVE n \in T
  <2>1. s + n \in (s + 1)..q /\ s + n \in 1..Len(pattern) /\ n \in 0..N /\ (s + n) - 1 = s + (n - 1) /\ s \in 0..Len(pattern)
    OBVIOUS
  <2>2. f[s + n] = f[s + (n - 1)] + 1
    BY <2>1 DEF Lies, NoStar, Percent
  <2>3. f[s + (n - 1)] = f[s] + (n - 1) /\ f[s] \in Int
    BY <1>3, <2>1
  <2>4. QED BY <2>1, <2>2, <2>3
<1> HIDE DEF T
<1>4. \A n \in 0..N : n \in T
  BY <1>1, <1>2, <1>3, Induction
<1>5. N \in 0..N /\ s + N = q
  BY <1>1
<1>6. N \in T
  BY <1>4, <1>5
<1>7. f[s + N] = f[s] + N
  BY <1>6 DEF T
<1>8. QED BY <1>5, <1>7 DEF Apart

\* It never goes back.
LEMMA Rising ==
  ASSUME NEW S, NEW text \in Seq(S), NEW pattern \in Seq(S),
         NEW f \in [0..Len(pattern) -> 0..Len(text)], Lies(f, text, pattern),
         NEW a \in 0..Len(pattern), NEW b \in a..Len(pattern)
  PROVE  f[a] <= f[b]
<1> DEFINE N == Len(pattern) - a
           T == {n \in 0..N : f[a] <= f[a + n]}
<1>1. N \in Nat
  OBVIOUS
<1>2. 0 \in T
  <2>1. a + 0 = a /\ 0 \in 0..N
    OBVIOUS
  <2>2. f[a] \in Int
    OBVIOUS
  <2>3. QED BY <2>1, <2>2
<1>3. ASSUME NEW n \in 1..N, n - 1 \in T PROVE n \in T
  <2>1. a + n \in 1..Len(pattern) /\ n \in 0..N /\ (a + n) - 1 = a + (n - 1) /\ a + (n - 1) \in 0..Len(pattern) /\ a + n \in 0..Len(pattern)
    OBVIOUS
  <2>2. f[a + n] \in Int /\ f[a + (n - 1)] \in Int /\ f[a] \in Int
    BY <2>1
  <2>3. f[a + (n - 1)] <= f[a + n]
    <3>1. f[a + (n - 1)] <= f[a + n] \/ f[a + n] = f[a + (n - 1)] + 1
      BY <2>1 DEF Lies
    <3>2. QED BY <2>2, <3>1
  <2>4. f[a] <= f[a + (n - 1)]
    BY <1>3
  <2>5. QED BY <2>1, <2>2, <2>3, <2>4
<1> HIDE DEF T
<1>4. \A n \in 0..N : n \in T
  BY <1>1, <1>2, <1>3, Induction
<1>5. b - a \in 0..N /\ a + (b - a) = b
  OBVIOUS
<1>6. b - a \in T
  BY <1>4, <1>5
<1>7. f[a] <= f[a + (b - a)]
  BY <1>6 DEF T
<1>8. QED BY <1>5, <1>7


\* So the part of the pattern before p ends no earlier than before t.
LEMMA Reached ==
  ASSUME NEW S, NEW text \in Seq(S), NEW pattern \in Seq(S),
         NEW f \in [0..Len(pattern) -> 0..Len(text)], Lies(f, text, pattern),
         NEW t \in Nat, NEW p \in Nat, NEW s \in Nat, NEW a \in Nat, Holding(text, pattern, t, p, s, a), Before(f, t, p, s)
  PROVE  /\ s \in 0..Len(pattern) /\ p \in 1..(Len(pattern) + 1) /\ f[s] \in Nat /\ f[p - 1] \in Nat /\ p - 1 \in 0..Len(pattern)
         /\ f[p - 1] = f[s] + (p - 1 - s) /\ f[p - 1] >= t - 1
<1>1. s \in 0..Len(pattern) /\ p \in 1..(Len(pattern) + 1) /\ s < p /\ p - 1 \in 0..Len(pattern)
  BY DEF Holding
<1>2. f[s] \in Nat /\ f[p - 1] \in Nat
  <2>1. PICK q \in 0..Len(pattern) : q = p - 1
    BY <1>1
  <2>2. f[s] \in 0..Len(text) /\ f[q] \in 0..Len(text)
    BY <1>1
  <2>3. \A x \in 0..Len(text) : x \in Nat
    OBVIOUS
  <2>4. QED BY <2>1, <2>2, <2>3
<1>3. NoStar(pattern, s, p - 1)
  BY DEF Holding, NoStar
<1>4. f[p - 1] = f[s] + (p - 1 - s)
  <2>1. PICK q \in 0..Len(pattern) : q = p - 1
    BY <1>1
  <2>2. s <= q /\ NoStar(pattern, s, q)
    BY <1>1, <1>3, <2>1
  <2>3. Apart(f, s, q)
    BY <1>1, <2>2, Steady
  <2>4. QED BY <2>1, <2>3 DEF Apart
<1>5. f[s] >= t - (p - 1 - s) - 1
  BY DEF Before, Begun
<1>6. f[p - 1] >= t - 1
  BY <1>1, <1>2, <1>4, <1>5
<1>7. QED BY <1>1, <1>2, <1>4, <1>6

LEMMA BeforeAny ==
  ASSUME NEW S, NEW text \in Seq(S), NEW pattern \in Seq(S),
         NEW f \in [0..Len(pattern) -> 0..Len(text)], Lies(f, text, pattern),
         NEW t \in Nat, NEW p \in Nat, NEW s \in Nat, NEW a \in Nat, Holding(text, pattern, t, p, s, a), Before(f, t, p, s),
         p <= Len(pattern), Percent(pattern[p])
  PROVE  Before(f, t, p + 1, p)
<1>1. p \in 1..Len(pattern) /\ f[p - 1] >= t - 1 /\ f[p - 1] \in Nat
  BY Reached
<1>2. f[p - 1] <= f[p] /\ f[p] \in Nat
  <2>1. p \in 0..Len(pattern)
    BY <1>1
  <2>2. f[p] \in 0..Len(text)
    BY <2>1
  <2>3. f[p - 1] <= f[p]
    BY <1>1 DEF Lies, Percent
  <2>4. QED BY <2>2, <2>3
<1>3. t - ((p + 1) - 1 - p) = t
  OBVIOUS
<1>4. QED BY <1>1, <1>2, <1>3 DEF Before, Begun

\* Where the characters differ the pattern does not lie: its part up to the
\* last '%' ends later.
LEMMA BeforeLater ==
  ASSUME NEW S, NEW text \in Seq(S), NEW pattern \in Seq(S),
         NEW f \in [0..Len(pattern) -> 0..Len(text)], Lies(f, text, pattern),
         NEW t \in Nat, NEW p \in Nat, NEW s \in Nat, NEW a \in Nat, Holding(text, pattern, t, p, s, a), Before(f, t, p, s),
         t <= Len(text),
         p <= Len(pattern) => ~Percent(pattern[p]) /\ ~Same(pattern[p], text[t])
  PROVE  f[s] >= Begun(t, p, s)
<1>1. /\ s \in 0..Len(pattern) /\ p \in 1..(Len(pattern) + 1) /\ f[s] \in Nat /\ f[p - 1] \in Nat /\ p - 1 \in 0..Len(pattern)
      /\ f[p - 1] = f[s] + (p - 1 - s) /\ f[p - 1] >= t - 1
  BY Reached
<1>2. f[p - 1] # t - 1
  <2>1. SUFFICES ASSUME f[p - 1] = t - 1 PROVE FALSE
    OBVIOUS
  <2>2. CASE p <= Len(pattern)
    <3>1. p \in 1..Len(pattern) /\ f[p] \in Nat
      <4>1. p \in 1..Len(pattern) /\ p \in 0..Len(pattern)
        BY <1>1, <2>2
      <4>2. f[p] \in 0..Len(text)
        BY <4>1
      <4>3. QED BY <4>1, <4>2
    <3>2. ~(pattern[p] = "%")
      BY <2>2 DEF Percent
    <3>3. f[p] = f[p - 1] + 1 /\ Same(pattern[p], text[f[p]])
      BY <3>1, <3>2 DEF Lies, Same
    <3>4. f[p] = t
      BY <2>1, <3>1, <3>3
    <3>5. QED BY <2>2, <3>3, <3>4
  <2>3. CASE ~(p <= Len(pattern))
    <3>1. p - 1 = Len(pattern)
      BY <1>1, <2>3
    <3>2. f[p - 1] = Len(text)
      BY <3>1 DEF Lies
    <3>3. QED BY <2>1, <3>2
  <2>4. QED BY <2>2, <2>3
<1>3. f[p - 1] >= t
  BY <1>1, <1>2
<1>4. QED BY <1>1, <1>3 DEF Begun

LEMMA BeforeAgain ==
  ASSUME NEW S, NEW text \in Seq(S), NEW pattern \in Seq(S),
         NEW f \in [0..Len(pattern) -> 0..Len(text)], Lies(f, text, pattern),
         NEW t \in Nat, NEW p \in Nat, NEW s \in Nat, NEW a \in Nat, Holding(text, pattern, t, p, s, a), Before(f, t, p, s),
         t <= Len(text),
         p <= Len(pattern) => ~Percent(pattern[p]) /\ ~Same(pattern[p], text[t])
  PROVE  s # 0 /\ Before(f, a + 1, s + 1, s)
<1>1. f[s] >= Begun(t, p, s)
  BY BeforeLater
<1>2. s # 0
  <2>1. SUFFICES ASSUME s = 0 PROVE FALSE
    OBVIOUS
  <2>2. f[s] = 0 /\ Begun(t, p, s) = 1
    BY <2>1 DEF Holding, Lies
  <2>3. QED BY <1>1, <2>2
<1>3. a <= Begun(t, p, s) /\ Begun(t, p, s) \in Int
  BY DEF Holding, Begun
<1>4. Begun(a + 1, s + 1, s) = a + 1
  BY DEF Begun
<1>5. f[s] \in Nat
  BY Reached
<1>6. f[s] >= (a + 1) - 1
  BY <1>1, <1>3, <1>5
<1>7. QED BY <1>2, <1>4, <1>6 DEF Before

\* When the text is over, what is left of a pattern that lies is '%'s.
LEMMA StarsLeft ==
  ASSUME NEW S, NEW text \in Seq(S), NEW pattern \in Seq(S),
         NEW f \in [0..Len(pattern) -> 0..Len(text)], Lies(f, text, pattern),
         NEW t \in Nat, NEW p \in Nat, NEW s \in Nat, NEW a \in Nat, Holding(text, pattern, t, p, s, a), Before(f, t, p, s),
         t > Len(text)
  PROVE  TrailingStars(pattern, p)
<1>1. p \in 1..(Len(pattern) + 1) /\ f[p - 1] \in Nat /\ p - 1 \in 0..Len(pattern) /\ f[p - 1] >= t - 1
  BY Reached
<1>2. SUFFICES ASSUME NEW i \in p..Len(pattern), pattern[i] # "%" PROVE FALSE
  BY DEF TrailingStars
<1>3. i \in 1..Len(pattern) /\ i - 1 \in (p - 1)..Len(pattern)
  BY <1>1
<1>4. f[p - 1] <= f[i - 1]
  BY <1>1, <1>3, Rising
<1>5. f[i] = f[i - 1] + 1
  BY <1>2, <1>3 DEF Lies
<1>6. f[i] \in 0..Len(text) /\ f[i - 1] \in Nat
  <2>1. i \in 0..Len(pattern) /\ i - 1 \in 0..Len(pattern)
    BY <1>1, <1>3
  <2>2. QED BY <2>1
<1>7. QED BY <1>1, <1>4, <1>5, <1>6

\* When the text is over and what is left is '%'s, a pattern with no '%' but in
\* front lies over it.
LEMMA LaidOver ==
  ASSUME NEW S, NEW text \in Seq(S), NEW pattern \in Seq(S), StarFirst(pattern),
         NEW t \in Nat, NEW p \in Nat, NEW s \in Nat, NEW a \in Nat, Holding(text, pattern, t, p, s, a),
         t > Len(text), TrailingStars(pattern, p)
  PROVE  Like(text, pattern)
<1> DEFINE P == Len(pattern)
           T == Len(text)
           b == Begun(t, p, s)
<1>1. /\ P \in Nat /\ T \in Nat /\ DOMAIN pattern = 1..P
      /\ b = t - (p - 1 - s) /\ 1 <= b /\ s < p /\ p <= P + 1 /\ t = T + 1 /\ (s = 0 => b = 1)
  BY DEF Holding, Begun
<1>2. \A i \in 1..P : Percent(pattern[i]) => i = 1
  BY <1>1 DEF StarFirst, Percent
<1>3. s > 0 => Percent(pattern[s]) /\ s = 1
  <2>1. s > 0 => s \in 1..P
    BY <1>1
  <2>2. QED BY <1>2, <2>1 DEF Holding
<1>4. s = 0 \/ s = 1
  BY <1>3
<1>5. \A i \in (s + 1)..(p - 1) : ~Percent(pattern[i]) /\ Same(pattern[i], text[b + i - s - 1])
  BY DEF Holding
<1> DEFINE Made(f) == f \in [0..P -> 0..T] /\ f[0] = 0 /\ f[P] = T
                      /\ \A i \in 1..P : \/ Percent(pattern[i]) /\ f[i - 1] <= f[i]
                                         \/ ~Percent(pattern[i]) /\ f[i] = f[i - 1] + 1 /\ Same(pattern[i], text[f[i]])
<1>6. CASE p = P + 1
  <2> DEFINE g == [i \in 0..P |-> IF i = 0 THEN 0 ELSE b - 1 + i - s]
  <2> HIDE DEF P, T, b
  <2>1. g \in [0..P -> 0..T]
    <3>1. ASSUME NEW i \in 0..P PROVE (IF i = 0 THEN 0 ELSE b - 1 + i - s) \in 0..T
      BY <1>1, <1>4, <1>6
    <3>2. QED BY <3>1
  <2>2. g[0] = 0
    BY <1>1
  <2>3. g[P] = T
    BY <1>1, <1>4, <1>6
  <2>4. ASSUME NEW i \in 1..P
        PROVE  \/ Percent(pattern[i]) /\ g[i - 1] <= g[i]
               \/ ~Percent(pattern[i]) /\ g[i] = g[i - 1] + 1 /\ Same(pattern[i], text[g[i]])
    <3>1. i \in 0..P /\ i - 1 \in 0..P /\ g[i] = b - 1 + i - s /\ g[i - 1] = IF i - 1 = 0 THEN 0 ELSE b - 1 + (i - 1) - s
      BY <1>1
    <3>2. CASE Percent(pattern[i])
      <4>1. i = 1
        BY <1>2, <3>2
      <4>2. g[i - 1] <= g[i]
        BY <1>1, <1>4, <3>1, <4>1
      <4>3. QED BY <3>2, <4>2
    <3>3. CASE ~Percent(pattern[i])
      <4>1. i # s
        BY <1>3, <3>3
      <4>2. i \in (s + 1)..(p - 1)
        BY <1>1, <1>4, <1>6, <4>1
      <4>3. Same(pattern[i], text[b + i - s - 1])
        BY <1>5, <4>2
      <4>4. b + i - s - 1 = g[i] /\ g[i] = g[i - 1] + 1
        BY <1>1, <1>4, <3>1, <4>2
      <4>5. QED BY <3>3, <4>3, <4>4
    <3>4. QED BY <3>2, <3>3
  <2> HIDE DEF g
  <2>5. Made(g)
    BY <2>1, <2>2, <2>3, <2>4
  <2>6. QED BY <2>5 DEF Like, Lies, Percent, Same, P, T
<1>7. CASE p # P + 1
  <2>1. p \in 1..P
    BY <1>1, <1>7
  <2>2. \A i \in p..P : Percent(pattern[i])
    BY DEF TrailingStars, Percent
  <2>3. p = 1 /\ P = 1
    <3>1. Percent(pattern[p]) /\ Percent(pattern[P]) /\ P \in 1..P
      BY <1>1, <2>1, <2>2
    <3>2. QED BY <1>2, <2>1, <3>1
  <2>4. s = 0 /\ T = 0
    BY <1>1, <2>3
  <2> DEFINE g == [i \in 0..P |-> 0]
  <2> HIDE DEF P, T, b
  <2>5. g \in [0..P -> 0..T] /\ g[0] = 0 /\ g[P] = T
    BY <1>1, <2>4
  <2>6. ASSUME NEW i \in 1..P PROVE Percent(pattern[i]) /\ g[i - 1] <= g[i]
    <3>1. i \in p..P
      BY <2>3
    <3>2. g[i - 1] = 0 /\ g[i] = 0
      BY <1>1
    <3>3. QED BY <2>2, <3>1, <3>2
  <2> HIDE DEF g
  <2>7. Made(g)
    BY <2>5, <2>6
  <2>8. QED BY <2>7 DEF Like, Lies, Percent, Same, P, T
<1>8. QED BY <1>6, <1>7


LikeAt(text, pattern, m) == m \in LikeStates /\ Holding(text, pattern, m.t, m.p, m.star, m.again)

\* The place is ahead of the last.
Grown(pattern, m, k) == k.again * (Len(pattern) + 2) + k.p >= m.again * (Len(pattern) + 2) + m.p + 1

LEMMA Products ==
  ASSUME NEW a \in Nat, NEW w \in Nat
  PROVE  (a + 1) * w = a * w + w /\ a * w \in Nat
OBVIOUS

LEMMA TurnHolds ==
  ASSUME NEW S, NEW text \in Seq(S), NEW pattern \in Seq(S), Plain(text),
         NEW m, LikeAt(text, pattern, m), NEW k \in LikeStates, Turns(text, pattern, m, k)
  PROVE  /\ LikeAt(text, pattern, k)
         /\ ~LikeOver(text, m) => k.no \/ Grown(pattern, m, k)
<1> DEFINE same == m.p <= Len(pattern) /\ Same(pattern[m.p], text[m.t])
           any  == m.p <= Len(pattern) /\ Percent(pattern[m.p])
<1>1. m.t \in Nat /\ m.p \in Nat /\ m.star \in Nat /\ m.again \in Nat /\ Holding(text, pattern, m.t, m.p, m.star, m.again)
  BY LikeFields DEF LikeAt
<1>2. CASE LikeOver(text, m)
  BY <1>2 DEF Turns
<1>3. CASE ~LikeOver(text, m) /\ same
  <2>1. k.t = m.t + 1 /\ k.p = m.p + 1 /\ k.star = m.star /\ k.again = m.again
    BY <1>3 DEF Turns
  <2>2. m.t <= Len(text)
    BY <1>1, <1>3 DEF LikeOver
  <2>3. Holding(text, pattern, m.t + 1, m.p + 1, m.star, m.again)
    BY <1>1, <1>3, <2>2, HoldSame
  <2>4. LikeAt(text, pattern, k)
    BY <2>1, <2>3 DEF LikeAt
  <2>5. Grown(pattern, m, k)
    <3>1. m.again * (Len(pattern) + 2) \in Nat
      BY <1>1, Products
    <3>2. QED BY <1>1, <2>1, <3>1 DEF Grown
  <2>6. QED BY <2>4, <2>5
<1>4. CASE ~LikeOver(text, m) /\ ~same /\ any
  <2>1. k.t = m.t /\ k.p = m.p + 1 /\ k.star = m.p /\ k.again = m.again
    BY <1>4 DEF Turns
  <2>2. m.t <= Len(text)
    BY <1>1, <1>4 DEF LikeOver
  <2>3. Holding(text, pattern, m.t, m.p + 1, m.p, m.again)
    BY <1>1, <1>4, <2>2, HoldAny
  <2>4. LikeAt(text, pattern, k)
    BY <2>1, <2>3 DEF LikeAt
  <2>5. Grown(pattern, m, k)
    <3>1. m.again * (Len(pattern) + 2) \in Nat
      BY <1>1, Products
    <3>2. QED BY <1>1, <2>1, <3>1 DEF Grown
  <2>6. QED BY <2>4, <2>5
<1>5. CASE ~LikeOver(text, m) /\ ~same /\ ~any /\ m.star > 0
  <2>1. k.t = m.again + 1 /\ k.p = m.star + 1 /\ k.star = m.star /\ k.again = m.again + 1
    BY <1>5 DEF Turns
  <2>2. m.t <= Len(text)
    BY <1>1, <1>5 DEF LikeOver
  <2>3. Holding(text, pattern, m.again + 1, m.star + 1, m.star, m.again + 1)
    BY <1>1, <1>5, <2>2, HoldAgain
  <2>4. LikeAt(text, pattern, k)
    BY <2>1, <2>3 DEF LikeAt
  <2>5. Grown(pattern, m, k)
    <3>1. PICK w \in Nat : w = Len(pattern) + 2
      OBVIOUS
    <3>2. (m.again + 1) * w = m.again * w + w /\ m.again * w \in Nat
      BY <1>1, Products
    <3>3. m.p <= Len(pattern) + 1
      BY <1>1 DEF Holding
    <3>4. m.p + 1 <= w
      BY <1>1, <3>1, <3>3
    <3>5. (m.again + 1) * w + (m.star + 1) >= m.again * w + m.p + 1
      <4>1. PICK x \in Nat : x = m.again * w
        BY <3>2
      <4>2. PICK y \in Nat : y = (m.again + 1) * w /\ y = x + w
        BY <3>2, <4>1
      <4>3. y + (m.star + 1) >= x + m.p + 1
        <5>1. \A i, j, q, v, e \in Nat : j = i + v /\ q + 1 <= v => j + (e + 1) >= i + q + 1
          OBVIOUS
        <5>2. QED BY <1>1, <3>4, <4>2, <5>1
      <4>4. QED BY <4>1, <4>2, <4>3
    <3>6. QED BY <2>1, <3>1, <3>5 DEF Grown
  <2>6. QED BY <2>4, <2>5
<1>6. CASE ~LikeOver(text, m) /\ ~same /\ ~any /\ m.star = 0
  <2>1. k.t = m.t /\ k.p = m.p /\ k.star = m.star /\ k.again = m.again /\ k.no
    BY <1>6 DEF Turns
  <2>2. QED BY <1>1, <2>1 DEF LikeAt
<1>7. m.star > 0 \/ m.star = 0
  BY <1>1
<1>8. QED BY <1>2, <1>3, <1>4, <1>5, <1>6, <1>7

LEMMA TurnKeeps ==
  ASSUME NEW S, NEW text \in Seq(S), NEW pattern \in Seq(S), Plain(text),
         NEW m, LikeAt(text, pattern, m), NEW k \in LikeStates, Turns(text, pattern, m, k),
         NEW f \in [0..Len(pattern) -> 0..Len(text)], Lies(f, text, pattern), ~m.no, Before(f, m.t, m.p, m.star)
  PROVE  ~k.no /\ Before(f, k.t, k.p, k.star)
<1> DEFINE same == m.p <= Len(pattern) /\ Same(pattern[m.p], text[m.t])
           any  == m.p <= Len(pattern) /\ Percent(pattern[m.p])
<1>1. m.t \in Nat /\ m.p \in Nat /\ m.star \in Nat /\ m.again \in Nat /\ Holding(text, pattern, m.t, m.p, m.star, m.again)
  BY LikeFields DEF LikeAt
<1>2. CASE LikeOver(text, m)
  BY <1>2 DEF Turns
<1>3. CASE ~LikeOver(text, m) /\ same
  <2>1. k.t = m.t + 1 /\ k.p = m.p + 1 /\ k.star = m.star /\ ~k.no
    BY <1>3 DEF Turns
  <2>2. Begun(m.t + 1, m.p + 1, m.star) = Begun(m.t, m.p, m.star)
    BY <1>1 DEF Begun
  <2>3. QED BY <2>1, <2>2 DEF Before
<1>4. CASE ~LikeOver(text, m) /\ ~same /\ any
  <2>1. k.t = m.t /\ k.p = m.p + 1 /\ k.star = m.p /\ ~k.no
    BY <1>4 DEF Turns
  <2>2. Before(f, m.t, m.p + 1, m.p)
    BY <1>1, <1>4, BeforeAny
  <2>3. QED BY <2>1, <2>2
<1>5. CASE ~LikeOver(text, m) /\ ~same /\ ~any
  <2>1. m.t <= Len(text)
    BY <1>1, <1>5 DEF LikeOver
  <2>2. m.p <= Len(pattern) => ~Percent(pattern[m.p]) /\ ~Same(pattern[m.p], text[m.t])
    BY <1>5
  <2>3. m.star # 0 /\ Before(f, m.again + 1, m.star + 1, m.star)
    BY <1>1, <2>1, <2>2, BeforeAgain
  <2>4. m.star > 0
    BY <1>1, <2>3
  <2>5. k.t = m.again + 1 /\ k.p = m.star + 1 /\ k.star = m.star /\ ~k.no
    BY <1>5, <2>4 DEF Turns
  <2>6. QED BY <2>3, <2>5
<1>6. QED BY <1>2, <1>3, <1>4, <1>5


LEMMA Larger ==
  ASSUME NEW a \in Nat, NEW b \in Nat, NEW w \in Nat, a <= b
  PROVE  a * w <= b * w
<1>1. PICK d \in Nat : b = a + d
  <2>1. b - a \in Nat /\ b = a + (b - a)
    OBVIOUS
  <2>2. QED BY <2>1
<1>2. (a + d) * w = a * w + d * w /\ a * w \in Nat /\ d * w \in Nat
  OBVIOUS
<1>3. QED BY <1>1, <1>2

\* The turns are enough for the loop to be over, and what it holds is laid over
\* the text.
LEMMA LoopEnds ==
  ASSUME NEW S, NEW text \in Seq(S), NEW pattern \in Seq(S), Plain(text),
         NEW n \in Nat, n = (Len(text) + 1) * (Len(pattern) + 2),
         NEW h \in [0..n -> LikeStates], Turning(text, pattern, n, h)
  PROVE  /\ LikeAt(text, pattern, h[n]) /\ LikeOver(text, h[n])
         /\ \A f \in [0..Len(pattern) -> 0..Len(text)] :
              Lies(f, text, pattern) => ~h[n].no /\ Before(f, h[n].t, h[n].p, h[n].star)
<1> DEFINE At == {i \in 0..n : LikeAt(text, pattern, h[i])}
<1>1. PICK w \in Nat : w = Len(pattern) + 2
  OBVIOUS
<1>2. 0 \in 0..n /\ n \in 0..n /\ \A i \in 1..n : i \in 0..n /\ i - 1 \in 0..n
  OBVIOUS
<1>3. /\ h[0] \in LikeStates /\ h[0].t = 1 /\ h[0].p = 1 /\ h[0].star = 0 /\ h[0].again = 1 /\ h[0].no = FALSE
      /\ LikeAt(text, pattern, h[0])
  <2>1. h[0] = LikeStart /\ h[0] \in LikeStates
    BY <1>2 DEF Turning
  <2>2. h[0].t = 1 /\ h[0].p = 1 /\ h[0].star = 0 /\ h[0].again = 1 /\ h[0].no = FALSE
    BY <2>1 DEF LikeStart
  <2>3. Holding(text, pattern, 1, 1, 0, 1)
    <3>1. Begun(1, 1, 0) = 1
      BY DEF Begun
    <3>2. \A i \in (0 + 1)..(1 - 1) : FALSE
      OBVIOUS
    <3>3. 1 <= Len(pattern) + 1 /\ 1 <= Len(text) + 1 /\ ~(0 > 0)
      OBVIOUS
    <3>4. QED BY <3>1, <3>2, <3>3 DEF Holding
  <2>4. QED BY <2>1, <2>2, <2>3 DEF LikeAt
<1>4. ASSUME NEW i \in 1..n
      PROVE  h[i] \in LikeStates /\ h[i - 1] \in LikeStates /\ Turns(text, pattern, h[i - 1], h[i])
  <2>1. h[i] = LikeTurn(text, pattern, h[i - 1]) /\ h[i] \in LikeStates /\ h[i - 1] \in LikeStates
    BY <1>2 DEF Turning
  <2>2. QED BY <2>1, Turned
<1>5. \A i \in 0..n : LikeAt(text, pattern, h[i])
  <2>1. 0 \in At
    BY <1>2, <1>3
  <2>2. ASSUME NEW i \in 1..n, i - 1 \in At PROVE i \in At
    <3>1. LikeAt(text, pattern, h[i])
      BY <1>4, <2>2, TurnHolds
    <3>2. QED BY <1>2, <3>1
  <2>3. \A i \in 0..n : i \in At
    <3> HIDE DEF At
    <3>1. QED BY <2>1, <2>2, Induction
  <2>4. QED BY <2>3
<1>6. \A i \in 0..n : LikeOver(text, h[i]) \/ h[i].again * w + h[i].p >= w + 1 + i
  <2> DEFINE T == {i \in 0..n : LikeOver(text, h[i]) \/ h[i].again * w + h[i].p >= w + 1 + i}
  <2>1. 0 \in T
    <3>1. 1 * w + 1 >= w + 1 + 0
      OBVIOUS
    <3>2. QED BY <1>2, <1>3, <3>1
  <2>2. ASSUME NEW i \in 1..n, i - 1 \in T PROVE i \in T
    <3>1. i \in 0..n /\ i - 1 \in 0..n
      BY <1>2
    <3>2. CASE LikeOver(text, h[i - 1])
      <4>1. h[i] = h[i - 1]
        BY <1>4, <3>2 DEF Turns
      <4>2. QED BY <3>1, <3>2, <4>1
    <3>3. CASE ~LikeOver(text, h[i - 1])
      <4>1. h[i].no \/ Grown(pattern, h[i - 1], h[i])
        BY <1>4, <1>5, <3>1, <3>3, TurnHolds
      <4>2. CASE h[i].no
        BY <3>1, <4>2 DEF LikeOver
      <4>3. CASE Grown(pattern, h[i - 1], h[i])
        <5>1. PICK x \in Nat : x = h[i - 1].again * w + h[i - 1].p
          <6>1. h[i - 1].again \in Nat /\ h[i - 1].p \in Nat
            BY <1>4, LikeFields
          <6>2. PICK z \in Nat : z = h[i - 1].again * w
            BY <6>1, Products
          <6>3. z + h[i - 1].p \in Nat
            BY <6>1
          <6>4. QED BY <6>2, <6>3
        <5>2. PICK y \in Nat : y = h[i].again * w + h[i].p
          <6>1. h[i].again \in Nat /\ h[i].p \in Nat
            BY <1>4, LikeFields
          <6>2. PICK z \in Nat : z = h[i].again * w
            BY <6>1, Products
          <6>3. z + h[i].p \in Nat
            BY <6>1
          <6>4. QED BY <6>2, <6>3
        <5>3. y >= x + 1
          <6>1. h[i - 1].again \in Nat /\ h[i - 1].p \in Nat
            BY <1>4, LikeFields
          <6>2. PICK z \in Nat : z = h[i - 1].again * w
            BY <6>1, Products
          <6>3. h[i].again * w + h[i].p >= h[i - 1].again * w + h[i - 1].p + 1
            BY <1>1, <4>3 DEF Grown
          <6>4. y >= z + h[i - 1].p + 1 /\ x = z + h[i - 1].p
            BY <5>1, <5>2, <6>2, <6>3
          <6>5. QED BY <6>1, <6>4
        <5>4. x >= w + 1 + (i - 1)
          BY <2>2, <3>3, <5>1
        <5>5. y >= w + 1 + i
          BY <5>3, <5>4
        <5>6. QED BY <3>1, <5>2, <5>5
      <4>4. QED BY <4>1, <4>2, <4>3
    <3>4. QED BY <3>2, <3>3
  <2>3. \A i \in 0..n : i \in T
    <3> HIDE DEF T
    <3>1. QED BY <2>1, <2>2, Induction
  <2>4. QED BY <2>3
<1>7. LikeOver(text, h[n])
  <2>1. SUFFICES ASSUME ~LikeOver(text, h[n]) PROVE FALSE
    OBVIOUS
  <2>2. PICK a \in Nat, p \in Nat, t \in Nat, s \in Nat :
          a = h[n].again /\ p = h[n].p /\ t = h[n].t /\ s = h[n].star /\ Holding(text, pattern, t, p, s, a)
    BY <1>2, <1>5, LikeFields DEF LikeAt
  <2>3. t <= Len(text)
    BY <2>1, <2>2 DEF LikeOver
  <2>4. a <= Len(text) /\ p < w
    <3>1. a <= Begun(t, p, s) /\ s < p /\ p <= Len(pattern) + 1
      BY <2>2 DEF Holding
    <3>2. a <= t - (p - 1 - s)
      BY <3>1 DEF Begun
    <3>3. QED BY <1>1, <2>3, <3>1, <3>2
  <2>5. PICK c \in Nat : c = Len(text)
    OBVIOUS
  <2>6. a * w <= c * w /\ a * w \in Nat /\ c * w \in Nat
    BY <2>4, <2>5, Larger, Products
  <2>7. n = c * w + w
    <3>1. n = (c + 1) * w
      BY <1>1, <2>5
    <3>2. QED BY <3>1, Products
  <2>8. a * w + p >= w + 1 + n
    BY <1>2, <1>6, <2>1, <2>2
  <2>9. PICK x \in Nat, y \in Nat : x = a * w /\ y = c * w
    BY <2>6
  <2>10. x <= y /\ n = y + w /\ x + p >= w + 1 + n
    BY <2>6, <2>7, <2>8, <2>9
  <2>11. QED BY <2>4, <2>10
<1>8. ASSUME NEW f \in [0..Len(pattern) -> 0..Len(text)], Lies(f, text, pattern)
      PROVE  ~h[n].no /\ Before(f, h[n].t, h[n].p, h[n].star)
  <2> DEFINE T == {i \in 0..n : ~h[i].no /\ Before(f, h[i].t, h[i].p, h[i].star)}
  <2>1. 0 \in T
    <3>1. Begun(1, 1, 0) = 1
      BY DEF Begun
    <3>2. f[0] = 0
      BY <1>8 DEF Lies
    <3>3. Before(f, 1, 1, 0)
      BY <3>1, <3>2 DEF Before
    <3>4. QED BY <1>2, <1>3, <3>3
  <2>2. ASSUME NEW i \in 1..n, i - 1 \in T PROVE i \in T
    <3>1. i \in 0..n /\ i - 1 \in 0..n
      BY <1>2
    <3>2. ~h[i].no /\ Before(f, h[i].t, h[i].p, h[i].star)
      BY <1>4, <1>5, <1>8, <2>2, <3>1, TurnKeeps
    <3>3. QED BY <3>1, <3>2
  <2>3. \A i \in 0..n : i \in T
    <3> HIDE DEF T
    <3>1. QED BY <2>1, <2>2, Induction
  <2>4. QED BY <1>2, <2>3
<1>9. QED BY <1>2, <1>5, <1>7, <1>8

\* like_matcher finds every text that LIKE accepts, and only those when '%' is at
\* most the first character of the pattern: for all patterns, and all texts
\* without a '%' (storage.rs:415-442).
THEOREM LikeIsFound ==
  ASSUME NEW S, NEW text \in Seq(S), NEW pattern \in Seq(S), Plain(text)
  PROVE  /\ Like(text, pattern) => LikeMatcher(text, pattern)
         /\ LikeMatcher(text, pattern) /\ StarFirst(pattern) => Like(text, pattern)
<1>0. PICK n \in Nat : \E h : MatcherRun(text, pattern, n, h)
  BY MatcherIs
<1>1. PICK h : /\ n = (Len(text) + 1) * (Len(pattern) + 2)
               /\ h \in [0..n -> LikeStates] /\ Turning(text, pattern, n, h)
               /\ LikeMatcher(text, pattern) = (~h[n].no /\ TrailingStars(pattern, h[n].p))
  BY <1>0 DEF MatcherRun
<1>2. /\ LikeAt(text, pattern, h[n]) /\ LikeOver(text, h[n])
      /\ \A f \in [0..Len(pattern) -> 0..Len(text)] :
           Lies(f, text, pattern) => ~h[n].no /\ Before(f, h[n].t, h[n].p, h[n].star)
  BY <1>1, LoopEnds
<1>3. PICK a \in Nat, p \in Nat, t \in Nat, s \in Nat :
        a = h[n].again /\ p = h[n].p /\ t = h[n].t /\ s = h[n].star /\ Holding(text, pattern, t, p, s, a)
  BY <1>2, LikeFields DEF LikeAt
<1>4. ~h[n].no => t > Len(text)
  BY <1>2, <1>3 DEF LikeOver
<1>5. ASSUME Like(text, pattern) PROVE LikeMatcher(text, pattern)
  <2>1. PICK f \in [0..Len(pattern) -> 0..Len(text)] : Lies(f, text, pattern)
    BY <1>5 DEF Like
  <2>2. ~h[n].no /\ Before(f, t, p, s)
    BY <1>2, <1>3, <2>1
  <2>3. TrailingStars(pattern, p)
    BY <1>3, <1>4, <2>1, <2>2, StarsLeft
  <2>4. QED BY <1>1, <1>3, <2>2, <2>3
<1>6. ASSUME LikeMatcher(text, pattern), StarFirst(pattern) PROVE Like(text, pattern)
  <2>1. t > Len(text) /\ TrailingStars(pattern, p)
    BY <1>1, <1>3, <1>4, <1>6
  <2>2. QED BY <1>3, <1>6, <2>1, LaidOver
<1>7. QED BY <1>5, <1>6


LEMMA BoundedIsSeq ==
  ASSUME NEW A, NEW B, A \subseteq B, NEW k \in Nat, NEW s \in BoundedSeq(A, k)
  PROVE  s \in Seq(B) /\ \A i \in 1..Len(s) : s[i] \in A
<1>1. PICK n \in 0..k : s \in [1..n -> A]
  BY DEF BoundedSeq, SeqOf
<1>2. n \in Nat /\ s \in [1..n -> B]
  BY <1>1
<1>3. s \in Seq(B) /\ Len(s) = n
  BY <1>2, MapIsSeq
<1>4. QED BY <1>1, <1>3

\* The texts and patterns the runs look at are some of them.
LEMMA LikeFinds == LikeFindsAll
<1> DEFINE S == {"a", "b", "%", "_"}
           A == {"a", "b"}
<1>1. A \subseteq S /\ \A c \in A : ~Percent(c)
  BY DEF Percent
<1> HIDE DEF S, A
<1>2. ASSUME NEW text \in BoundedSeq(A, 3), NEW pattern \in BoundedSeq(S, 3)
      PROVE  /\ Like(text, pattern) => LikeMatcher(text, pattern)
             /\ LikeMatcher(text, pattern) /\ StarFirst(pattern) => Like(text, pattern)
  <2>1. 3 \in Nat
    OBVIOUS
  <2>2. text \in Seq(S) /\ \A i \in 1..Len(text) : text[i] \in A
    BY <1>1, <2>1, BoundedIsSeq
  <2>3. pattern \in Seq(S)
    BY <2>1, BoundedIsSeq
  <2>4. Plain(text)
    BY <1>1, <2>2 DEF Plain
  <2>5. QED BY <2>2, <2>3, <2>4, LikeIsFound
<1>3. QED BY <1>2 DEF LikeFindsAll, S, A

-----------------------------------------------------------------------------
(* No table has more rows than usize counts.                               *)

Counted(e) == \A n \in DOMAIN e : Rows(e[n]) \in Usize

CountInv == StoreInv /\ Counted(tables) /\ Counted(saved)

LEMMA OneTableCounted ==
  ASSUME NEW e, Sound(e), Counted(e), NEW name \in DOMAIN e, NEW rs, Len(rs) \in Usize
  PROVE  Counted([e EXCEPT ![name].rows = rs])
<1> DEFINE x == [e[name] EXCEPT !.rows = rs]
           f == [e EXCEPT ![name] = x]
<1>1. f = [e EXCEPT ![name].rows = rs]
  OBVIOUS
<1>2. x.rows = rs
  <2>1. e[name] \in TablesData
    BY DEF Sound, TableOK
  <2>2. QED BY <2>1 DEF TablesData
<1> HIDE DEF x
<1>3. DOMAIN f = DOMAIN e /\ \A n \in DOMAIN e : f[n] = IF n = name THEN x ELSE e[n]
  BY DEF Sound
<1> HIDE DEF f
<1>4. Counted(f)
  BY <1>2, <1>3 DEF Counted, Rows
<1>5. QED BY <1>1, <1>4

LEMMA EmptyCounted == Counted(NoEngine)
BY DEF Counted, NoEngine

LEMMA CountKept ==
  ASSUME CountInv, StoreInv', Counted(tables'), saved' = saved
  PROVE  CountInv'
BY DEF CountInv, Counted

LEMMA CountSteps == CountInv /\ [StoreNext]_storeVars => CountInv'
<1> SUFFICES ASSUME CountInv, [StoreNext]_storeVars PROVE CountInv'
  OBVIOUS
<1>0. StoreInv /\ StoreInv' /\ Counted(tables) /\ Counted(saved) /\ Sound(tables) /\ Sound(saved)
  BY StoreSteps DEF CountInv, StoreInv
<1>1. ASSUME NEW n \in TableNames, NEW s \in Schemas, CreateTable(n, s) PROVE CountInv'
  <2>1. /\ tables' = [m \in DOMAIN tables \cup {n} |-> IF m = n THEN [schema |-> s, rows |-> <<>>] ELSE tables[m]]
        /\ saved' = saved
    BY <1>1 DEF CreateTable
  <2>2. Len(<<>>) \in Usize
    BY StorageAssumption DEF Usize
  <2>3. Counted(tables')
    BY <1>0, <2>1, <2>2 DEF Counted, Rows
  <2>4. QED BY <1>0, <2>1, <2>3, CountKept
<1>2. ASSUME NEW n \in TableNames, DropTable(n) PROVE CountInv'
  <2>1. Counted(tables') /\ saved' = saved
    BY <1>0, <1>2 DEF DropTable, Counted
  <2>2. QED BY <1>0, <2>1, CountKept
<1>3. ASSUME NEW n \in TableNames, NEW v \in Inputs, Insert(n, v) PROVE CountInv'
  <2> DEFINE d == tables[n]
             r == [id |-> Rows(d) + 1, values |-> v]
             rs == Append(d.rows, r)
  <2>1. n \in DOMAIN tables /\ tables' = [tables EXCEPT ![n].rows = rs] /\ saved' = saved /\ Rows(d) < UsizeMax
    BY <1>3 DEF Insert
  <2>2. d.rows \in Seq(RowsData)
    BY <1>0, <2>1, TableFits DEF Sound
  <2>3. Len(rs) = Len(d.rows) + 1 /\ Len(d.rows) \in Nat
    <3> HIDE DEF d, r
    <3>1. d.rows \in Seq(RowsData \cup {r}) /\ r \in RowsData \cup {r}
      BY <2>2
    <3>2. QED BY <3>1, WriteEnd
  <2>4. Len(rs) \in Usize
    BY <2>1, <2>3, StorageAssumption DEF Usize, Rows
  <2> HIDE DEF rs
  <2>5. Counted(tables')
    BY <1>0, <2>1, <2>4, OneTableCounted
  <2>6. QED BY <1>0, <2>1, <2>5, CountKept
<1>4. ASSUME NEW n \in TableNames, NEW u \in Updates, NEW c \in Wheres, Update(n, u, c) PROVE CountInv'
  <2> DEFINE d == tables[n]
             rs == [i \in DOMAIN d.rows |-> IF Matches(c, d.rows[i], d.schema) THEN Assign(d, d.rows[i], u) ELSE d.rows[i]]
  <2>1. n \in DOMAIN tables /\ tables' = [tables EXCEPT ![n].rows = rs] /\ saved' = saved
    BY <1>4 DEF Update
  <2>2. DOMAIN d.rows = 1..Len(d.rows) /\ Len(d.rows) \in Nat /\ Len(d.rows) \in Usize
    BY <1>0, <2>1, TableFits DEF Sound, Counted, Rows
  <2>3. Len(rs) = Len(d.rows)
    <3>1. DOMAIN rs = 1..Len(d.rows)
      BY <2>2
    <3> HIDE DEF rs, d
    <3>2. QED BY <2>2, <3>1
  <2>4. Len(rs) \in Usize
    BY <2>2, <2>3
  <2> HIDE DEF rs
  <2>5. Counted(tables')
    BY <1>0, <2>1, <2>4, OneTableCounted
  <2>6. QED BY <1>0, <2>1, <2>5, CountKept
<1>5. ASSUME NEW n \in TableNames, NEW c \in Wheres, Delete(n, c) PROVE CountInv'
  <2> DEFINE d == tables[n]
             rs == Retain(d.rows, {r \in ToSet(d.rows) : Matches(c, r, d.schema)})
  <2>1. n \in DOMAIN tables /\ tables' = [tables EXCEPT ![n].rows = rs] /\ saved' = saved
    BY <1>5 DEF Delete
  <2>2. d.rows \in Seq(RowsData) /\ Len(d.rows) \in Usize
    BY <1>0, <2>1, TableFits DEF Sound, Counted, Rows
  <2>3. rs \in Seq(RowsData) /\ Len(rs) <= Len(d.rows)
    <3> HIDE DEF d
    <3>1. QED BY <2>2, RetainFacts
  <2> HIDE DEF rs
  <2>4. Len(rs) \in Usize
    BY <2>2, <2>3, StorageAssumption DEF Usize
  <2>5. Counted(tables')
    BY <1>0, <2>1, <2>4, OneTableCounted
  <2>6. QED BY <1>0, <2>1, <2>5, CountKept
<1>6. CASE ClearEngine
  <2>1. tables' = NoEngine /\ saved' = saved
    BY <1>6 DEF ClearEngine
  <2>2. QED BY <1>0, <2>1, EmptyCounted, CountKept
<1>7. CASE Save
  BY <1>0, <1>7 DEF Save, CountInv, Counted
<1>8. CASE SaveTorn
  <2>1. saved' = NoEngine /\ (tables' = tables \/ tables' = NoEngine)
    BY <1>8 DEF SaveTorn
  <2>2. QED BY <1>0, <2>1, EmptyCounted DEF CountInv
<1>9. CASE Load
  <2>1. file # NoFile /\ Decode(file).ok /\ tables' = Decode(file).engine /\ saved' = saved
    BY <1>9 DEF Load
  <2>2. PICK e, k : WrittenUpTo(e, k) /\ (k = Len(Encode(e)) => e = saved)
    BY <1>0, <2>1 DEF StoreInv
  <2>3. e = saved /\ tables' = WideEngine(e)
    BY <2>1, <2>2, FileTaken
  <2>4. SameEngine(saved, tables')
    BY <1>0, <2>3, WideEngineOK
  <2>5. Counted(tables')
    BY <1>0, <2>4 DEF SameEngine, SameTable, Counted
  <2>6. QED BY <1>0, <2>1, <2>5, CountKept
<1>10. CASE UNCHANGED storeVars
  BY <1>0, <1>10 DEF storeVars, CountInv, Counted
<1>11. QED BY <1>1, <1>2, <1>3, <1>4, <1>5, <1>6, <1>7, <1>8, <1>9, <1>10 DEF StoreNext

\* A select returns the rows offset+1 to offset+limit of those that match, for
\* every usize, although their sum may wrap around (storage.rs:170-191).
THEOREM StorageSelectIsExact == StoreSpec => []SelectIsExact
<1>1. StoreInit => CountInv
  BY StoreInits, EmptyCounted DEF StoreInit, CountInv
<1>2. CountInv => SelectIsExact
  <2> SUFFICES ASSUME CountInv PROVE SelectIsExact
    OBVIOUS
  <2>1. ASSUME NEW n \in DOMAIN tables, NEW c \in Wheres PROVE Len(Matching(tables[n], c)) \in Usize
    <3> DEFINE d == tables[n]
    <3>1. d.rows \in Seq(RowsData) /\ Len(d.rows) \in Usize
      BY TableFits DEF CountInv, StoreInv, Sound, Counted, Rows
    <3>2. PICK Out : Matching(d, c) = Retain(d.rows, Out)
      BY DEF Matching
    <3> HIDE DEF d
    <3>3. Retain(d.rows, Out) \in Seq(RowsData) /\ Len(Retain(d.rows, Out)) <= Len(d.rows)
      BY <3>1, RetainFacts
    <3>4. Len(Retain(d.rows, Out)) \in Usize
      <4>1. PICK q \in Seq(RowsData) : q = Retain(d.rows, Out) /\ Len(q) <= Len(d.rows)
        BY <3>3
      <4>2. Len(q) \in Nat
        BY <4>1
      <4>3. QED BY <3>1, <4>1, <4>2, StorageAssumption DEF Usize
    <3>5. QED BY <3>2, <3>4 DEF d
  <2>2. PageIsSlice
    BY <2>1, PageOf DEF PageIsSlice
  <2>3. QED BY <2>2, LikeFinds DEF SelectIsExact
<1>3. QED BY <1>1, <1>2, CountSteps, PTL DEF StoreSpec
=============================================================================
