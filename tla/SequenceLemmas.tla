---------------------------- MODULE SequenceLemmas ----------------------------
(***************************************************************************)
(* What the proofs about connections keep needing of sequences: a queue    *)
(* whose members come and leave once, a stream that is written at its end  *)
(* and read from its front, the order of the members, a loop over the      *)
(* positions.  Induction is stated about sets, by the least counterexample *)
(* (a rule about predicates could not be instantiated).                    *)
(***************************************************************************)
EXTENDS Naturals, SequencesExt, Filtering, SequenceTheorems, FiniteSetTheorems, WellFoundedInduction, TLAPS

-----------------------------------------------------------------------------
(* Queues.                                                                 *)

Once(q)      == \A i, j \in DOMAIN q : q[i] = q[j] => i = j
Queues(q, e) == \E i \in DOMAIN q : q[i] = e

LEMMA RemoveAtFacts ==
  ASSUME NEW S, NEW q \in Seq(S), NEW i \in 1..Len(q)
  PROVE  /\ RemoveAt(q, i) \in Seq(S)
         /\ Len(RemoveAt(q, i)) = Len(q) - 1
         /\ \A j \in 1..(Len(q) - 1) :
              RemoveAt(q, i)[j] = IF j < i THEN q[j] ELSE q[j + 1]
<1>0. Len(q) \in Nat /\ i \in Nat /\ 1 <= i /\ i <= Len(q)
  OBVIOUS
<1>1. /\ SubSeq(q, 1, i - 1) \in Seq(S)
      /\ Len(SubSeq(q, 1, i - 1)) = i - 1
      /\ \A j \in 1..(i - 1) : SubSeq(q, 1, i - 1)[j] = q[j]
  OBVIOUS
<1>2. /\ SubSeq(q, i + 1, Len(q)) \in Seq(S)
      /\ Len(SubSeq(q, i + 1, Len(q))) = Len(q) - i
      /\ \A j \in 1..(Len(q) - i) : SubSeq(q, i + 1, Len(q))[j] = q[i + j]
  OBVIOUS
<1>3. ASSUME NEW a \in Seq(S), Len(a) = i - 1, \A j \in 1..(i - 1) : a[j] = q[j],
             NEW b \in Seq(S), Len(b) = Len(q) - i,
             \A j \in 1..(Len(q) - i) : b[j] = q[i + j]
      PROVE  /\ a \o b \in Seq(S)
             /\ Len(a \o b) = Len(q) - 1
             /\ \A j \in 1..(Len(q) - 1) : (a \o b)[j] = IF j < i THEN q[j] ELSE q[j + 1]
  <2>1. a \o b \in Seq(S) /\ Len(a \o b) = Len(q) - 1
    <3>1. a \o b \in Seq(S)
      OBVIOUS
    <3>2. Len(a \o b) = Len(a) + Len(b)
      OBVIOUS
    <3>3. QED BY <3>1, <3>2, <1>0, <1>3
  <2>2. ASSUME NEW j \in 1..(Len(q) - 1)
        PROVE  (a \o b)[j] = IF j < i THEN q[j] ELSE q[j + 1]
    <3>0. j \in Nat /\ 1 <= j /\ j <= Len(q) - 1
      BY <1>0
    <3>1. CASE j < i
      BY <3>0, <3>1, <1>0, <1>3
    <3>2. CASE ~(j < i)
      <4>1. (a \o b)[j] = b[j - (i - 1)]
        BY <3>0, <3>2, <1>0, <1>3
      <4>2. j - (i - 1) \in 1..(Len(q) - i) /\ i + (j - (i - 1)) = j + 1
        BY <3>0, <3>2, <1>0
      <4>3. b[j - (i - 1)] = q[j + 1]
        BY <4>2, <1>3
      <4>4. QED BY <4>1, <4>3, <3>2
    <3>3. QED BY <3>1, <3>2
  <2>3. QED BY <2>1, <2>2
<1>4. QED BY <1>1, <1>2, <1>3 DEF RemoveAt

\* Who leaves was in the queue once; the others keep their order.
LEMMA LeaveQueue ==
  ASSUME NEW S, NEW q \in Seq(S), Once(q), NEW i \in DOMAIN q
  PROVE  /\ RemoveAt(q, i) \in Seq(S)
         /\ Once(RemoveAt(q, i))
         /\ \A u : Queues(RemoveAt(q, i), u) <=> (u # q[i] /\ Queues(q, u))
         /\ q[1] # q[i] => RemoveAt(q, i) # <<>> /\ Head(RemoveAt(q, i)) = q[1]
<1> DEFINE r == RemoveAt(q, i)
<1>1. i \in 1..Len(q) /\ Len(q) \in Nat /\ DOMAIN q = 1..Len(q)
  OBVIOUS
<1>2. /\ r \in Seq(S) /\ Len(r) = Len(q) - 1 /\ DOMAIN r = 1..(Len(q) - 1)
      /\ \A j \in 1..(Len(q) - 1) : r[j] = IF j < i THEN q[j] ELSE q[j + 1]
  <2>1. /\ r \in Seq(S) /\ Len(r) = Len(q) - 1
        /\ \A j \in 1..(Len(q) - 1) : r[j] = IF j < i THEN q[j] ELSE q[j + 1]
    BY <1>1, RemoveAtFacts, ZenonT(60)
  <2> HIDE DEF r
  <2>2. r \in Seq(S)
    BY <2>1
  <2>3. DOMAIN r = 1..Len(r)
    BY <2>2
  <2>4. Len(r) = Len(q) - 1
    BY <2>1
  <2>5. DOMAIN r = 1..(Len(q) - 1)
    BY <2>3, <2>4
  <2>6. QED BY <2>1, <2>5, ZenonT(60)
<1> HIDE DEF r
<1>3. Once(r)
  <2> SUFFICES ASSUME NEW j \in 1..(Len(q) - 1), NEW k \in 1..(Len(q) - 1), r[j] = r[k]
               PROVE  j = k
    BY <1>2 DEF Once
  <2> DEFINE old(n) == IF n < i THEN n ELSE n + 1
  <2>1. /\ old(j) \in DOMAIN q /\ r[j] = q[old(j)]
        /\ old(k) \in DOMAIN q /\ r[k] = q[old(k)]
    BY <1>1, <1>2
  <2>2. old(j) = old(k)
    BY <2>1 DEF Once
  <2>3. QED BY <2>2, <1>1
<1>4. ASSUME NEW u
      PROVE  Queues(r, u) <=> (u # q[i] /\ Queues(q, u))
  <2>1. ASSUME Queues(r, u) PROVE u # q[i] /\ Queues(q, u)
    <3>1. PICK j \in 1..(Len(q) - 1) : r[j] = u
      BY <2>1, <1>2 DEF Queues
    <3>2. PICK k \in 1..Len(q) : k # i /\ q[k] = u
      BY <3>1, <1>1, <1>2
    <3>3. QED BY <3>2, <1>1 DEF Queues, Once
  <2>2. ASSUME u # q[i], Queues(q, u) PROVE Queues(r, u)
    <3>1. PICK k \in 1..Len(q) : q[k] = u
      BY <2>2, <1>1 DEF Queues
    <3>2. k # i
      BY <3>1, <2>2
    <3>3. CASE k < i
      <4>1. k \in 1..(Len(q) - 1) /\ r[k] = u
        BY <3>1, <3>3, <1>1, <1>2
      <4>2. QED BY <4>1, <1>2 DEF Queues
    <3>4. CASE k > i
      <4>1. k - 1 \in 1..(Len(q) - 1) /\ r[k - 1] = u
        BY <3>1, <3>4, <1>1, <1>2
      <4>2. QED BY <4>1, <1>2 DEF Queues
    <3>5. QED BY <3>2, <3>3, <3>4, <1>1
  <2>3. QED BY <2>1, <2>2
<1>5. q[1] # q[i] => r # <<>> /\ Head(r) = q[1]
  <2> SUFFICES ASSUME q[1] # q[i] PROVE r # <<>> /\ Head(r) = q[1]
    OBVIOUS
  <2>1. i > 1
    BY <1>1
  <2>2. Len(r) >= 1 /\ r[1] = q[1]
    BY <2>1, <1>1, <1>2
  <2>3. QED BY <2>2, <1>2
<1>6. QED BY <1>2, <1>3, <1>4, <1>5 DEF r

\* Joining at the end disturbs nobody.
LEMMA JoinQueue ==
  ASSUME NEW S, NEW q \in Seq(S), Once(q), NEW e \in S, ~Queues(q, e)
  PROVE  /\ Append(q, e) \in Seq(S)
         /\ Once(Append(q, e))
         /\ \A u : Queues(Append(q, e), u) <=> (u = e \/ Queues(q, u))
         /\ q # <<>> => Append(q, e) # <<>> /\ Head(Append(q, e)) = q[1]
<1> DEFINE r == Append(q, e)
<1>1. /\ r \in Seq(S) /\ Len(q) \in Nat /\ DOMAIN q = 1..Len(q)
      /\ Len(r) = Len(q) + 1 /\ DOMAIN r = 1..(Len(q) + 1)
      /\ \A j \in 1..Len(q) : r[j] = q[j]
      /\ r[Len(q) + 1] = e
  OBVIOUS
<1> HIDE DEF r
<1>2. Once(r)
  BY <1>1 DEF Once, Queues
<1>3. ASSUME NEW u PROVE Queues(r, u) <=> (u = e \/ Queues(q, u))
  <2>1. ASSUME u = e PROVE Queues(r, u)
    <3>1. Len(q) + 1 \in DOMAIN r
      BY <1>1
    <3>2. QED BY <3>1, <2>1, <1>1 DEF Queues
  <2>2. ASSUME Queues(q, u) PROVE Queues(r, u)
    BY <2>2, <1>1 DEF Queues
  <2>3. ASSUME Queues(r, u) PROVE u = e \/ Queues(q, u)
    <3>1. PICK j \in 1..(Len(q) + 1) : r[j] = u
      BY <2>3, <1>1 DEF Queues
    <3>2. QED BY <3>1, <1>1 DEF Queues
  <2>4. QED BY <2>1, <2>2, <2>3
<1>4. q # <<>> => r # <<>> /\ Head(r) = q[1]
  <2> SUFFICES ASSUME q # <<>> PROVE r # <<>> /\ Head(r) = q[1]
    OBVIOUS
  <2>1. Len(q) >= 1
    BY <1>1
  <2>2. QED BY <2>1, <1>1
<1>5. QED BY <1>1, <1>2, <1>3, <1>4 DEF r

-----------------------------------------------------------------------------
(* Streams.                                                                *)

LEMMA ReadFront ==
  ASSUME NEW S, NEW q \in Seq(S), q # <<>>
  PROVE  /\ Len(q) \in Nat /\ Len(q) >= 1 /\ DOMAIN q = 1..Len(q)
         /\ Head(q) = q[1] /\ q[1] \in S /\ 1 \in DOMAIN q
         /\ Tail(q) \in Seq(S) /\ Len(Tail(q)) = Len(q) - 1
         /\ DOMAIN Tail(q) = 1..(Len(q) - 1)
         /\ \A i \in 1..(Len(q) - 1) : Tail(q)[i] = q[i + 1] /\ i + 1 \in DOMAIN q
OBVIOUS

LEMMA LastRead ==
  ASSUME NEW S, NEW q \in Seq(S), q # <<>>
  PROVE  Tail(q) = <<>> <=> Len(q) = 1
<1>1. Tail(q) \in Seq(S) /\ Len(Tail(q)) = Len(q) - 1 /\ Len(q) \in Nat
  OBVIOUS
<1>2. Tail(q) = <<>> <=> Len(Tail(q)) = 0
  BY <1>1, EmptySeq
<1>3. QED BY <1>1, <1>2

LEMMA WriteEnd ==
  ASSUME NEW S, NEW q \in Seq(S), NEW e \in S
  PROVE  /\ Len(q) \in Nat /\ DOMAIN q = 1..Len(q)
         /\ Append(q, e) \in Seq(S) /\ Append(q, e) # <<>>
         /\ Len(Append(q, e)) = Len(q) + 1
         /\ DOMAIN Append(q, e) = 1..(Len(q) + 1)
         /\ \A i \in 1..Len(q) : Append(q, e)[i] = q[i]
         /\ Append(q, e)[Len(q) + 1] = e
         /\ \A i \in DOMAIN Append(q, e) : i \in DOMAIN q \/ i = Len(q) + 1
OBVIOUS

LEMMA Joined ==
  ASSUME NEW S, NEW q \in Seq(S), NEW m \in Seq(S)
  PROVE  /\ Len(q) \in Nat /\ Len(m) \in Nat /\ DOMAIN q = 1..Len(q) /\ DOMAIN m = 1..Len(m)
         /\ q \o m \in Seq(S) /\ Len(q \o m) = Len(q) + Len(m)
         /\ DOMAIN (q \o m) = 1..(Len(q) + Len(m))
         /\ \A i \in 1..Len(q) : (q \o m)[i] = q[i]
         /\ \A i \in 1..Len(m) : (q \o m)[Len(q) + i] = m[i]
         /\ \A i \in 1..(Len(q) + Len(m)) : i \in 1..Len(q) \/ i - Len(q) \in 1..Len(m)
<1>1. /\ Len(q) \in Nat /\ Len(m) \in Nat /\ DOMAIN q = 1..Len(q) /\ DOMAIN m = 1..Len(m)
      /\ q \o m \in Seq(S) /\ Len(q \o m) = Len(q) + Len(m)
  OBVIOUS
<1>2. DOMAIN (q \o m) = 1..(Len(q) + Len(m))
  BY <1>1
<1>3. \A i \in 1..Len(q) : (q \o m)[i] = q[i]
  BY <1>1
<1>4. \A i \in 1..Len(m) : (q \o m)[Len(q) + i] = m[i]
  BY <1>1
<1>5. \A i \in 1..(Len(q) + Len(m)) : i \in 1..Len(q) \/ i - Len(q) \in 1..Len(m)
  BY <1>1
<1>6. QED BY <1>1, <1>2, <1>3, <1>4, <1>5

\* What is read off a stream is what was put in front.
LEMMA Prepended ==
  ASSUME NEW S, NEW e \in S, NEW s \in Seq(S)
  PROVE  /\ <<e>> \o s \in Seq(S) /\ <<e>> \o s # <<>>
         /\ Head(<<e>> \o s) = e /\ (<<e>> \o s)[1] = e
         /\ Tail(<<e>> \o s) = s
<1> DEFINE q == <<e>> \o s
<1>1. /\ <<e>> \in Seq(S) /\ Len(<<e>>) = 1 /\ <<e>>[1] = e /\ Len(s) \in Nat
  OBVIOUS
<1>2. /\ q \in Seq(S) /\ Len(q) = 1 + Len(s)
      /\ \A i \in 1 .. (1 + Len(s)) : q[i] = IF i <= 1 THEN <<e>>[i] ELSE s[i - 1]
  BY <1>1, ConcatProperties
<1> HIDE DEF q
<1>3. q # <<>> /\ q[1] = e
  BY <1>1, <1>2
<1>4. /\ Head(q) = q[1] /\ Tail(q) \in Seq(S) /\ Len(Tail(q)) = Len(q) - 1
      /\ \A i \in 1..(Len(q) - 1) : Tail(q)[i] = q[i + 1]
  BY <1>2, <1>3
<1>5. Len(Tail(q)) = Len(s) /\ \A i \in 1..Len(Tail(q)) : Tail(q)[i] = s[i]
  BY <1>1, <1>2, <1>4
<1>6. Tail(q) = s
  BY <1>4, <1>5, SeqEqual
<1>7. QED BY <1>2, <1>3, <1>4, <1>6 DEF q

-----------------------------------------------------------------------------
(* Induction.                                                              *)

LEMMA Least ==
  ASSUME NEW T \in SUBSET Nat, T # {}
  PROVE  \E n \in T : \A m \in T : n <= m
<1> DEFINE R == OpToRel(<, Nat)
<1>1. IsWellFoundedOn(R, Nat)
  BY NatLessThanWellFounded
<1>2. \A m, n \in Nat : m < n => <<m, n>> \in R
  BY DEF OpToRel
<1> HIDE DEF R
<1>3. PICK n \in T : \A m \in T : ~(<<m, n>> \in R)
  BY <1>1, WFMin
<1>4. ASSUME NEW m \in T PROVE n <= m
  <2>1. m \in Nat /\ n \in Nat /\ ~(m < n)
    BY <1>2, <1>3
  <2>2. QED BY <2>1
<1>5. QED BY <1>4

LEMMA Induction ==
  ASSUME NEW N \in Nat, NEW T, 0 \in T, \A n \in 1..N : n - 1 \in T => n \in T
  PROVE  \A n \in 0..N : n \in T
<1> DEFINE Bad == {n \in 0..N : n \notin T}
<1>1. SUFFICES ASSUME Bad # {} PROVE FALSE
  OBVIOUS
<1>2. Bad \in SUBSET Nat
  OBVIOUS
<1>3. PICK n \in Bad : \A m \in Bad : n <= m
  BY <1>1, <1>2, Least
<1>4. n \in 1..N /\ n - 1 \in 0..N /\ ~(n <= n - 1)
  BY <1>3
<1>5. n - 1 \in T
  BY <1>3, <1>4
<1>6. QED BY <1>3, <1>4, <1>5

\* A loop over 1..N from a first value has a run.
LoopFrom(N, V, base, step) ==
  {f \in [0..N -> V] : f[0] = base /\ \A n \in 1..N : f[n] = step[<<n, f[n - 1]>>]}

LEMMA LoopRuns ==
  ASSUME NEW N \in Nat, NEW V, NEW base \in V, NEW step \in [(1..N) \X V -> V]
  PROVE  \E f : f \in LoopFrom(N, V, base, step)
<1> DEFINE Runs(f, m) == f[0] = base /\ \A n \in 1..m : f[n] = step[<<n, f[n - 1]>>]
           T == {m \in 0..N : \E f \in [0..N -> V] : Runs(f, m)}
<1>1. 0 \in T
  <2> DEFINE f == [i \in 0..N |-> base]
  <2>1. f \in [0..N -> V] /\ f[0] = base /\ 0 \in 0..N
    OBVIOUS
  <2> HIDE DEF f
  <2>2. Runs(f, 0)
    BY <2>1
  <2>3. QED BY <2>1, <2>2
<1>2. ASSUME NEW m \in 1..N, m - 1 \in T PROVE m \in T
  <2>1. PICK f \in [0..N -> V] : Runs(f, m - 1)
    BY <1>2
  <2> DEFINE g == [f EXCEPT ![m] = step[<<m, f[m - 1]>>]]
  <2>2. m - 1 \in 0..N /\ m \in 0..N
    OBVIOUS
  <2>3. f[m - 1] \in V /\ <<m, f[m - 1]>> \in (1..N) \X V
    BY <2>2
  <2>4. step[<<m, f[m - 1]>>] \in V
    BY <2>3
  <2>5. g \in [0..N -> V] /\ g[m] = step[<<m, f[m - 1]>>] /\ \A i \in 0..(m - 1) : g[i] = f[i]
    BY <2>2, <2>4
  <2> HIDE DEF g
  <2>6. g[0] = base
    BY <2>1, <2>5
  <2>7. ASSUME NEW n \in 1..m PROVE g[n] = step[<<n, g[n - 1]>>]
    <3>1. CASE n = m
      <4>1. g[m - 1] = f[m - 1]
        BY <2>5
      <4>2. QED BY <2>5, <3>1, <4>1
    <3>2. CASE n # m
      <4>1. n \in 1..(m - 1) /\ n \in 0..(m - 1) /\ n - 1 \in 0..(m - 1)
        BY <3>2
      <4>2. QED BY <2>1, <2>5, <4>1
    <3>3. QED BY <3>1, <3>2
  <2>8. QED BY <2>2, <2>5, <2>6, <2>7
<1> HIDE DEF T
<1>3. N \in T
  <2>1. \A n \in 0..N : n \in T
    BY <1>1, <1>2, Induction
  <2>2. QED BY <2>1
<1>4. PICK f \in [0..N -> V] : Runs(f, N)
  BY <1>3 DEF T
<1>5. QED BY <1>4 DEF LoopFrom

-----------------------------------------------------------------------------
(* The order of the members.                                               *)

Ahead(q, a, b) == \E m, n \in DOMAIN q : m < n /\ q[m] = a /\ q[n] = b

\* The members at some of the positions of a queue, in their order.
LEMMA Picked ==
  ASSUME NEW S, NEW q \in Seq(S), NEW r \in Seq(S), Once(q),
         NEW at \in [1..Len(r) -> 1..Len(q)],
         \A i, j \in 1..Len(r) : i < j => at[i] < at[j],
         \A i \in 1..Len(r) : r[i] = q[at[i]]
  PROVE  /\ Once(r)
         /\ \A u : Queues(r, u) => Queues(q, u)
         /\ \A a, b : Ahead(r, a, b) => Ahead(q, a, b)
         /\ \A a, b : Ahead(q, a, b) /\ Queues(r, a) /\ Queues(r, b) => Ahead(r, a, b)
<1>1. DOMAIN q = 1..Len(q) /\ DOMAIN r = 1..Len(r) /\ Len(r) \in Nat /\ Len(q) \in Nat
  OBVIOUS
<1>2. Once(r)
  <2> SUFFICES ASSUME NEW i \in 1..Len(r), NEW j \in 1..Len(r), r[i] = r[j] PROVE i = j
    BY <1>1 DEF Once
  <2>1. at[i] = at[j]
    BY <1>1 DEF Once
  <2>2. at[i] \in Nat /\ at[j] \in Nat /\ ~(at[i] < at[j]) /\ ~(at[j] < at[i])
    BY <1>1, <2>1
  <2>3. ~(i < j) /\ ~(j < i)
    BY <2>2
  <2>4. QED BY <1>1, <2>3
<1>3. ASSUME NEW u, Queues(r, u) PROVE Queues(q, u)
  BY <1>1, <1>3 DEF Queues
<1>4. ASSUME NEW a, NEW b, Ahead(r, a, b) PROVE Ahead(q, a, b)
  <2>1. PICK m \in 1..Len(r), n \in 1..Len(r) : m < n /\ r[m] = a /\ r[n] = b
    BY <1>1, <1>4 DEF Ahead
  <2>2. at[m] \in DOMAIN q /\ at[n] \in DOMAIN q /\ at[m] < at[n] /\ q[at[m]] = a /\ q[at[n]] = b
    BY <1>1, <2>1
  <2>3. QED BY <2>2 DEF Ahead
<1>5. ASSUME NEW a, NEW b, Ahead(q, a, b), Queues(r, a), Queues(r, b) PROVE Ahead(r, a, b)
  <2>1. PICK m \in 1..Len(r), n \in 1..Len(r) : r[m] = a /\ r[n] = b
    BY <1>1, <1>5 DEF Queues
  <2>2. PICK k \in 1..Len(q), l \in 1..Len(q) : k < l /\ q[k] = a /\ q[l] = b
    BY <1>1, <1>5 DEF Ahead
  <2>3. at[m] = k /\ at[n] = l
    <3>1. at[m] \in DOMAIN q /\ q[at[m]] = a /\ at[n] \in DOMAIN q /\ q[at[n]] = b
      BY <1>1, <2>1
    <3>2. k \in DOMAIN q /\ l \in DOMAIN q
      BY <1>1
    <3>3. QED BY <2>2, <3>1, <3>2 DEF Once
  <2>4. m # n /\ ~(n < m)
    BY <1>1, <2>2, <2>3
  <2>5. m < n
    BY <1>1, <2>4
  <2>6. QED BY <1>1, <2>1, <2>5 DEF Ahead
<1>6. QED BY <1>2, <1>3, <1>4, <1>5

LEMMA FirstRemoved ==
  ASSUME NEW S, NEW q \in Seq(S), Once(q), NEW e
  PROVE  /\ RemoveFirst(q, e) \in Seq(S) /\ Once(RemoveFirst(q, e))
         /\ Len(RemoveFirst(q, e)) = IF Queues(q, e) THEN Len(q) - 1 ELSE Len(q)
         /\ \A u : Queues(RemoveFirst(q, e), u) <=> u # e /\ Queues(q, u)
         /\ \A a, b : Ahead(RemoveFirst(q, e), a, b) <=> a # e /\ b # e /\ Ahead(q, a, b)
<1>1. DOMAIN q = 1..Len(q) /\ Len(q) \in Nat
  OBVIOUS
<1>2. CASE ~Queues(q, e)
  <2>1. RemoveFirst(q, e) = q
    BY <1>1, <1>2 DEF RemoveFirst, Queues
  <2>2. QED BY <1>2, <2>1 DEF Queues, Ahead
<1>3. CASE Queues(q, e)
  <2> DEFINE I == {i \in 1..Len(q) : q[i] = e}
             k == CHOOSE x \in I : \A y \in I : x =< y
             r == RemoveAt(q, k)
  <2>1. I # {} /\ I \in SUBSET Nat
    BY <1>1, <1>3 DEF Queues
  <2>2. RemoveFirst(q, e) = r
    BY <2>1 DEF RemoveFirst, SelectInSeq, Min
  <2>3. \E x \in I : \A y \in I : x <= y
    BY <2>1, Least
  <2>4. k \in I
    BY <2>3
  <2> HIDE DEF k
  <2>5. k \in 1..Len(q) /\ q[k] = e
    BY <2>4
  <2>6. /\ r \in Seq(S) /\ Len(r) = Len(q) - 1
        /\ \A j \in 1..(Len(q) - 1) : r[j] = IF j < k THEN q[j] ELSE q[j + 1]
    BY <2>5, RemoveAtFacts
  <2>7. \A u : Queues(r, u) <=> u # e /\ Queues(q, u)
    BY <1>1, <2>5, LeaveQueue
  <2> HIDE DEF r
  <2> DEFINE at == [j \in 1..Len(r) |-> IF j < k THEN j ELSE j + 1]
  <2>8. /\ at \in [1..Len(r) -> 1..Len(q)]
        /\ \A i, j \in 1..Len(r) : i < j => at[i] < at[j]
        /\ \A i \in 1..Len(r) : r[i] = q[at[i]]
    BY <1>1, <2>5, <2>6
  <2> HIDE DEF at
  <2>9. /\ Once(r)
        /\ \A a, b : Ahead(r, a, b) => Ahead(q, a, b)
        /\ \A a, b : Ahead(q, a, b) /\ Queues(r, a) /\ Queues(r, b) => Ahead(r, a, b)
    BY <2>6, <2>8, Picked, ZenonT(60)
  <2>10. ASSUME NEW a, NEW b PROVE Ahead(r, a, b) <=> a # e /\ b # e /\ Ahead(q, a, b)
    <3>1. Ahead(r, a, b) => Queues(r, a) /\ Queues(r, b)
      BY DEF Ahead, Queues
    <3>2. Ahead(q, a, b) => Queues(q, a) /\ Queues(q, b)
      BY DEF Ahead, Queues
    <3>3. QED BY <2>7, <2>9, <3>1, <3>2
  <2>11. QED BY <1>3, <2>2, <2>6, <2>7, <2>9, <2>10
<1>4. QED BY <1>2, <1>3

LEMMA EndAdded ==
  ASSUME NEW S, NEW q \in Seq(S), Once(q), NEW e \in S, ~Queues(q, e)
  PROVE  /\ Append(q, e) \in Seq(S) /\ Once(Append(q, e)) /\ Len(Append(q, e)) = Len(q) + 1
         /\ \A u : Queues(Append(q, e), u) <=> u = e \/ Queues(q, u)
         /\ \A a, b : Ahead(Append(q, e), a, b) <=> Ahead(q, a, b) \/ (b = e /\ Queues(q, a))
<1> DEFINE r == Append(q, e)
<1>1. /\ r \in Seq(S) /\ Once(r) /\ \A u : Queues(r, u) <=> u = e \/ Queues(q, u)
  BY JoinQueue
<1>2. /\ Len(q) \in Nat /\ DOMAIN q = 1..Len(q) /\ Len(r) = Len(q) + 1
      /\ DOMAIN r = 1..(Len(q) + 1) /\ r[Len(q) + 1] = e
      /\ \A i \in 1..Len(q) : r[i] = q[i]
  BY WriteEnd
<1> HIDE DEF r
<1>3. ASSUME NEW a, NEW b, Ahead(r, a, b) PROVE Ahead(q, a, b) \/ (b = e /\ Queues(q, a))
  <2>1. PICK m \in 1..(Len(q) + 1), n \in 1..(Len(q) + 1) : m < n /\ r[m] = a /\ r[n] = b
    BY <1>2, <1>3 DEF Ahead
  <2>2. m \in 1..Len(q) /\ q[m] = a
    BY <1>2, <2>1
  <2>3. CASE n = Len(q) + 1
    BY <1>2, <2>1, <2>2, <2>3 DEF Queues
  <2>4. CASE n # Len(q) + 1
    <3>1. n \in 1..Len(q) /\ q[n] = b
      BY <1>2, <2>1, <2>4
    <3>2. QED BY <1>2, <2>1, <2>2, <3>1 DEF Ahead
  <2>5. QED BY <2>3, <2>4
<1>4. ASSUME NEW a, NEW b, Ahead(q, a, b) PROVE Ahead(r, a, b)
  <2>1. PICK m \in 1..Len(q), n \in 1..Len(q) : m < n /\ q[m] = a /\ q[n] = b
    BY <1>2, <1>4 DEF Ahead
  <2>2. m \in DOMAIN r /\ n \in DOMAIN r /\ r[m] = a /\ r[n] = b
    BY <1>2, <2>1
  <2>3. QED BY <2>1, <2>2 DEF Ahead
<1>5. ASSUME NEW a, Queues(q, a) PROVE Ahead(r, a, e)
  <2>1. PICK m \in 1..Len(q) : q[m] = a
    BY <1>2, <1>5 DEF Queues
  <2>2. m \in DOMAIN r /\ Len(q) + 1 \in DOMAIN r /\ m < Len(q) + 1 /\ r[m] = a
    BY <1>2, <2>1
  <2>3. QED BY <1>2, <2>2 DEF Ahead
<1>6. QED BY <1>1, <1>2, <1>3, <1>4, <1>5 DEF r

LEMMA MovedToEnd ==
  ASSUME NEW S, NEW q \in Seq(S), Once(q), NEW e \in S
  PROVE  LET r == Append(RemoveFirst(q, e), e)
         IN  /\ r \in Seq(S) /\ Once(r)
             /\ Len(r) = IF Queues(q, e) THEN Len(q) ELSE Len(q) + 1
             /\ \A u : Queues(r, u) <=> u = e \/ Queues(q, u)
             /\ \A a, b : Ahead(r, a, b) <=> \/ a # e /\ b # e /\ Ahead(q, a, b)
                                             \/ a # e /\ b = e /\ Queues(q, a)
<1> DEFINE p == RemoveFirst(q, e)
           r == Append(p, e)
<1>1. /\ p \in Seq(S) /\ Once(p) /\ Len(p) = IF Queues(q, e) THEN Len(q) - 1 ELSE Len(q)
      /\ \A u : Queues(p, u) <=> u # e /\ Queues(q, u)
      /\ \A a, b : Ahead(p, a, b) <=> a # e /\ b # e /\ Ahead(q, a, b)
  BY FirstRemoved
<1> HIDE DEF p
<1>2. ~Queues(p, e) /\ Len(q) \in Nat
  BY <1>1
<1>3. /\ r \in Seq(S) /\ Once(r) /\ Len(r) = Len(p) + 1
      /\ \A u : Queues(r, u) <=> u = e \/ Queues(p, u)
      /\ \A a, b : Ahead(r, a, b) <=> Ahead(p, a, b) \/ (b = e /\ Queues(p, a))
  BY <1>1, <1>2, EndAdded
<1> HIDE DEF r
<1>4. Len(r) = IF Queues(q, e) THEN Len(q) ELSE Len(q) + 1
  BY <1>1, <1>2, <1>3
<1>5. \A u : Queues(r, u) <=> u = e \/ Queues(q, u)
  BY <1>1, <1>3
<1>6. \A a, b : Ahead(r, a, b) <=> \/ a # e /\ b # e /\ Ahead(q, a, b)
                                   \/ a # e /\ b = e /\ Queues(q, a)
  BY <1>1, <1>3
<1>7. QED BY <1>3, <1>4, <1>5, <1>6 DEF r, p

LEMMA FrontRemoved ==
  ASSUME NEW S, NEW q \in Seq(S), Once(q), q # <<>>
  PROVE  /\ Tail(q) \in Seq(S) /\ Once(Tail(q)) /\ Len(Tail(q)) = Len(q) - 1
         /\ Queues(q, Head(q)) /\ Head(q) \in S
         /\ \A u : Queues(Tail(q), u) <=> u # Head(q) /\ Queues(q, u)
         /\ \A u : Queues(Tail(q), u) => Ahead(q, Head(q), u)
         /\ \A a, b : Ahead(Tail(q), a, b) => Ahead(q, a, b)
<1> DEFINE r == Tail(q)
           at == [i \in 1..Len(r) |-> i + 1]
<1>1. /\ Len(q) \in Nat /\ Len(q) >= 1 /\ DOMAIN q = 1..Len(q)
      /\ Head(q) = q[1] /\ q[1] \in S /\ 1 \in DOMAIN q
      /\ r \in Seq(S) /\ Len(r) = Len(q) - 1 /\ DOMAIN r = 1..(Len(q) - 1)
      /\ \A i \in 1..(Len(q) - 1) : r[i] = q[i + 1] /\ i + 1 \in DOMAIN q
  BY ReadFront
<1> HIDE DEF r
<1>2. /\ at \in [1..Len(r) -> 1..Len(q)]
      /\ \A i, j \in 1..Len(r) : i < j => at[i] < at[j]
      /\ \A i \in 1..Len(r) : r[i] = q[at[i]]
  BY <1>1
<1> HIDE DEF at
<1>3. /\ Once(r) /\ \A a, b : Ahead(r, a, b) => Ahead(q, a, b)
  <2>1. r \in Seq(S)
    BY <1>1
  <2>2. QED BY <1>2, <2>1, Picked
<1>4. ASSUME NEW u, Queues(r, u) PROVE u # Head(q) /\ Queues(q, u) /\ Ahead(q, Head(q), u)
  <2>1. PICK i \in 1..(Len(q) - 1) : r[i] = u
    BY <1>1, <1>4 DEF Queues
  <2>2. i + 1 \in DOMAIN q /\ q[i + 1] = u /\ 1 < i + 1
    BY <1>1, <2>1
  <2>3. u # q[1]
    BY <1>1, <2>2 DEF Once
  <2>4. QED BY <1>1, <2>2, <2>3 DEF Queues, Ahead
<1>5. ASSUME NEW u, Queues(q, u), u # Head(q) PROVE Queues(r, u)
  <2>1. PICK i \in 1..Len(q) : q[i] = u
    BY <1>1, <1>5 DEF Queues
  <2>2. i - 1 \in 1..(Len(q) - 1) /\ (i - 1) + 1 = i
    BY <1>1, <1>5, <2>1
  <2>3. r[i - 1] = u
    BY <1>1, <2>1, <2>2
  <2>4. QED BY <1>1, <2>2, <2>3 DEF Queues
<1>6. Queues(q, Head(q))
  BY <1>1 DEF Queues
<1>7. QED BY <1>1, <1>3, <1>4, <1>5, <1>6 DEF r

\* The members from position c + 1 on.
LEMMA BackKept ==
  ASSUME NEW S, NEW q \in Seq(S), Once(q), NEW c \in 0..Len(q)
  PROVE  LET r == SubSeq(q, c + 1, Len(q))
         IN  /\ r \in Seq(S) /\ Once(r) /\ Len(r) = Len(q) - c
             /\ \A u : Queues(r, u) => Queues(q, u)
             /\ \A a, b : Ahead(r, a, b) => Ahead(q, a, b)
             /\ \A u, v : Queues(q, u) /\ ~Queues(r, u) /\ Queues(r, v) => c > 0 /\ Ahead(q, u, v)
             /\ \A u : Queues(q, u) /\ ~Queues(r, u) => c > 0
<1> DEFINE r == SubSeq(q, c + 1, Len(q))
           at == [i \in 1..(Len(q) - c) |-> c + i]
<1>1. /\ r \in Seq(S) /\ Len(r) = Len(q) - c /\ Len(q) \in Nat /\ DOMAIN q = 1..Len(q)
      /\ \A i \in 1..(Len(q) - c) : r[i] = q[c + i]
  OBVIOUS
<1> HIDE DEF r
<1>2. DOMAIN r = 1..(Len(q) - c)
  BY <1>1
<1>3. /\ at \in [1..Len(r) -> 1..Len(q)]
      /\ \A i, j \in 1..Len(r) : i < j => at[i] < at[j]
      /\ \A i \in 1..Len(r) : r[i] = q[at[i]]
  BY <1>1
<1> HIDE DEF at
<1>4. /\ Once(r)
      /\ \A u : Queues(r, u) => Queues(q, u)
      /\ \A a, b : Ahead(r, a, b) => Ahead(q, a, b)
  BY <1>1, <1>3, Picked, ZenonT(60)
<1>5. ASSUME NEW u, Queues(q, u), ~Queues(r, u)
      PROVE  \E k \in 1..c : q[k] = u
  <2>1. PICK k \in 1..Len(q) : q[k] = u
    BY <1>1, <1>5 DEF Queues
  <2>2. CASE k <= c
    BY <2>1, <2>2
  <2>3. CASE ~(k <= c)
    <3>1. k - c \in 1..(Len(q) - c) /\ c + (k - c) = k
      BY <2>3
    <3>2. r[k - c] = u
      BY <1>1, <2>1, <3>1
    <3>3. QED BY <1>2, <1>5, <3>1, <3>2 DEF Queues
  <2>4. QED BY <2>2, <2>3
<1>6. ASSUME NEW u, NEW v, Queues(q, u), ~Queues(r, u), Queues(r, v)
      PROVE  c > 0 /\ Ahead(q, u, v)
  <2>1. PICK k \in 1..c : q[k] = u
    BY <1>5, <1>6
  <2>2. PICK i \in 1..(Len(q) - c) : r[i] = v
    BY <1>2, <1>6 DEF Queues
  <2>3. k \in 1..Len(q) /\ c + i \in 1..Len(q) /\ k < c + i /\ q[c + i] = v
    BY <1>1, <2>2
  <2>4. Ahead(q, u, v)
    BY <1>1, <2>1, <2>3 DEF Ahead
  <2>5. c > 0
    BY <2>1
  <2>6. QED BY <2>4, <2>5
<1>7. ASSUME NEW u, Queues(q, u), ~Queues(r, u) PROVE c > 0
  <2>1. PICK k \in 1..c : q[k] = u
    BY <1>5, <1>7
  <2>2. QED BY <2>1
<1>8. QED BY <1>1, <1>4, <1>6, <1>7 DEF r

\* What retain leaves: the positions of the other keys, in their order.
LEMMA RetainFacts ==
  ASSUME NEW K, NEW q \in Seq(K), NEW S
  PROVE  LET r == Retain(q, S)
         IN  /\ r \in Seq(K) /\ Len(r) <= Len(q)
             /\ \A u : Queues(r, u) <=> u \notin S /\ Queues(q, u)
             /\ Once(q) => Once(r) /\ \A a, b : Ahead(r, a, b) => Ahead(q, a, b)
<1> DEFINE N == Len(q)
           Loop(g) == [n \in 0..Len(q) |->
                         IF n = 0 THEN <<>>
                         ELSE IF q[n] \in S THEN g[n - 1] ELSE Append(g[n - 1], q[n])]
           kept == CHOOSE g : g = Loop(g)
<1>1. Retain(q, S) = kept[N]
  BY DEF Retain
<1>2. N \in Nat /\ DOMAIN q = 1..N /\ \A n \in 1..N : q[n] \in K
  OBVIOUS
\* The recursion has a solution.
<1>3. kept = Loop(kept)
  <2> DEFINE V == Seq(K)
             step == [p \in (1..N) \X V |-> IF q[p[1]] \in S THEN p[2] ELSE Append(p[2], q[p[1]])]
  <2>1. <<>> \in V
    OBVIOUS
  <2>2. step \in [(1..N) \X V -> V]
    BY <1>2
  <2>3. \A n \in 1..N, v \in V : step[<<n, v>>] = IF q[n] \in S THEN v ELSE Append(v, q[n])
    OBVIOUS
  <2> HIDE DEF step, V, N
  <2> DEFINE base == <<>>
  <2>4. base \in V
    BY <2>1
  <2> HIDE DEF base
  <2>5. N \in Nat
    BY <1>2
  <2>6. PICK f : f \in LoopFrom(N, V, base, step)
    BY <2>2, <2>4, <2>5, LoopRuns
  <2>7. f \in [0..N -> V] /\ f[0] = <<>> /\ \A n \in 1..N : f[n] = step[<<n, f[n - 1]>>]
    BY <2>6 DEF LoopFrom, base
  <2>8. ASSUME NEW n \in 0..N
        PROVE  f[n] = IF n = 0 THEN <<>> ELSE IF q[n] \in S THEN f[n - 1] ELSE Append(f[n - 1], q[n])
    <3>1. CASE n = 0
      BY <2>7, <3>1
    <3>2. CASE n # 0
      <4>1. n \in 1..N /\ n - 1 \in 0..N
        BY <1>2, <3>2
      <4>2. f[n] = step[<<n, f[n - 1]>>] /\ f[n - 1] \in V
        BY <2>7, <4>1
      <4> QED  BY <2>3, <3>2, <4>1, <4>2
    <3> QED  BY <3>1, <3>2
  <2>9. f = Loop(f)
    BY <2>7, <2>8 DEF N
  <2> HIDE DEF Loop
  <2> QED BY <2>9
<1>4. /\ kept[0] = <<>>
      /\ \A n \in 1..N : kept[n] = IF q[n] \in S THEN kept[n - 1] ELSE Append(kept[n - 1], q[n])
  <2> HIDE DEF kept
  <2>1. \A n \in 0..N : kept[n] = IF n = 0 THEN <<>>
                                  ELSE IF q[n] \in S THEN kept[n - 1] ELSE Append(kept[n - 1], q[n])
    BY <1>3
  <2>2. 0 \in 0..N /\ \A n \in 1..N : n \in 0..N /\ n # 0
    BY <1>2
  <2> QED BY <2>1, <2>2
<1> HIDE DEF kept, N
\* What it has kept after n positions.
<1> DEFINE Marks(n, at) ==
             /\ at \in [1..Len(kept[n]) -> 1..n]
             /\ \A i, j \in 1..Len(kept[n]) : i < j => at[i] < at[j]
             /\ \A i \in 1..Len(kept[n]) : kept[n][i] = q[at[i]] /\ q[at[i]] \notin S
             /\ \A j \in 1..n : q[j] \notin S => \E i \in 1..Len(kept[n]) : at[i] = j
           T == {n \in 0..N : kept[n] \in Seq(K) /\ Len(kept[n]) <= n /\ \E at : Marks(n, at)}
<1>5. 0 \in T
  <2> DEFINE at == [i \in 1..0 |-> i]
  <2>1. kept[0] \in Seq(K) /\ Len(kept[0]) = 0 /\ 0 \in 0..N
    BY <1>2, <1>4
  <2>2. at \in [1..0 -> 1..0]
    OBVIOUS
  <2> HIDE DEF at
  <2>3. Marks(0, at)
    BY <2>1, <2>2
  <2> QED BY <2>1, <2>3
<1>6. ASSUME NEW n \in 1..N, n - 1 \in T PROVE n \in T
  <2>1. /\ n \in Nat /\ n >= 1 /\ n - 1 \in Nat /\ n \in 0..N /\ q[n] \in K
        /\ kept[n - 1] \in Seq(K) /\ Len(kept[n - 1]) <= n - 1
    BY <1>2, <1>6
  <2>2. PICK at : Marks(n - 1, at)
    BY <1>6
  <2>3. CASE q[n] \in S
    <3>1. kept[n] = kept[n - 1]
      BY <1>4, <2>3
    <3>2. \A j \in 1..n : q[j] \notin S => j \in 1..(n - 1)
      BY <2>1, <2>3
    <3>3. 1..(n - 1) \subseteq 1..n
      BY <2>1
    <3>4. Marks(n, at)
      <4>1. at \in [1..Len(kept[n]) -> 1..n]
        BY <2>2, <3>1, <3>3
      <4>2. \A j \in 1..n : q[j] \notin S => \E i \in 1..Len(kept[n]) : at[i] = j
        BY <2>2, <3>1, <3>2
      <4> QED  BY <2>2, <3>1, <4>1, <4>2
    <3>5. Len(kept[n]) <= n
      BY <2>1, <3>1
    <3> QED  BY <2>1, <3>1, <3>4, <3>5
  <2>4. CASE q[n] \notin S
    <3> DEFINE l == Len(kept[n - 1])
               bt == [i \in 1..(l + 1) |-> IF i = l + 1 THEN n ELSE at[i]]
    <3>1. kept[n] = Append(kept[n - 1], q[n])
      BY <1>4, <2>4
    <3>2. /\ kept[n] \in Seq(K) /\ Len(kept[n]) = l + 1 /\ l \in Nat /\ l <= n - 1
          /\ kept[n][l + 1] = q[n] /\ \A i \in 1..l : kept[n][i] = kept[n - 1][i]
      BY <2>1, <3>1
    <3> HIDE DEF l
    <3>3. /\ at \in [1..l -> 1..(n - 1)]
          /\ \A i, j \in 1..l : i < j => at[i] < at[j]
          /\ \A i \in 1..l : kept[n - 1][i] = q[at[i]] /\ q[at[i]] \notin S
          /\ \A j \in 1..(n - 1) : q[j] \notin S => \E i \in 1..l : at[i] = j
      BY <2>2 DEF l
    <3>4. bt[l + 1] = n /\ \A i \in 1..l : bt[i] = at[i]
      BY <3>2
    <3>5. bt \in [1..(l + 1) -> 1..n]
      <4>1. \A i \in 1..(l + 1) : i # l + 1 => i \in 1..l
        BY <3>2
      <4>2. \A i \in 1..(l + 1) : (IF i = l + 1 THEN n ELSE at[i]) \in 1..n
        BY <2>1, <3>3, <4>1
      <4> QED  BY <4>2
    <3> HIDE DEF bt
    <3>6. ASSUME NEW i \in 1..(l + 1), NEW j \in 1..(l + 1), i < j PROVE bt[i] < bt[j]
      <4>1. i \in 1..l /\ at[i] \in 1..(n - 1)
        BY <3>2, <3>3, <3>6
      <4>2. CASE j = l + 1
        BY <2>1, <3>4, <4>1, <4>2
      <4>3. CASE j # l + 1
        <5>1. j \in 1..l
          BY <3>2, <4>3
        <5> QED  BY <3>3, <3>4, <3>6, <4>1, <5>1
      <4> QED  BY <4>2, <4>3
    <3>7. ASSUME NEW i \in 1..(l + 1) PROVE kept[n][i] = q[bt[i]] /\ q[bt[i]] \notin S
      <4>1. CASE i = l + 1
        BY <2>4, <3>2, <3>4, <4>1
      <4>2. CASE i # l + 1
        <5>1. i \in 1..l
          BY <3>2, <4>2
        <5> QED  BY <3>2, <3>3, <3>4, <5>1
      <4> QED  BY <4>1, <4>2
    <3>8. ASSUME NEW j \in 1..n, q[j] \notin S PROVE \E i \in 1..(l + 1) : bt[i] = j
      <4>1. CASE j = n
        <5>1. l + 1 \in 1..(l + 1)
          BY <3>2
        <5> QED  BY <3>4, <4>1, <5>1
      <4>2. CASE j # n
        <5>1. j \in 1..(n - 1)
          BY <2>1, <4>2
        <5>2. PICK i \in 1..l : at[i] = j
          BY <3>3, <3>8, <5>1
        <5>3. i \in 1..(l + 1)
          BY <3>2
        <5> QED  BY <3>4, <5>2, <5>3
      <4> QED  BY <4>1, <4>2
    <3>9. Marks(n, bt)
      BY <3>2, <3>5, <3>6, <3>7, <3>8
    <3>10. Len(kept[n]) <= n
      BY <2>1, <3>2
    <3> QED  BY <2>1, <3>2, <3>9, <3>10
  <2> QED BY <2>3, <2>4
<1>7. N \in T
  <2> HIDE DEF T
  <2>1. \A n \in 0..N : n \in T
    BY <1>2, <1>5, <1>6, Induction
  <2> QED BY <1>2, <2>1
<1> DEFINE r == kept[N]
<1>8. r \in Seq(K) /\ Len(r) <= N
  BY <1>7
<1>9. PICK at : Marks(N, at)
  BY <1>7
<1>10. /\ at \in [1..Len(r) -> 1..Len(q)]
       /\ \A i, j \in 1..Len(r) : i < j => at[i] < at[j]
       /\ \A i \in 1..Len(r) : r[i] = q[at[i]] /\ q[at[i]] \notin S
       /\ \A j \in 1..Len(q) : q[j] \notin S => \E i \in 1..Len(r) : at[i] = j
  BY <1>9 DEF N
<1> HIDE DEF r
<1>11. ASSUME Once(q) PROVE Once(r) /\ \A a, b : Ahead(r, a, b) => Ahead(q, a, b)
  <2>1. \A i \in 1..Len(r) : r[i] = q[at[i]]
    BY <1>10
  <2> QED BY <1>8, <1>10, <1>11, <2>1, Picked
<1>12. DOMAIN r = 1..Len(r) /\ DOMAIN q = 1..Len(q)
  BY <1>8
<1>13. ASSUME NEW u, Queues(r, u) PROVE u \notin S /\ Queues(q, u)
  BY <1>10, <1>12, <1>13 DEF Queues
<1>14. ASSUME NEW u, Queues(q, u), u \notin S PROVE Queues(r, u)
  <2>1. PICK j \in 1..Len(q) : q[j] = u
    BY <1>12, <1>14 DEF Queues
  <2>2. PICK i \in 1..Len(r) : at[i] = j
    BY <1>10, <1>14, <2>1
  <2> QED BY <1>10, <1>12, <2>1, <2>2 DEF Queues
<1> QED BY <1>1, <1>8, <1>11, <1>13, <1>14 DEF r, N

\* A queue whose members are in it once has as many positions as members.
LEMMA OnceCounts ==
  ASSUME NEW S, NEW q \in Seq(S), Once(q)
  PROVE  IsFiniteSet(ToSet(q)) /\ Cardinality(ToSet(q)) = Len(q)
<1>1. Len(q) \in Nat /\ DOMAIN q = 1..Len(q)
  OBVIOUS
<1>2. q \in [1..Len(q) -> ToSet(q)]
  BY <1>1 DEF ToSet
<1>3. q \in Surjection(1..Len(q), ToSet(q))
  BY <1>1, <1>2 DEF Surjection, ToSet
<1>4. q \in Injection(1..Len(q), ToSet(q))
  BY <1>1, <1>2 DEF Injection, IsInjective, Once
<1>5. IsFiniteSet(1..Len(q)) /\ Cardinality(1..Len(q)) = Len(q)
  <2>1. 1 \in Int /\ Len(q) \in Int
    BY <1>1
  <2>2. /\ IsFiniteSet(1..Len(q))
        /\ Cardinality(1..Len(q)) = IF 1 > Len(q) THEN 0 ELSE Len(q) - 1 + 1
    BY <2>1, FS_Interval
  <2>3. QED BY <1>1, <2>2
<1>6. QED BY <1>3, <1>4, <1>5, FS_Surjection

-----------------------------------------------------------------------------
(* The members of a sequence of sequences, one after the other.            *)

\* What FlattenSeq chooses.
FlatOf(q, f) == f = [i \in 1..Len(q) |-> IF i = 1 THEN q[i] ELSE f[i - 1] \o q[i]]

\* FlattenSeq takes the last of the sums it has chosen.
LEMMA FlattenUnfolded ==
  ASSUME NEW S, NEW q \in Seq(Seq(S)), Len(q) # 0
  PROVE  FlattenSeq(q) = (CHOOSE f : FlatOf(q, f))[Len(q)]
BY DEF FlattenSeq, FlatOf

\* The sums of the members of q from the front on.
SumsOf(S, q) == {g \in [0..Len(q) -> Seq(S)] :
                   g[0] = <<>> /\ \A n \in 1..Len(q) : g[n] = g[n - 1] \o q[n]}

\* There are such sums: they are a loop over q.
LEMMA SumsExist ==
  ASSUME NEW S, NEW q \in Seq(Seq(S))
  PROVE  \E g : g \in SumsOf(S, q)
<1> DEFINE step == [p \in (1..Len(q)) \X Seq(S) |-> p[2] \o q[p[1]]]
<1>1. Len(q) \in Nat /\ <<>> \in Seq(S)
  OBVIOUS
<1>2. step \in [(1..Len(q)) \X Seq(S) -> Seq(S)]
  <2>1. ASSUME NEW p \in (1..Len(q)) \X Seq(S) PROVE p[2] \o q[p[1]] \in Seq(S)
    <3>1. p[2] \in Seq(S) /\ p[1] \in 1..Len(q)
      OBVIOUS
    <3>2. q[p[1]] \in Seq(S)
      BY <3>1
    <3>3. QED BY <3>1, <3>2
  <2>2. QED BY <2>1
<1>3. \A n \in 1..Len(q), v \in Seq(S) : step[<<n, v>>] = v \o q[n]
  OBVIOUS
<1> HIDE DEF step
<1>4. PICK f : f \in LoopFrom(Len(q), Seq(S), <<>>, step)
  BY <1>1, <1>2, LoopRuns
<1>5. f \in [0..Len(q) -> Seq(S)] /\ f[0] = <<>> /\ \A n \in 1..Len(q) : f[n] = step[<<n, f[n - 1]>>]
  BY <1>4 DEF LoopFrom
<1>6. ASSUME NEW n \in 1..Len(q) PROVE f[n] = f[n - 1] \o q[n]
  <2>1. n - 1 \in 0..Len(q)
    BY <1>1
  <2>2. f[n - 1] \in Seq(S)
    BY <1>5, <2>1
  <2>3. QED BY <1>3, <1>5, <2>2
<1>7. QED BY <1>5, <1>6 DEF SumsOf

\* FlattenSeq is the last sum, whichever sums are taken.
LEMMA FlattenIsSum ==
  ASSUME NEW S, NEW q \in Seq(Seq(S)), NEW g \in SumsOf(S, q)
  PROVE  FlattenSeq(q) = g[Len(q)]
<1>0. /\ Len(q) \in Nat /\ g \in [0..Len(q) -> Seq(S)] /\ g[0] = <<>>
      /\ \A n \in 1..Len(q) : g[n] = g[n - 1] \o q[n]
  BY DEF SumsOf
<1>1. CASE Len(q) = 0
  <2>1. q = <<>>
    BY <1>1, EmptySeq
  <2>2. FlattenSeq(q) = q
    BY <1>1 DEF FlattenSeq
  <2>3. QED BY <1>0, <1>1, <2>1, <2>2
<1>2. CASE Len(q) # 0
  <2> DEFINE F == CHOOSE f : FlatOf(q, f)
             h == [i \in 1..Len(q) |-> g[i]]
  <2>1. FlatOf(q, h)
    <3>1. ASSUME NEW i \in 1..Len(q) PROVE h[i] = IF i = 1 THEN q[i] ELSE h[i - 1] \o q[i]
      <4>1. CASE i = 1
        <5>0. 1 \in 1..Len(q) /\ 1 - 1 = 0
          BY <1>0, <1>2
        <5>1. g[1] = <<>> \o q[1] /\ q[1] \in Seq(S)
          <6>1. g[1] = g[1 - 1] \o q[1]
            BY <1>0, <5>0
          <6>2. QED BY <1>0, <5>0, <6>1
        <5>2. <<>> \o q[1] = q[1]
          BY <5>1, ConcatEmptySeq
        <5>3. QED BY <4>1, <5>1, <5>2
      <4>2. CASE i # 1
        <5>1. i - 1 \in 1..Len(q)
          BY <1>0, <4>2
        <5>2. QED BY <1>0, <4>2, <5>1
      <4>3. QED BY <4>1, <4>2
    <3>2. QED BY <3>1 DEF FlatOf
  <2>2. FlatOf(q, F)
    BY <2>1
  <2>3. FlattenSeq(q) = F[Len(q)]
    BY <1>2, FlattenUnfolded
  <2> HIDE DEF F
  <2>4. \A i \in 1..Len(q) : F[i] = IF i = 1 THEN q[i] ELSE F[i - 1] \o q[i]
    BY <2>2 DEF FlatOf
  <2> DEFINE T == {n \in 0..Len(q) : n = 0 \/ F[n] = g[n]}
  <2>5. 0 \in T
    BY <1>0
  <2>6. ASSUME NEW n \in 1..Len(q), n - 1 \in T PROVE n \in T
    <3>1. CASE n = 1
      <4>0. 1 \in 1..Len(q) /\ 1 - 1 = 0
        BY <1>0, <1>2
      <4>1. g[1] = <<>> \o q[1] /\ q[1] \in Seq(S)
        <5>1. g[1] = g[1 - 1] \o q[1]
          BY <1>0, <4>0
        <5>2. QED BY <1>0, <4>0, <5>1
      <4>2. <<>> \o q[1] = q[1]
        BY <4>1, ConcatEmptySeq
      <4>3. QED BY <2>4, <3>1, <4>1, <4>2
    <3>2. CASE n # 1
      <4>1. n - 1 # 0
        BY <3>2
      <4>2. F[n - 1] = g[n - 1]
        BY <2>6, <4>1
      <4>3. F[n] = F[n - 1] \o q[n]
        BY <2>4, <3>2
      <4>4. g[n] = g[n - 1] \o q[n]
        BY <1>0
      <4>5. n \in 0..Len(q)
        BY <1>0
      <4>6. QED BY <4>2, <4>3, <4>4, <4>5
    <3>3. QED BY <3>1, <3>2
  <2> HIDE DEF T
  <2>7. Len(q) \in T
    <3>1. \A n \in 0..Len(q) : n \in T
      BY <1>0, <2>5, <2>6, Induction
    <3>2. QED BY <1>0, <3>1
  <2>8. QED BY <1>2, <2>3, <2>7 DEF T
<1>3. QED BY <1>1, <1>2

\* Another member at the end adds its own members at the end.
LEMMA FlattenAppend ==
  ASSUME NEW S, NEW q \in Seq(Seq(S)), NEW e \in Seq(S)
  PROVE  /\ FlattenSeq(q) \in Seq(S)
         /\ FlattenSeq(Append(q, e)) = FlattenSeq(q) \o e
<1> DEFINE r == Append(q, e)
<1>1. PICK g : g \in SumsOf(S, q)
  BY SumsExist
<1>2. /\ r \in Seq(Seq(S)) /\ Len(r) = Len(q) + 1 /\ r[Len(q) + 1] = e /\ Len(q) \in Nat
      /\ \A i \in 1..Len(q) : r[i] = q[i]
  OBVIOUS
<1> HIDE DEF r
<1>3. PICK h : h \in SumsOf(S, r)
  BY <1>2, SumsExist
<1>4. /\ g \in [0..Len(q) -> Seq(S)] /\ g[0] = <<>>
      /\ \A n \in 1..Len(q) : g[n] = g[n - 1] \o q[n]
  BY <1>1 DEF SumsOf
<1>5. /\ h \in [0..(Len(q) + 1) -> Seq(S)] /\ h[0] = <<>>
      /\ \A n \in 1..(Len(q) + 1) : h[n] = h[n - 1] \o r[n]
  BY <1>2, <1>3 DEF SumsOf
<1> DEFINE T == {n \in 0..Len(q) : h[n] = g[n]}
<1>6. 0 \in T
  BY <1>2, <1>4, <1>5
<1>7. ASSUME NEW n \in 1..Len(q), n - 1 \in T PROVE n \in T
  <2>1. n \in 1..(Len(q) + 1) /\ n \in 0..Len(q)
    BY <1>2
  <2>2. h[n] = h[n - 1] \o r[n] /\ g[n] = g[n - 1] \o q[n]
    BY <1>4, <1>5, <2>1
  <2>3. r[n] = q[n]
    BY <1>2
  <2>4. h[n - 1] = g[n - 1]
    BY <1>7
  <2>5. QED BY <2>1, <2>2, <2>3, <2>4
<1> HIDE DEF T
<1>8. Len(q) \in T
  <2>1. \A n \in 0..Len(q) : n \in T
    BY <1>2, <1>6, <1>7, Induction
  <2>2. QED BY <1>2, <2>1
<1>9. h[Len(q)] = g[Len(q)]
  BY <1>8 DEF T
<1>10. FlattenSeq(q) = g[Len(q)] /\ FlattenSeq(r) = h[Len(q) + 1]
  BY <1>1, <1>2, <1>3, FlattenIsSum
<1>11. h[Len(q) + 1] = h[Len(q)] \o e
  <2>1. Len(q) + 1 \in 1..(Len(q) + 1) /\ (Len(q) + 1) - 1 = Len(q)
    BY <1>2
  <2>2. QED BY <1>2, <1>5, <2>1
<1>12. g[Len(q)] \in Seq(S)
  BY <1>2, <1>4
<1>13. QED BY <1>9, <1>10, <1>11, <1>12 DEF r
=============================================================================
