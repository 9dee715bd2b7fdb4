--------------------------- MODULE MigratorProofs ---------------------------
(***************************************************************************)
(* Proofs about Migrator for any number of processes, versions, plans and  *)
(* every dialect: run_migrations returns Ok only when all its versions are *)
(* recorded (OkMeansApplied), the recorded versions are the oldest ones    *)
(* (RecordedIsPrefix, of programs that are InOrder), seeds are inserted    *)
(* once (SeedOnce, of programs that leave their SeedsAlone), and what is   *)
(* written to heal a rerun does (RerunHeals, of programs whose plan        *)
(* BuildsOnItself).                                                        *)
(*                                                                         *)
(* For the first two it does not matter what a database makes of an        *)
(* operation, only which statement comes after which.  MigInv says of      *)
(* every call what is recorded beside the versions it has still to do: a   *)
(* run has all its versions recorded or to do, goes up and skips none; a   *)
(* rollback goes down from the newest.  A call keeps this while others     *)
(* record versions; one that runs beside a rollback may lose it, and then  *)
(* "undoing" is among the marks.  PlaceInv adds where in its plan each     *)
(* call is, SeedInv what it has seen of the row it is about to insert, and *)
(* StandInv which tables are there whatever failed before.                 *)
(***************************************************************************)
EXTENDS Migrator, SequenceLemmas

Late     == InSql \ {"initializing", "loading"}   \* the versions to do are known
Ascends(s)  == \A i, j \in DOMAIN s : i < j => s[i] < s[j]
Descends(s) == \A i, j \in DOMAIN s : i < j => s[i] > s[j]
Orderly  == InOrder /\ marks \cap {"undoing", "order"} = {}

MigTypes ==
  /\ \E s \in Settings : plan = s.plan
  /\ pc \in [Procs -> Ready \cup InSql]
  /\ call \in [Procs -> {"none", "run", "apply", "rollback"}]
  /\ todo \in [Procs -> Seq(Nat)]
  /\ applied \in [Procs -> SUBSET Nat] /\ \A p \in Procs : IsFiniteSet(applied[p])
  /\ recorded \in SUBSET Nat /\ IsFiniteSet(recorded)

Shape(p) ==
  /\ pc[p] \in Ready <=> call[p] = "none"
  /\ pc[p] \in Late <=> todo[p] # <<>>
  /\ pc[p] \in {"initializing", "loading"} => call[p] = "run"

RunCovers(p) ==
  "undoing" \notin marks /\ call[p] = "run" /\ pc[p] \in Late =>
    ToSet(Registered[p]) \subseteq recorded \cup ToSet(todo[p])

OldestFirst(p) ==
  Orderly /\ call[p] \in {"run", "apply"} /\ pc[p] \in Late =>
    /\ Ascends(todo[p])
    /\ \A x \in ToSet(todo[p]), w \in DOMAIN plan : w < x => w \in recorded \cup ToSet(todo[p])

NewestFirst(p) ==
  Orderly /\ call[p] = "rollback" =>
    /\ Descends(todo[p])
    /\ \A w \in recorded : w \in ToSet(todo[p]) \/ \A x \in ToSet(todo[p]) : w < x

ProcOK(p) == Shape(p) /\ RunCovers(p) /\ OldestFirst(p) /\ NewestFirst(p)

UndoingIsMarked ==
  \A p, q \in Procs : p # q /\ call[p] = "rollback" /\ call[q] # "none" => "undoing" \in marks

MigInv ==
  /\ MigTypes
  /\ UndoingIsMarked
  /\ \A p \in Procs : ProcOK(p)
  /\ InOrder => RecordedIsPrefix

-----------------------------------------------------------------------------
(* rollback_all sorts the versions.                                        *)

LEMMA DescendingFacts ==
  ASSUME NEW S \in SUBSET Nat, IsFiniteSet(S)
  PROVE  Descending(S) \in Seq(Nat) /\ Descends(Descending(S)) /\ ToSet(Descending(S)) = S
<1> DEFINE N == Cardinality(S)
           Sorted(X, n, s) == s \in [1..n -> X] /\ \A i, j \in 1..n : i < j => s[i] > s[j]
           T == {n \in 0..N : \A X \in SUBSET S : Cardinality(X) = n => \E s : Sorted(X, n, s)}
<1>1. N \in Nat
  BY FS_CardinalityType
<1>2. \A X \in SUBSET S : IsFiniteSet(X) /\ Cardinality(X) \in Nat
  BY FS_Subset, FS_CardinalityType
<1> HIDE DEF N
<1>3. 0 \in T
  <2>1. ASSUME NEW X \in SUBSET S, Cardinality(X) = 0 PROVE \E s : Sorted(X, 0, s)
    <3>1. [i \in 1..0 |-> 0] \in [1..0 -> X]
      OBVIOUS
    <3>2. Sorted(X, 0, [i \in 1..0 |-> 0])
      BY <3>1
    <3>3. QED BY <3>2
  <2>2. 0 \in 0..N
    BY <1>1
  <2>3. QED BY <2>1, <2>2
<1>4. ASSUME NEW n \in 1..N, n - 1 \in T PROVE n \in T
  <2>1. n \in Nat /\ n - 1 \in Nat /\ n >= 1 /\ n \in 0..N
    BY <1>1
  <2>2. ASSUME NEW X \in SUBSET S, Cardinality(X) = n PROVE \E s : Sorted(X, n, s)
    <3>1. IsFiniteSet(X) /\ X \in SUBSET Nat
      BY <1>2
    <3>2. X # {}
      <4>1. Cardinality({}) = 0
        BY FS_EmptySet
      <4>2. SUFFICES ASSUME X = {} PROVE FALSE
        OBVIOUS
      <4>3. n = 0
        BY <2>2, <4>1, <4>2
      <4>4. QED BY <2>1, <4>3
    <3>3. PICK m \in X : \A x \in X : m <= x
      BY <3>1, <3>2, Least
    <3>4. Cardinality(X \ {m}) = n - 1
      BY <2>2, <3>1, <3>3, FS_RemoveElement
    <3>5. X \ {m} \in SUBSET S
      OBVIOUS
    <3>6. PICK t : Sorted(X \ {m}, n - 1, t)
      BY <1>4, <3>4, <3>5
    <3> DEFINE s == [i \in 1..n |-> IF i = n THEN m ELSE t[i]]
    <3>7. \A i \in 1..n : i # n => i \in 1..(n - 1) /\ t[i] \in X /\ t[i] # m
      BY <2>1, <3>6
    <3>8. s \in [1..n -> X] /\ s[n] = m /\ \A i \in 1..n : i # n => s[i] = t[i]
      BY <2>1, <3>3, <3>7
    <3> HIDE DEF s
    <3>9. ASSUME NEW i \in 1..n, NEW j \in 1..n, i < j PROVE s[i] > s[j]
      <4>1. i # n /\ s[i] = t[i] /\ t[i] \in X /\ t[i] # m
        BY <2>1, <3>7, <3>8, <3>9
      <4>2. CASE j = n
        <5>1. m <= t[i] /\ m \in Nat /\ t[i] \in Nat
          BY <3>1, <3>3, <4>1
        <5>2. QED BY <3>8, <4>1, <4>2, <5>1
      <4>3. CASE j # n
        <5>1. i \in 1..(n - 1) /\ j \in 1..(n - 1) /\ s[j] = t[j]
          BY <3>7, <3>8, <4>1, <4>3
        <5>2. t[i] > t[j]
          BY <3>6, <3>9, <5>1
        <5>3. QED BY <4>1, <5>1, <5>2
      <4>4. QED BY <4>2, <4>3
    <3>10. QED BY <3>8, <3>9
  <2>3. QED BY <2>1, <2>2
<1> HIDE DEF T
<1>5. N \in T
  <2>1. \A n \in 0..N : n \in T
    BY <1>1, <1>3, <1>4, Induction
  <2>2. QED BY <1>1, <2>1
<1>6. PICK t : Sorted(S, N, t)
  BY <1>5 DEF T, N
<1>7. t \in SetToSeqs(S) /\ DOMAIN t = 1..N
  <2>1. \A i, j \in 1..N : i # j => t[i] # t[j]
    <3>1. ASSUME NEW i \in 1..N, NEW j \in 1..N, i # j PROVE t[i] # t[j]
      <4>1. i < j \/ j < i
        BY <1>1, <3>1
      <4>2. t[i] > t[j] \/ t[j] > t[i]
        BY <1>6, <4>1
      <4>3. t[i] \in Nat /\ t[j] \in Nat
        BY <1>6
      <4>4. QED BY <4>2, <4>3
    <3>2. QED BY <3>1
  <2>2. QED BY <1>6, <2>1 DEF SetToSeqs, N
<1>8. \E s \in SetToSeqs(S) : \A i, j \in DOMAIN s : i < j => s[i] > s[j]
  BY <1>6, <1>7
<1> DEFINE d == Descending(S)
<1>9. d \in SetToSeqs(S) /\ Descends(d)
  BY <1>8 DEF Descending, Descends
<1> HIDE DEF d
<1>10. d \in [1..N -> S] /\ \A i, j \in 1..N : i # j => d[i] # d[j]
  BY <1>9 DEF SetToSeqs, N
<1>11. d \in Seq(Nat)
  <2>1. d \in [1..N -> Nat]
    BY <1>10
  <2>2. QED BY <1>1, <2>1
<1>12. d \in Injection(1..N, S)
  BY <1>10 DEF Injection, IsInjective
<1>13. IsFiniteSet(1..N) /\ Cardinality(1..N) = N
  <2>1. 1 \in Int /\ N \in Int
    BY <1>1
  <2>2. IsFiniteSet(1..N) /\ Cardinality(1..N) = IF 1 > N THEN 0 ELSE N - 1 + 1
    BY <2>1, FS_Interval
  <2>3. QED BY <1>1, <2>2
<1>14. d \in Surjection(1..N, S)
  BY <1>12, <1>13, FS_Injection DEF N
<1>15. ToSet(d) = S
  BY <1>10, <1>14 DEF Surjection, ToSet
<1>16. QED BY <1>9, <1>11, <1>15 DEF d

\* What lies at the front of the versions left, and what that leaves.
LEMMA FrontVersion ==
  ASSUME NEW q \in Seq(Nat), q # <<>>
  PROVE  /\ Head(q) \in Nat /\ Tail(q) \in Seq(Nat)
         /\ ToSet(q) = {Head(q)} \cup ToSet(Tail(q)) /\ ToSet(q) \subseteq Nat
         /\ Ascends(q) => Ascends(Tail(q)) /\ \A x \in ToSet(q) : Head(q) <= x
         /\ Descends(q) => Descends(Tail(q)) /\ \A x \in ToSet(q) : x <= Head(q)
<1> DEFINE r == Tail(q)
<1>1. /\ Len(q) \in Nat /\ Len(q) >= 1 /\ DOMAIN q = 1..Len(q)
      /\ Head(q) = q[1] /\ q[1] \in Nat /\ 1 \in DOMAIN q
      /\ r \in Seq(Nat) /\ Len(r) = Len(q) - 1 /\ DOMAIN r = 1..(Len(q) - 1)
      /\ \A i \in 1..(Len(q) - 1) : r[i] = q[i + 1] /\ i + 1 \in DOMAIN q
  BY ReadFront
<1>2. \A i \in DOMAIN q : q[i] \in Nat
  OBVIOUS
<1> HIDE DEF r
<1>3. \A i \in DOMAIN q : i = 1 \/ (i - 1 \in DOMAIN r /\ r[i - 1] = q[i])
  BY <1>1
<1>4. \A i \in DOMAIN r : i \in Int /\ r[i] = q[i + 1] /\ i + 1 \in DOMAIN q
  BY <1>1
<1>5. ToSet(q) = {Head(q)} \cup ToSet(r)
  <2>1. \A x \in ToSet(q) : x = Head(q) \/ x \in ToSet(r)
    <3>1. ASSUME NEW i \in DOMAIN q PROVE q[i] = Head(q) \/ q[i] \in ToSet(r)
      <4>1. CASE i = 1
        BY <1>1, <4>1
      <4>2. CASE i - 1 \in DOMAIN r /\ r[i - 1] = q[i]
        BY <4>2 DEF ToSet
      <4>3. QED BY <1>3, <4>1, <4>2
    <3>2. QED BY <3>1 DEF ToSet
  <2>2. \A x \in ToSet(r) : x \in ToSet(q)
    BY <1>4, Zenon DEF ToSet
  <2>3. Head(q) \in ToSet(q)
    BY <1>1 DEF ToSet
  <2>4. QED BY <2>1, <2>2, <2>3
<1>6. ToSet(q) \subseteq Nat
  BY <1>2 DEF ToSet
<1>7. ASSUME Ascends(q) PROVE Ascends(r) /\ \A x \in ToSet(q) : Head(q) <= x
  <2>1. \A i \in DOMAIN q : q[1] <= q[i]
    <3>1. ASSUME NEW i \in DOMAIN q PROVE q[1] <= q[i]
      <4>1. i = 1 \/ 1 < i
        BY <1>1
      <4>2. q[i] \in Nat /\ q[1] \in Nat
        BY <1>1, <1>2
      <4>3. 1 < i => q[1] < q[i]
        BY <1>1, <1>7 DEF Ascends
      <4>4. QED BY <4>1, <4>2, <4>3
    <3>2. QED BY <3>1
  <2>2. ASSUME NEW i \in DOMAIN r, NEW j \in DOMAIN r, i < j PROVE r[i] < r[j]
    <3>1. /\ i + 1 \in DOMAIN q /\ j + 1 \in DOMAIN q /\ i + 1 < j + 1
          /\ r[i] = q[i + 1] /\ r[j] = q[j + 1]
      BY <1>4, <2>2
    <3>2. QED BY <1>7, <3>1 DEF Ascends
  <2>3. QED BY <1>1, <2>1, <2>2 DEF Ascends, ToSet
<1>8. ASSUME Descends(q) PROVE Descends(r) /\ \A x \in ToSet(q) : x <= Head(q)
  <2>1. \A i \in DOMAIN q : q[i] <= q[1]
    <3>1. ASSUME NEW i \in DOMAIN q PROVE q[i] <= q[1]
      <4>1. i = 1 \/ 1 < i
        BY <1>1
      <4>2. q[i] \in Nat /\ q[1] \in Nat
        BY <1>1, <1>2
      <4>3. 1 < i => q[1] > q[i]
        BY <1>1, <1>8 DEF Descends
      <4>4. QED BY <4>1, <4>2, <4>3
    <3>2. QED BY <3>1
  <2>2. ASSUME NEW i \in DOMAIN r, NEW j \in DOMAIN r, i < j PROVE r[i] > r[j]
    <3>1. /\ i + 1 \in DOMAIN q /\ j + 1 \in DOMAIN q /\ i + 1 < j + 1
          /\ r[i] = q[i + 1] /\ r[j] = q[j + 1]
      BY <1>4, <2>2
    <3>2. QED BY <1>8, <3>1 DEF Descends
  <2>3. QED BY <1>1, <2>1, <2>2 DEF Descends, ToSet
<1>9. QED BY <1>1, <1>5, <1>6, <1>7, <1>8 DEF r

\* The pending versions of a run: those not recorded, in their order.
LEMMA PendingFacts ==
  ASSUME NEW q \in Seq(Nat), NEW S
  PROVE  /\ Retain(q, S) \in Seq(Nat)
         /\ ToSet(Retain(q, S)) = ToSet(q) \ S
         /\ Ascends(q) => Ascends(Retain(q, S))
<1> DEFINE r == Retain(q, S)
<1>1. /\ r \in Seq(Nat) /\ Len(r) <= Len(q)
      /\ \A u : Queues(r, u) <=> u \notin S /\ Queues(q, u)
      /\ Once(q) => Once(r) /\ \A a, b : Ahead(r, a, b) => Ahead(q, a, b)
  BY RetainFacts
<1> HIDE DEF r
<1>2. \A u : u \in ToSet(q) <=> Queues(q, u)
  BY DEF ToSet, Queues
<1>3. \A u : u \in ToSet(r) <=> Queues(r, u)
  BY DEF ToSet, Queues
<1>4. ToSet(r) = ToSet(q) \ S
  BY <1>1, <1>2, <1>3
<1>5. ASSUME Ascends(q) PROVE Ascends(r)
  <2>1. DOMAIN q = 1..Len(q) /\ Len(q) \in Nat /\ \A i \in DOMAIN q : q[i] \in Nat
    OBVIOUS
  <2>2. Once(q)
    <3>1. ASSUME NEW i \in DOMAIN q, NEW j \in DOMAIN q, q[i] = q[j], i # j PROVE FALSE
      <4>1. i < j \/ j < i
        BY <2>1, <3>1
      <4>2. q[i] < q[j] \/ q[j] < q[i]
        BY <1>5, <4>1 DEF Ascends
      <4>3. q[i] \in Nat /\ q[j] \in Nat
        BY <2>1
      <4>4. QED BY <3>1, <4>2, <4>3
    <3>2. QED BY <3>1 DEF Once
  <2>3. ASSUME NEW i \in DOMAIN r, NEW j \in DOMAIN r, i < j PROVE r[i] < r[j]
    <3>1. Ahead(r, r[i], r[j])
      BY <2>3 DEF Ahead
    <3>2. Ahead(q, r[i], r[j])
      BY <1>1, <2>2, <3>1
    <3>3. QED BY <1>5, <3>2 DEF Ahead, Ascends
  <2>4. QED BY <2>3 DEF Ascends
<1>6. QED BY <1>1, <1>4, <1>5 DEF r

-----------------------------------------------------------------------------
(* What a step of a process p does to its call and to what is recorded.    *)

Frame(p) ==
  /\ pc' \in [Procs -> Ready \cup InSql]
  /\ call' \in [Procs -> {"none", "run", "apply", "rollback"}]
  /\ todo' \in [Procs -> Seq(Nat)]
  /\ \A q \in Procs \ {p} : pc'[q] = pc[q] /\ call'[q] = call[q] /\ todo'[q] = todo[q]

Knows ==
  applied' \in [Procs -> SUBSET Nat] /\ \A q \in Procs : IsFiniteSet(applied'[q])

Rests(p) == pc'[p] \in Ready /\ call'[p] = "none" /\ todo'[p] = <<>>
Does(p, how, vs) == pc'[p] \in Late /\ call'[p] = how /\ todo'[p] = vs /\ vs # <<>>

\* Call how goes on with the versions vs; it ends with Ok only if there are none.
Proceeds(p, how, vs) == (Rests(p) /\ (pc'[p] = "idle" => vs = <<>>)) \/ Does(p, how, vs)

\* Between two statements of one version, or before the versions are known; a failure.
Continues(p) ==
  /\ recorded' = recorded
  /\ \/ Rests(p) /\ pc'[p] # "idle"
     \/ /\ {pc[p], pc'[p]} \subseteq InSql /\ (pc'[p] \in Late <=> pc[p] \in Late)
        /\ call'[p] = call[p] /\ todo'[p] = todo[p]

Loads(p) ==
  /\ recorded' = recorded /\ pc[p] = "loading"
  /\ Proceeds(p, "run", Retain(Registered[p], recorded))

Adds(p) ==
  /\ pc[p] \in Late /\ call[p] \in {"run", "apply"}
  /\ recorded' = recorded \cup {Head(todo[p])}
  /\ Proceeds(p, call[p], Tail(todo[p]))

Takes(p) ==
  /\ pc[p] \in Late /\ call[p] = "rollback"
  /\ recorded' = recorded \ {Head(todo[p])}
  /\ Proceeds(p, call[p], Tail(todo[p]))

Turn(p) ==
  /\ Frame(p) /\ Knows /\ plan' = plan /\ marks \subseteq marks'
  /\ Continues(p) \/ Loads(p) \/ Adds(p) \/ Takes(p)

LEMMA Ended ==
  ASSUME MigTypes, NEW p \in Procs, NEW how \in Ready, End(p, how)
  PROVE  Frame(p) /\ Rests(p) /\ pc'[p] = how
<1>1. /\ pc \in [Procs -> Ready \cup InSql]
      /\ call \in [Procs -> {"none", "run", "apply", "rollback"}]
      /\ todo \in [Procs -> Seq(Nat)]
  BY DEF MigTypes
<1>2. /\ pc' = [pc EXCEPT ![p] = how]
      /\ call' = [call EXCEPT ![p] = "none"]
      /\ todo' = [todo EXCEPT ![p] = <<>>]
  BY DEF End
<1>3. <<>> \in Seq(Nat)
  OBVIOUS
<1>4. /\ pc' \in [Procs -> Ready \cup InSql]
      /\ call' \in [Procs -> {"none", "run", "apply", "rollback"}]
      /\ todo' \in [Procs -> Seq(Nat)]
  BY <1>1, <1>2, <1>3
<1>5. pc'[p] = how /\ call'[p] = "none" /\ todo'[p] = <<>>
  BY <1>1, <1>2
<1>6. \A q \in Procs \ {p} : pc'[q] = pc[q] /\ call'[q] = call[q] /\ todo'[q] = todo[q]
  BY <1>1, <1>2
<1>7. QED BY <1>4, <1>5, <1>6 DEF Frame, Rests

LEMMA StatementIsLate ==
  ASSUME NEW how, NEW v, NEW i
  PROVE  Statement(how, v, i) \in Late
<1>1. \A o : FirstStatement(how, o) \in Late
  BY DEF FirstStatement, AfterCount, Late, InSql
<1>2. "recording" \in Late
  BY DEF Late, InSql
<1>3. QED BY <1>1, <1>2 DEF Statement

LEMMA Went ==
  ASSUME MigTypes, NEW p \in Procs, NEW how \in {"run", "apply", "rollback"},
         NEW vs \in Seq(Nat), NEW i, Goto(p, how, vs, i)
  PROVE  Frame(p) /\ Proceeds(p, how, vs)
<1>1. CASE vs = <<>>
  <2>1. End(p, "idle")
    BY <1>1 DEF Goto
  <2>2. Frame(p) /\ Rests(p)
    BY <2>1, Ended DEF Ready
  <2>3. QED BY <1>1, <2>2 DEF Proceeds
<1>2. CASE vs # <<>> /\ Head(vs) \notin ToSet(Registered[p])
  <2>1. End(p, "failed")
    BY <1>2 DEF Goto
  <2>2. Frame(p) /\ Rests(p) /\ pc'[p] = "failed"
    BY <2>1, Ended DEF Ready
  <2>3. QED BY <2>2 DEF Proceeds
<1>3. CASE vs # <<>> /\ Head(vs) \in ToSet(Registered[p])
  <2> DEFINE st == Statement(how, Head(vs), i)
  <2>1. /\ pc \in [Procs -> Ready \cup InSql]
        /\ call \in [Procs -> {"none", "run", "apply", "rollback"}]
        /\ todo \in [Procs -> Seq(Nat)]
    BY DEF MigTypes
  <2>2. st \in Late /\ st \in Ready \cup InSql
    BY StatementIsLate DEF Late
  <2>3. /\ pc' = [pc EXCEPT ![p] = st]
        /\ call' = [call EXCEPT ![p] = how]
        /\ todo' = [todo EXCEPT ![p] = vs]
    BY <1>3 DEF Goto
  <2> HIDE DEF st
  <2>4. /\ pc' \in [Procs -> Ready \cup InSql]
        /\ call' \in [Procs -> {"none", "run", "apply", "rollback"}]
        /\ todo' \in [Procs -> Seq(Nat)]
    BY <2>1, <2>2, <2>3
  <2>5. pc'[p] = st /\ call'[p] = how /\ todo'[p] = vs
    BY <2>1, <2>3
  <2>6. \A q \in Procs \ {p} : pc'[q] = pc[q] /\ call'[q] = call[q] /\ todo'[q] = todo[q]
    BY <2>1, <2>3
  <2>7. QED BY <1>3, <2>2, <2>4, <2>5, <2>6 DEF Frame, Proceeds, Does
<1>4. QED BY <1>1, <1>2, <1>3

\* A call that returns Err, with or without its connection.
LEMMA Stopped ==
  ASSUME MigTypes, NEW p \in Procs, Fail(p) \/ Drop(p)
  PROVE  /\ Frame(p) /\ Knows /\ marks \subseteq marks'
         /\ Rests(p) /\ pc'[p] # "idle"
<1>1. End(p, "failed") \/ End(p, "down")
  BY DEF Fail, Drop
<1>2. Frame(p) /\ Rests(p) /\ pc'[p] # "idle"
  <2>1. CASE End(p, "failed")
    BY <2>1, Ended DEF Ready
  <2>2. CASE End(p, "down")
    BY <2>2, Ended DEF Ready
  <2>3. QED BY <1>1, <2>1, <2>2
<1>3. marks \subseteq marks'
  BY DEF Fail, Drop, Tear
<1>4. Knows
  <2>1. applied \in [Procs -> SUBSET Nat] /\ \A q \in Procs : IsFiniteSet(applied[q])
    BY DEF MigTypes
  <2>2. CASE applied' = applied
    BY <2>1, <2>2 DEF Knows
  <2>3. CASE applied' = [applied EXCEPT ![p] = {}]
    <3>1. IsFiniteSet({})
      BY FS_EmptySet
    <3>2. applied' \in [Procs -> SUBSET Nat]
      BY <2>1, <2>3
    <3>3. \A q \in Procs : applied'[q] = {} \/ applied'[q] = applied[q]
      BY <2>1, <2>3
    <3>4. QED BY <2>1, <3>1, <3>2, <3>3 DEF Knows
  <2>4. QED BY <2>2, <2>3 DEF Fail, Drop
<1>5. QED BY <1>2, <1>3, <1>4

-----------------------------------------------------------------------------
(* Every statement of a call is such a step.                               *)

\* What a statement of p that has not run, or has lost its answer, leaves.
LEMMA LeavesIt ==
  ASSUME MigTypes, NEW p \in Procs, Fail(p) \/ Drop(p), plan' = plan,
         Continues(p) \/ Adds(p) \/ Takes(p)
  PROVE  Turn(p)
BY Stopped DEF Turn

\* At a statement of a version, which is the first of those left.
LEMMA AtWork ==
  ASSUME MigTypes, NEW p \in Procs, Shape(p), pc[p] \in Late
  PROVE  /\ pc[p] \in InSql /\ call[p] \in {"run", "apply", "rollback"}
         /\ todo[p] \in Seq(Nat) /\ todo[p] # <<>>
<1>1. pc[p] \in InSql /\ pc[p] \notin Ready
  BY DEF Late, InSql, Ready
<1>2. call[p] \in {"none", "run", "apply", "rollback"} /\ todo[p] \in Seq(Nat)
  BY DEF MigTypes
<1>3. QED BY <1>1, <1>2 DEF Shape

LEMMA SameApplied ==
  ASSUME MigTypes, applied' = applied
  PROVE  Knows
BY DEF MigTypes, Knows

\* The answer leads to the next operation, which keeps the call at its version.
LEMMA NextOpKeeps ==
  ASSUME MigTypes, NEW p \in Procs, Shape(p), pc[p] \in Late, NextOp(p),
         plan' = plan, recorded' = recorded, applied' = applied, marks' = marks
  PROVE  Turn(p)
<1>1. /\ pc[p] \in InSql /\ call[p] \in {"run", "apply", "rollback"}
      /\ todo[p] \in Seq(Nat) /\ todo[p] # <<>>
  BY AtWork
<1>2. Goto(p, call[p], todo[p], at[p] + 1)
  BY DEF NextOp
<1>3. Frame(p) /\ Proceeds(p, call[p], todo[p])
  BY <1>1, <1>2, Went
<1>4. Continues(p)
  <2>1. CASE Rests(p) /\ pc'[p] # "idle"
    BY <1>1, <2>1 DEF Continues
  <2>2. CASE Does(p, call[p], todo[p])
    BY <1>1, <2>2 DEF Continues, Does, Late
  <2>3. QED BY <1>1, <1>3, <2>1, <2>2 DEF Proceeds
<1>5. QED BY <1>3, <1>4, SameApplied DEF Turn

\* It only leads to another statement of the same operation.
LEMMA SameOp ==
  ASSUME MigTypes, NEW p \in Procs, Shape(p), NEW st \in InSql, pc[p] \in InSql,
         st \in Late <=> pc[p] \in Late, pc' = [pc EXCEPT ![p] = st],
         plan' = plan, recorded' = recorded, applied' = applied, marks' = marks,
         call' = call, todo' = todo
  PROVE  Turn(p)
<1>1. /\ pc \in [Procs -> Ready \cup InSql]
      /\ call \in [Procs -> {"none", "run", "apply", "rollback"}]
      /\ todo \in [Procs -> Seq(Nat)]
  BY DEF MigTypes
<1>2. pc' \in [Procs -> Ready \cup InSql] /\ pc'[p] = st
  BY <1>1
<1>3. \A q \in Procs \ {p} : pc'[q] = pc[q]
  BY <1>1
<1>4. Frame(p)
  BY <1>1, <1>2, <1>3 DEF Frame
<1>5. Continues(p)
  BY <1>2 DEF Continues
<1>6. QED BY <1>4, <1>5, SameApplied DEF Turn

LEMMA InitializeTurn ==
  ASSUME MigTypes, NEW p \in Procs, Shape(p), Initialize(p)
  PROVE  Turn(p)
<1>1. pc[p] = "initializing" /\ pc[p] \in InSql /\ plan' = plan /\ recorded' = recorded
  BY DEF Initialize, Send, dbVars, InSql
<1>2. CASE pc' = [pc EXCEPT ![p] = "loading"] /\ UNCHANGED <<call, todo, applied, marks>>
  <2>1. "loading" \in InSql /\ "loading" \notin Late /\ pc[p] \notin Late
    BY <1>1 DEF InSql, Late
  <2>2. QED BY <1>1, <1>2, <2>1, SameOp
<1>3. CASE Fail(p) \/ Drop(p)
  <2>1. Continues(p)
    BY <1>1, <1>3, Stopped DEF Continues
  <2>2. QED BY <1>1, <1>3, <2>1, LeavesIt
<1>4. QED BY <1>2, <1>3 DEF Initialize, Send

LEMMA LoadTurn ==
  ASSUME MigTypes, NEW p \in Procs, Shape(p), Load(p)
  PROVE  Turn(p)
<1>1. pc[p] = "loading" /\ pc[p] \in InSql /\ plan' = plan /\ recorded' = recorded
  BY DEF Load, Query, Send, dbVars, InSql
<1>2. CASE /\ applied' = [applied EXCEPT ![p] = Loaded(p)] /\ marks' = marks
           /\ Goto(p, "run", Retain(Registered[p], Loaded(p)), 1)
  <2>1. Registered[p] \in Seq(Nat)
    BY MigratorAssumption
  <2>2. Retain(Registered[p], recorded) \in Seq(Nat)
    BY <2>1, PendingFacts
  <2>3. Frame(p) /\ Proceeds(p, "run", Retain(Registered[p], recorded))
    BY <1>2, <2>2, Went DEF Loaded
  <2>4. Knows
    <3>1. /\ applied \in [Procs -> SUBSET Nat] /\ \A q \in Procs : IsFiniteSet(applied[q])
          /\ recorded \in SUBSET Nat /\ IsFiniteSet(recorded)
      BY DEF MigTypes
    <3>2. applied' \in [Procs -> SUBSET Nat]
      BY <1>2, <3>1 DEF Loaded
    <3>3. \A q \in Procs : applied'[q] = recorded \/ applied'[q] = applied[q]
      BY <1>2, <3>1 DEF Loaded
    <3>4. QED BY <3>1, <3>2, <3>3 DEF Knows
  <2>5. Loads(p)
    BY <1>1, <2>3 DEF Loads
  <2>6. QED BY <1>1, <1>2, <2>3, <2>4, <2>5 DEF Turn
<1>3. CASE Fail(p) \/ Drop(p)
  <2>1. Continues(p)
    BY <1>1, <1>3, Stopped DEF Continues
  <2>2. QED BY <1>1, <1>3, <2>1, LeavesIt
<1>4. QED BY <1>2, <1>3 DEF Load, Query, Send

LEMMA OperationTurn ==
  ASSUME MigTypes, NEW p \in Procs, Shape(p),
         Operation(p) \/ CheckConflict(p) \/ ProbeLookups(p) \/ InsertRow(p)
  PROVE  Turn(p)
<1>1. /\ pc[p] \in Late /\ pc[p] \in InSql
      /\ plan' = plan /\ recorded' = recorded
  BY DEF Operation, CheckConflict, ProbeLookups, InsertRow, Query, Send, dbVars, Late, InSql
<1>2. CASE NextOp(p) /\ UNCHANGED <<applied, marks>>
  BY <1>1, <1>2, NextOpKeeps
<1>3. ASSUME NEW st \in Late, pc' = [pc EXCEPT ![p] = st], UNCHANGED <<call, todo, applied, marks>>
      PROVE  Turn(p)
  <2>1. st \in InSql
    BY DEF Late
  <2>2. st \in Late <=> pc[p] \in Late
    BY <1>1
  <2>3. QED BY <1>1, <1>3, <2>1, <2>2, SameOp
<1>4. CASE Fail(p) \/ Drop(p)
  <2>1. Continues(p)
    BY <1>1, <1>4, Stopped DEF Continues
  <2>2. QED BY <1>1, <1>4, <2>1, LeavesIt
<1>5. CASE Operation(p)
  BY <1>2, <1>4, <1>5 DEF Operation, Send
<1>6. CASE CheckConflict(p)
  <2>1. AfterCount(Op(p)) \in Late
    BY DEF AfterCount, Late, InSql
  <2>2. \/ NextOp(p) /\ UNCHANGED <<applied, marks>>
        \/ pc' = [pc EXCEPT ![p] = AfterCount(Op(p))] /\ UNCHANGED <<call, todo, applied, marks>>
        \/ Fail(p) \/ Drop(p)
    BY <1>6 DEF CheckConflict, Query, Send
  <2>3. QED BY <1>2, <1>3, <1>4, <2>1, <2>2
<1>7. CASE ProbeLookups(p)
  <2>1. "inserting" \in Late
    BY DEF Late, InSql
  <2>2. \/ NextOp(p) /\ UNCHANGED <<applied, marks>>
        \/ pc' = [pc EXCEPT ![p] = "inserting"] /\ UNCHANGED <<call, todo, applied, marks>>
        \/ Fail(p) \/ Drop(p)
    BY <1>7 DEF ProbeLookups, Query, Send
  <2>3. QED BY <1>2, <1>3, <1>4, <2>1, <2>2
<1>8. CASE InsertRow(p)
  BY <1>2, <1>4, <1>8 DEF InsertRow, Send
<1>9. QED BY <1>5, <1>6, <1>7, <1>8

\* With the version's row in or out of schema_migrations.
LEMMA RecordTurn ==
  ASSUME MigTypes, NEW p \in Procs, Shape(p), Record(p) \/ Unrecord(p)
  PROVE  Turn(p)
<1>1. /\ pc[p] \in Late /\ plan' = plan
      /\ call[p] # "rollback" <=> Record(p)
  BY DEF Record, Unrecord, Send, Late, InSql
<1>2. /\ call[p] \in {"run", "apply", "rollback"}
      /\ todo[p] \in Seq(Nat) /\ todo[p] # <<>>
  BY <1>1, AtWork
<1> DEFINE v == Head(todo[p])
<1>3. v \in Nat /\ Tail(todo[p]) \in Seq(Nat)
  BY <1>2, FrontVersion
<1> HIDE DEF v
<1>4. /\ applied \in [Procs -> SUBSET Nat] /\ \A q \in Procs : IsFiniteSet(applied[q])
  BY DEF MigTypes
<1>5. CASE (Fail(p) \/ Drop(p)) /\ recorded' = recorded
  <2>1. Continues(p)
    BY <1>5, Stopped DEF Continues
  <2>2. QED BY <1>1, <1>5, <2>1, LeavesIt
<1>6. CASE Record(p)
  <2>1. call[p] \in {"run", "apply"}
    BY <1>1, <1>2, <1>6
  <2>2. CASE recorded' = recorded \cup {v} /\ Drop(p)
    <3>1. Rests(p) /\ pc'[p] # "idle"
      BY <2>2, Stopped
    <3>2. Adds(p)
      BY <1>1, <2>1, <2>2, <3>1 DEF Adds, Proceeds, v
    <3>3. QED BY <1>1, <2>2, <3>2, LeavesIt
  <2>3. CASE /\ recorded' = recorded \cup {v} /\ marks' = marks
             /\ applied' = [applied EXCEPT ![p] = @ \cup {v}]
             /\ Goto(p, call[p], Tail(todo[p]), 1)
    <3>1. Frame(p) /\ Proceeds(p, call[p], Tail(todo[p]))
      BY <1>2, <1>3, <2>3, Went
    <3>2. Adds(p)
      BY <1>1, <2>1, <2>3, <3>1 DEF Adds, v
    <3>3. Knows
      <4>1. applied[p] \cup {v} \in SUBSET Nat /\ IsFiniteSet(applied[p] \cup {v})
        BY <1>3, <1>4, FS_AddElement
      <4>2. applied' \in [Procs -> SUBSET Nat]
        BY <1>4, <2>3, <4>1
      <4>3. \A q \in Procs : applied'[q] = applied[p] \cup {v} \/ applied'[q] = applied[q]
        BY <1>4, <2>3
      <4>4. QED BY <1>4, <4>1, <4>2, <4>3 DEF Knows
    <3>4. QED BY <1>1, <2>3, <3>1, <3>2, <3>3 DEF Turn
  <2>4. \/ (Fail(p) \/ Drop(p)) /\ recorded' = recorded
        \/ recorded' = recorded \cup {v} /\ Drop(p)
        \/ /\ recorded' = recorded \cup {v} /\ marks' = marks
           /\ applied' = [applied EXCEPT ![p] = @ \cup {v}]
           /\ Goto(p, call[p], Tail(todo[p]), 1)
    BY <1>6 DEF Record, Send, dbVars, Version, v
  <2>5. QED BY <1>5, <2>2, <2>3, <2>4
<1>7. CASE Unrecord(p)
  <2>1. call[p] = "rollback"
    BY <1>7 DEF Unrecord
  <2>2. CASE recorded' = recorded \ {v} /\ Drop(p)
    <3>1. Rests(p) /\ pc'[p] # "idle"
      BY <2>2, Stopped
    <3>2. Takes(p)
      BY <1>1, <2>1, <2>2, <3>1 DEF Takes, Proceeds, v
    <3>3. QED BY <1>1, <2>2, <3>2, LeavesIt
  <2>3. CASE /\ recorded' = recorded \ {v} /\ marks' = marks
             /\ applied' = [applied EXCEPT ![p] = @ \ {v}]
             /\ Goto(p, call[p], Tail(todo[p]), 1)
    <3>1. Frame(p) /\ Proceeds(p, call[p], Tail(todo[p]))
      BY <1>2, <1>3, <2>3, Went
    <3>2. Takes(p)
      BY <1>1, <2>1, <2>3, <3>1 DEF Takes, v
    <3>3. Knows
      <4>1. applied[p] \ {v} \in SUBSET Nat /\ IsFiniteSet(applied[p] \ {v})
        BY <1>4, FS_RemoveElement
      <4>2. applied' \in [Procs -> SUBSET Nat]
        BY <1>4, <2>3, <4>1
      <4>3. \A q \in Procs : applied'[q] = applied[p] \ {v} \/ applied'[q] = applied[q]
        BY <1>4, <2>3
      <4>4. QED BY <1>4, <4>1, <4>2, <4>3 DEF Knows
    <3>4. QED BY <1>1, <2>3, <3>1, <3>2, <3>3 DEF Turn
  <2>4. \/ (Fail(p) \/ Drop(p)) /\ recorded' = recorded
        \/ recorded' = recorded \ {v} /\ Drop(p)
        \/ /\ recorded' = recorded \ {v} /\ marks' = marks
           /\ applied' = [applied EXCEPT ![p] = @ \ {v}]
           /\ Goto(p, call[p], Tail(todo[p]), 1)
    BY <1>7 DEF Unrecord, Send, dbVars, Version, v
  <2>5. QED BY <1>5, <2>2, <2>3, <2>4
<1>8. QED BY <1>6, <1>7

LEMMA CrashTurn ==
  ASSUME MigTypes, NEW p \in Procs, Crash(p)
  PROVE  Turn(p)
<1>1. Drop(p) /\ plan' = plan /\ recorded' = recorded
  BY DEF Crash, dbVars
<1>2. Continues(p)
  BY <1>1, Stopped DEF Continues
<1>3. QED BY <1>1, <1>2, LeavesIt

-----------------------------------------------------------------------------
(* Such a step keeps the invariant.                                        *)

LEMMA TurnKeepsTypes ==
  ASSUME MigInv, NEW p \in Procs, Turn(p)
  PROVE  MigTypes'
<1>1. /\ \E s \in Settings : plan' = s.plan
      /\ recorded \in SUBSET Nat /\ IsFiniteSet(recorded) /\ MigTypes /\ Shape(p)
  BY DEF MigInv, MigTypes, Turn, ProcOK
<1>2. recorded' \in SUBSET Nat /\ IsFiniteSet(recorded')
  <2>1. CASE Continues(p) \/ Loads(p)
    BY <1>1, <2>1 DEF Continues, Loads
  <2>2. CASE Adds(p)
    <3>1. todo[p] \in Seq(Nat) /\ todo[p] # <<>>
      BY <1>1, <2>2, AtWork DEF Adds
    <3>2. Head(todo[p]) \in Nat
      BY <3>1, FrontVersion
    <3>3. IsFiniteSet(recorded \cup {Head(todo[p])})
      BY <1>1, FS_AddElement
    <3>4. QED BY <1>1, <2>2, <3>2, <3>3 DEF Adds
  <2>3. CASE Takes(p)
    <3>1. IsFiniteSet(recorded \ {Head(todo[p])})
      BY <1>1, FS_RemoveElement
    <3>2. QED BY <1>1, <2>3, <3>1 DEF Takes
  <2>4. QED BY <2>1, <2>2, <2>3 DEF Turn
<1>3. QED BY <1>1, <1>2 DEF MigTypes, Turn, Frame, Knows

LEMMA TurnKeepsMarked ==
  ASSUME MigInv, NEW p \in Procs, Turn(p)
  PROVE  UndoingIsMarked'
<1>1. call'[p] \in {call[p], "none"}
  <2>1. Rests(p) => call'[p] = "none"
    BY DEF Rests
  <2>2. Loads(p) => call[p] = "run"
    BY DEF Loads, MigInv, ProcOK, Shape
  <2>3. QED BY <2>1, <2>2 DEF Turn, Continues, Loads, Adds, Takes, Proceeds, Does
<1>2. \A q \in Procs : call'[q] \in {call[q], "none"}
  BY <1>1 DEF Turn, Frame
<1>3. SUFFICES ASSUME NEW q \in Procs, NEW r \in Procs, q # r,
                      call'[q] = "rollback", call'[r] # "none"
               PROVE  "undoing" \in marks'
  BY DEF UndoingIsMarked
<1>4. call[q] = "rollback" /\ call[r] # "none"
  <2>1. call'[q] \in {call[q], "none"} /\ call'[r] \in {call[r], "none"}
    BY <1>2
  <2>2. QED BY <1>3, <2>1
<1>5. QED BY <1>3, <1>4 DEF MigInv, UndoingIsMarked, Turn

\* Other calls: what is recorded only grows, but for a rollback, which is marked.
LEMMA TurnKeepsOthers ==
  ASSUME MigInv, NEW p \in Procs, Turn(p), NEW q \in Procs \ {p}
  PROVE  ProcOK(q)'
<1>1. /\ pc'[q] = pc[q] /\ call'[q] = call[q] /\ todo'[q] = todo[q]
      /\ plan' = plan /\ marks \subseteq marks' /\ ProcOK(q)
  BY DEF Turn, Frame, MigInv
<1>2. Shape(q)'
  BY <1>1 DEF Shape, ProcOK
<1>3. CASE recorded \subseteq recorded' /\ (recorded' = recorded \/ call[p] # "none")
  <2>1. RunCovers(q)'
    BY <1>1, <1>3 DEF RunCovers, ProcOK
  <2>2. OldestFirst(q)'
    BY <1>1, <1>3 DEF OldestFirst, ProcOK, Orderly, Ascends
  <2>3. NewestFirst(q)'
    <3>1. CASE recorded' = recorded
      BY <1>1, <3>1 DEF NewestFirst, ProcOK, Orderly, Descends
    <3>2. CASE call[p] # "none"
      <4>1. call[q] = "rollback" => "undoing" \in marks'
        BY <1>1, <3>2 DEF MigInv, UndoingIsMarked
      <4>2. QED BY <1>1, <4>1 DEF NewestFirst, Orderly
    <3>3. QED BY <1>3, <3>1, <3>2
  <2>4. QED BY <1>2, <2>1, <2>2, <2>3 DEF ProcOK
<1>4. CASE call[p] = "rollback"
  <2>1. call[q] # "none" => "undoing" \in marks'
    BY <1>1, <1>4 DEF MigInv, UndoingIsMarked
  <2>2. RunCovers(q)'
    BY <1>1, <2>1 DEF RunCovers
  <2>3. OldestFirst(q)'
    BY <1>1, <2>1 DEF OldestFirst, Orderly
  <2>4. NewestFirst(q)'
    BY <1>1, <2>1 DEF NewestFirst, Orderly
  <2>5. QED BY <1>2, <2>2, <2>3, <2>4 DEF ProcOK
<1>5. (recorded \subseteq recorded' /\ (recorded' = recorded \/ call[p] # "none"))
        \/ call[p] = "rollback"
  BY DEF Turn, Continues, Loads, Adds, Takes
<1>6. QED BY <1>3, <1>4, <1>5

LEMMA TurnKeepsPrefix ==
  ASSUME MigInv, NEW p \in Procs, Turn(p), InOrder
  PROVE  RecordedIsPrefix'
<1>1. /\ plan' = plan /\ marks \subseteq marks' /\ RecordedIsPrefix
      /\ MigTypes /\ Shape(p) /\ OldestFirst(p) /\ NewestFirst(p)
  BY DEF Turn, MigInv, ProcOK
<1>2. SUFFICES ASSUME marks' \cap {"undoing", "order"} = {},
                      NEW v \in recorded', NEW w \in DOMAIN plan, w < v
               PROVE  w \in recorded'
  BY <1>1 DEF RecordedIsPrefix
<1>3. Orderly
  BY <1>1, <1>2 DEF Orderly
<1>4. DOMAIN plan \subseteq Nat /\ recorded \in SUBSET Nat
  BY <1>1, MigratorAssumption DEF MigTypes
<1>5. \A x \in recorded, y \in DOMAIN plan : y < x => y \in recorded
  BY <1>1, <1>3 DEF RecordedIsPrefix, Orderly
<1>6. CASE recorded' = recorded
  BY <1>2, <1>5, <1>6
<1>7. CASE Adds(p)
  <2>1. todo[p] \in Seq(Nat) /\ todo[p] # <<>>
    BY <1>1, <1>7, AtWork DEF Adds
  <2> DEFINE q == todo[p]
  <2>2. /\ Head(q) \in Nat /\ Tail(q) \in Seq(Nat)
        /\ ToSet(q) = {Head(q)} \cup ToSet(Tail(q)) /\ ToSet(q) \subseteq Nat
        /\ Ascends(q) => Ascends(Tail(q)) /\ \A x \in ToSet(q) : Head(q) <= x
    BY <2>1, FrontVersion
  <2>3. /\ Ascends(q)
        /\ \A x \in ToSet(q), y \in DOMAIN plan : y < x => y \in recorded \cup ToSet(q)
    BY <1>1, <1>3, <1>7 DEF OldestFirst, Adds
  <2>4. recorded' = recorded \cup {Head(q)}
    BY <1>7 DEF Adds
  <2> HIDE DEF q
  <2>5. CASE v \in recorded
    BY <1>2, <1>5, <2>4, <2>5
  <2>6. CASE v = Head(q)
    <3>1. w \in recorded \cup ToSet(q)
      BY <1>2, <2>2, <2>3, <2>6
    <3>2. w \notin ToSet(q)
      <4>1. SUFFICES ASSUME w \in ToSet(q) PROVE FALSE
        OBVIOUS
      <4>2. Head(q) <= w /\ w \in Nat /\ w < Head(q)
        BY <1>2, <1>4, <2>2, <2>3, <2>6, <4>1
      <4>3. QED BY <2>2, <4>2
    <3>3. QED BY <2>4, <3>1, <3>2
  <2>7. QED BY <2>4, <2>5, <2>6
<1>8. CASE Takes(p)
  <2>1. todo[p] \in Seq(Nat) /\ todo[p] # <<>>
    BY <1>1, <1>8, AtWork DEF Takes
  <2> DEFINE q == todo[p]
  <2>2. /\ Head(q) \in Nat /\ Head(q) \in ToSet(q)
        /\ Descends(q) => \A x \in ToSet(q) : x <= Head(q)
    BY <2>1, FrontVersion
  <2>3. /\ Descends(q)
        /\ \A y \in recorded : y \in ToSet(q) \/ \A x \in ToSet(q) : y < x
    BY <1>1, <1>3, <1>8 DEF NewestFirst, Takes
  <2>4. recorded' = recorded \ {Head(q)}
    BY <1>8 DEF Takes
  <2> HIDE DEF q
  <2>5. v \in recorded /\ w \in recorded /\ v \in Nat /\ w \in Nat
    BY <1>2, <1>4, <1>5, <2>4
  <2>6. w # Head(q)
    <3>1. SUFFICES ASSUME w = Head(q) PROVE FALSE
      OBVIOUS
    <3>2. v <= Head(q) \/ v < Head(q)
      BY <2>2, <2>3, <2>5
    <3>3. QED BY <1>2, <2>5, <3>1, <3>2
  <2>7. QED BY <2>4, <2>5, <2>6
<1>9. QED BY <1>6, <1>7, <1>8 DEF Turn, Continues, Loads

\* A call that ends keeps nothing; what it left is vacuous.
LEMMA RestIsOK ==
  ASSUME NEW p \in Procs, Rests(p)
  PROVE  ProcOK(p)'
<1>1. pc'[p] \in Ready /\ pc'[p] \notin Late /\ pc'[p] \notin {"initializing", "loading"}
  BY DEF Rests, Ready, Late, InSql
<1>2. QED BY <1>1 DEF Rests, ProcOK, Shape, RunCovers, OldestFirst, NewestFirst

LEMMA DoesShape ==
  ASSUME NEW p \in Procs, NEW how \in {"run", "apply", "rollback"}, NEW vs, Does(p, how, vs)
  PROVE  Shape(p)'
<1>1. pc'[p] \in Late /\ pc'[p] \notin Ready /\ pc'[p] \notin {"initializing", "loading"}
  BY DEF Does, Ready, Late, InSql
<1>2. QED BY <1>1 DEF Does, Shape

LEMMA TurnKeepsOwn ==
  ASSUME MigInv, NEW p \in Procs, Turn(p)
  PROVE  ProcOK(p)'
<1>1. /\ plan' = plan /\ marks \subseteq marks' /\ MigTypes /\ ProcOK(p)
      /\ Shape(p) /\ RunCovers(p) /\ OldestFirst(p) /\ NewestFirst(p)
  BY DEF Turn, MigInv, ProcOK
<1>2. Orderly' => Orderly
  BY <1>1 DEF Orderly
<1>3. CASE Rests(p)
  BY <1>3, RestIsOK
<1>4. CASE Continues(p) /\ ~Rests(p)
  <2>1. /\ recorded' = recorded /\ {pc[p], pc'[p]} \subseteq InSql
        /\ pc'[p] \in Late <=> pc[p] \in Late
        /\ call'[p] = call[p] /\ todo'[p] = todo[p]
    BY <1>4 DEF Continues
  <2>2. pc[p] \notin Ready /\ pc'[p] \notin Ready
    BY <2>1 DEF InSql, Ready
  <2>3. pc'[p] \in {"initializing", "loading"} => pc[p] \in {"initializing", "loading"}
    BY <2>1 DEF Late, InSql
  <2>4. Shape(p)'
    BY <1>1, <2>1, <2>2, <2>3 DEF Shape
  <2>5. RunCovers(p)'
    BY <1>1, <2>1 DEF RunCovers
  <2>6. OldestFirst(p)'
    BY <1>1, <1>2, <2>1 DEF OldestFirst, Ascends
  <2>7. NewestFirst(p)'
    BY <1>1, <1>2, <2>1 DEF NewestFirst, Descends
  <2>8. QED BY <2>4, <2>5, <2>6, <2>7 DEF ProcOK
<1>5. CASE Loads(p) /\ ~Rests(p)
  <2> DEFINE r == Retain(Registered[p], recorded)
  <2>1. recorded' = recorded /\ Does(p, "run", r)
    BY <1>5 DEF Loads, Proceeds
  <2>2. Registered[p] \in Seq(Nat)
    BY MigratorAssumption
  <2>3. /\ r \in Seq(Nat) /\ ToSet(r) = ToSet(Registered[p]) \ recorded
        /\ Ascends(Registered[p]) => Ascends(r)
    BY <2>2, PendingFacts
  <2> HIDE DEF r
  <2>4. call'[p] = "run" /\ todo'[p] = r
    BY <2>1 DEF Does
  <2>5. Shape(p)'
    BY <2>1, DoesShape
  <2>6. RunCovers(p)'
    BY <2>1, <2>3, <2>4 DEF RunCovers
  <2>7. OldestFirst(p)'
    <3>1. SUFFICES ASSUME Orderly'
                   PROVE  /\ Ascends(r)
                          /\ \A x \in ToSet(r), w \in DOMAIN plan :
                               w < x => w \in recorded \cup ToSet(r)
      BY <1>1, <2>1, <2>4 DEF OldestFirst, Ascends
    <3>2. InOrder /\ \E s \in Settings : plan = s.plan
      BY <1>1, <3>1 DEF Orderly, MigTypes
    <3>3. Ascends(r)
      BY <2>3, <3>2 DEF InOrder, Ascends
    <3>4. \A x \in ToSet(Registered[p]), w \in DOMAIN plan : w < x => w \in ToSet(Registered[p])
      BY <3>2 DEF InOrder
    <3>5. QED BY <2>3, <3>3, <3>4
  <2>8. NewestFirst(p)'
    BY <2>4 DEF NewestFirst
  <2>9. QED BY <2>5, <2>6, <2>7, <2>8 DEF ProcOK
<1>6. ASSUME pc[p] \in Late, call[p] \in {"run", "apply", "rollback"},
             Does(p, call[p], Tail(todo[p])),
             recorded' = IF call[p] = "rollback" THEN recorded \ {Head(todo[p])}
                         ELSE recorded \cup {Head(todo[p])}
      PROVE  ProcOK(p)'
  <2>1. todo[p] \in Seq(Nat) /\ todo[p] # <<>>
    BY <1>1, <1>6, AtWork
  <2> DEFINE q == todo[p]
             r == Tail(q)
  <2>2. /\ Head(q) \in Nat /\ r \in Seq(Nat)
        /\ ToSet(q) = {Head(q)} \cup ToSet(r) /\ ToSet(q) \subseteq Nat
        /\ Ascends(q) => Ascends(r)
        /\ Descends(q) => Descends(r)
    BY <2>1, FrontVersion
  <2>3. call'[p] = call[p] /\ todo'[p] = r
    BY <1>6 DEF Does
  <2>4. Shape(p)'
    BY <1>6, DoesShape
  <2>5. RunCovers(p)'
    <3>1. SUFFICES ASSUME "undoing" \notin marks', call[p] = "run"
                   PROVE  ToSet(Registered[p]) \subseteq recorded' \cup ToSet(r)
      BY <2>3 DEF RunCovers
    <3>2. ToSet(Registered[p]) \subseteq recorded \cup ToSet(q)
      BY <1>1, <1>6, <3>1 DEF RunCovers
    <3> HIDE DEF q, r
    <3>3. recorded' = recorded \cup {Head(q)}
      BY <1>6, <3>1 DEF q
    <3>4. QED BY <2>2, <3>2, <3>3
  <2>6. OldestFirst(p)'
    <3>1. SUFFICES ASSUME Orderly', call[p] \in {"run", "apply"}
                   PROVE  /\ Ascends(r)
                          /\ \A x \in ToSet(r), w \in DOMAIN plan :
                               w < x => w \in recorded' \cup ToSet(r)
      BY <1>1, <2>3 DEF OldestFirst, Ascends
    <3>2. /\ Ascends(q)
          /\ \A x \in ToSet(q), w \in DOMAIN plan : w < x => w \in recorded \cup ToSet(q)
      BY <1>1, <1>2, <1>6, <3>1 DEF OldestFirst
    <3> HIDE DEF q, r
    <3>3. recorded' = recorded \cup {Head(q)}
      BY <1>6, <3>1 DEF q
    <3>4. QED BY <2>2, <3>2, <3>3
  <2>7. NewestFirst(p)'
    <3>1. SUFFICES ASSUME Orderly', call[p] = "rollback"
                   PROVE  /\ Descends(r)
                          /\ \A w \in recorded' : w \in ToSet(r) \/ \A x \in ToSet(r) : w < x
      BY <1>1, <2>3 DEF NewestFirst, Descends
    <3>2. /\ Descends(q)
          /\ \A w \in recorded : w \in ToSet(q) \/ \A x \in ToSet(q) : w < x
      BY <1>1, <1>2, <1>6, <3>1 DEF NewestFirst
    <3> HIDE DEF q, r
    <3>3. recorded' = recorded \ {Head(q)}
      BY <1>6, <3>1 DEF q
    <3>4. QED BY <2>2, <3>2, <3>3
  <2>8. QED BY <2>4, <2>5, <2>6, <2>7 DEF ProcOK
<1>7. CASE (Adds(p) \/ Takes(p)) /\ ~Rests(p)
  <2>1. /\ pc[p] \in Late /\ call[p] \in {"run", "apply", "rollback"}
        /\ Does(p, call[p], Tail(todo[p]))
    BY <1>7 DEF Adds, Takes, Proceeds
  <2>2. recorded' = IF call[p] = "rollback" THEN recorded \ {Head(todo[p])}
                    ELSE recorded \cup {Head(todo[p])}
    BY <1>7 DEF Adds, Takes
  <2>3. QED BY <1>6, <2>1, <2>2
<1>8. QED BY <1>3, <1>4, <1>5, <1>7 DEF Turn

LEMMA TurnKeeps ==
  ASSUME MigInv, NEW p \in Procs, Turn(p)
  PROVE  MigInv'
<1>1. MigTypes' /\ UndoingIsMarked'
  BY TurnKeepsTypes, TurnKeepsMarked
<1>2. \A q \in Procs : ProcOK(q)'
  BY TurnKeepsOwn, TurnKeepsOthers
<1>3. InOrder => RecordedIsPrefix'
  BY TurnKeepsPrefix
<1>4. QED BY <1>1, <1>2, <1>3 DEF MigInv, InOrder

-----------------------------------------------------------------------------
(* A call begins.                                                          *)

Opens(p, how) ==
  /\ pc[p] \in Ready /\ plan' = plan /\ recorded' = recorded /\ applied' = applied
  /\ marks \subseteq marks'
  /\ Others(p) # {} /\ "rollback" \in {how} \cup {call[q] : q \in Others(p)}
       => "undoing" \in marks'

LEMMA OpenKeeps ==
  ASSUME MigInv, NEW p \in Procs, NEW how, Opens(p, how), Frame(p),
         call'[p] \in {how, "none"}, ProcOK(p)'
  PROVE  MigInv'
<1>1. /\ pc[p] \in Ready /\ plan' = plan /\ recorded' = recorded /\ applied' = applied
      /\ marks \subseteq marks'
  BY DEF Opens
<1>2. MigTypes /\ UndoingIsMarked /\ \A q \in Procs : Shape(q)
  BY DEF MigInv, ProcOK
<1>3. \A q \in Procs \ {p} : pc'[q] = pc[q] /\ call'[q] = call[q] /\ todo'[q] = todo[q]
  BY DEF Frame
<1>4. MigTypes'
  BY <1>1, <1>2 DEF MigTypes, Frame
<1>5. \A q \in Procs \ {p} : call[q] # "none" => q \in Others(p)
  BY <1>2 DEF Others, Shape
<1>6. UndoingIsMarked'
  <2>1. SUFFICES ASSUME NEW q \in Procs, NEW r \in Procs, q # r,
                        call'[q] = "rollback", call'[r] # "none"
                 PROVE  "undoing" \in marks'
    BY DEF UndoingIsMarked
  <2>2. CASE q = p
    <3>1. r \in Others(p) /\ how = "rollback"
      BY <1>3, <1>5, <2>1, <2>2
    <3>2. QED BY <3>1 DEF Opens
  <2>3. CASE r = p
    <3>1. q \in Others(p) /\ call[q] = "rollback"
      BY <1>3, <1>5, <2>1, <2>3
    <3>2. QED BY <3>1 DEF Opens
  <2>4. CASE q # p /\ r # p
    <3>1. call[q] = "rollback" /\ call[r] # "none"
      BY <1>3, <2>1, <2>4
    <3>2. QED BY <1>1, <1>2, <2>1, <3>1 DEF UndoingIsMarked
  <2>5. QED BY <2>2, <2>3, <2>4
<1>7. ASSUME NEW q \in Procs \ {p} PROVE ProcOK(q)'
  <2>1. ProcOK(q) /\ pc'[q] = pc[q] /\ call'[q] = call[q] /\ todo'[q] = todo[q]
    BY <1>3 DEF MigInv
  <2>2. Shape(q)' /\ RunCovers(q)'
    BY <1>1, <2>1 DEF ProcOK, Shape, RunCovers
  <2>3. OldestFirst(q)' /\ NewestFirst(q)'
    BY <1>1, <2>1 DEF ProcOK, OldestFirst, NewestFirst, Orderly, Ascends, Descends
  <2>4. QED BY <2>2, <2>3 DEF ProcOK
<1>8. InOrder => RecordedIsPrefix'
  BY <1>1 DEF MigInv, RecordedIsPrefix
<1>9. QED BY <1>4, <1>6, <1>7, <1>8 DEF MigInv, InOrder

LEMMA RunMigrationsKeeps ==
  ASSUME MigInv, NEW p \in Procs, RunMigrations(p)
  PROVE  MigInv'
<1>1. Opens(p, "run")
  BY DEF RunMigrations, Begin, Opens, dbVars
<1>2. MigTypes /\ Shape(p)
  BY DEF MigInv, ProcOK
<1>3. pc' = [pc EXCEPT ![p] = "initializing"] /\ call' = [call EXCEPT ![p] = "run"] /\ todo' = todo
  BY DEF RunMigrations
<1>4. /\ pc \in [Procs -> Ready \cup InSql]
      /\ call \in [Procs -> {"none", "run", "apply", "rollback"}]
      /\ todo \in [Procs -> Seq(Nat)]
  BY <1>2 DEF MigTypes
<1>5. pc'[p] = "initializing" /\ call'[p] = "run"
  BY <1>3, <1>4
<1>6. Frame(p)
  <2>1. "initializing" \in InSql
    BY DEF InSql
  <2>2. pc' \in [Procs -> Ready \cup InSql]
    BY <1>3, <1>4, <2>1
  <2>3. call' \in [Procs -> {"none", "run", "apply", "rollback"}] /\ todo' \in [Procs -> Seq(Nat)]
    BY <1>3, <1>4
  <2>4. \A q \in Procs \ {p} : pc'[q] = pc[q] /\ call'[q] = call[q] /\ todo'[q] = todo[q]
    BY <1>3, <1>4
  <2>5. QED BY <2>2, <2>3, <2>4 DEF Frame
<1>7. ProcOK(p)'
  <2>1. pc'[p] \notin Ready /\ pc'[p] \notin Late
    BY <1>5 DEF Ready, Late, InSql
  <2>2. todo[p] = <<>>
    BY <1>1, <1>2 DEF Opens, Shape, Ready, Late, InSql
  <2>3. QED BY <1>3, <1>5, <2>1, <2>2
            DEF ProcOK, Shape, RunCovers, OldestFirst, NewestFirst
<1>8. QED BY <1>1, <1>5, <1>6, <1>7, OpenKeeps

\* A single version.
LEMMA OneVersion ==
  ASSUME NEW v \in Nat
  PROVE  /\ <<v>> \in Seq(Nat) /\ <<v>> # <<>> /\ ToSet(<<v>>) = {v}
         /\ Ascends(<<v>>) /\ Descends(<<v>>)
<1>1. <<v>> \in Seq(Nat) /\ DOMAIN <<v>> = {1} /\ <<v>>[1] = v
  OBVIOUS
<1>2. Ascends(<<v>>) /\ Descends(<<v>>)
  BY <1>1 DEF Ascends, Descends
<1>3. ToSet(<<v>>) = {v}
  BY <1>1 DEF ToSet
<1>4. <<v>> # <<>>
  OBVIOUS
<1>5. QED BY <1>1, <1>2, <1>3, <1>4

LEMMA ApplyKeeps ==
  ASSUME MigInv, NEW p \in Procs, ApplyMigration(p)
  PROVE  MigInv'
<1>1. PICK v \in ToSet(Registered[p]) :
        /\ Begin(p, "apply", v \in recorded \/ \E w \in DOMAIN plan \ recorded : w < v)
        /\ Goto(p, "apply", <<v>>, 1)
  BY DEF ApplyMigration
<1>2. Opens(p, "apply")
  BY <1>1 DEF Begin, Opens, dbVars
<1>3. "order" \notin marks' => \A w \in DOMAIN plan \ recorded : ~(w < v)
  BY <1>1 DEF Begin
<1>4. MigTypes /\ v \in Nat
  <2>1. Registered[p] \in Seq(Nat)
    BY MigratorAssumption
  <2>2. QED BY <2>1 DEF MigInv, ToSet
<1>5. /\ <<v>> \in Seq(Nat) /\ <<v>> # <<>> /\ ToSet(<<v>>) = {v}
      /\ Ascends(<<v>>)
  BY <1>4, OneVersion
<1>6. Frame(p) /\ Proceeds(p, "apply", <<v>>)
  BY <1>1, <1>4, <1>5, Went
<1>7. CASE Rests(p)
  <2>1. ProcOK(p)'
    BY <1>7, RestIsOK
  <2>2. call'[p] = "none"
    BY <1>7 DEF Rests
  <2>3. QED BY <1>2, <1>6, <2>1, <2>2, OpenKeeps
<1>8. CASE Does(p, "apply", <<v>>)
  <2>1. call'[p] = "apply" /\ todo'[p] = <<v>>
    BY <1>8 DEF Does
  <2>2. Shape(p)'
    BY <1>8, DoesShape
  <2>3. RunCovers(p)' /\ NewestFirst(p)'
    BY <2>1 DEF RunCovers, NewestFirst
  <2>4. OldestFirst(p)'
    <3>1. plan' = plan /\ recorded' = recorded
      BY <1>2 DEF Opens
    <3>2. Ascends(todo'[p]) /\ ToSet(todo'[p]) = {v}
      BY <1>5, <2>1
    <3>3. Orderly' => \A w \in DOMAIN plan \ recorded : ~(w < v)
      BY <1>3 DEF Orderly
    <3>4. QED BY <3>1, <3>2, <3>3 DEF OldestFirst, Ascends
  <2>5. ProcOK(p)'
    BY <2>2, <2>3, <2>4 DEF ProcOK
  <2>6. QED BY <1>2, <1>6, <2>1, <2>5, OpenKeeps
<1>9. QED BY <1>6, <1>7, <1>8 DEF Proceeds

\* rollback_migration and rollback_all undo the newest versions, or are marked.
LEMMA RollbackKeeps ==
  ASSUME MigInv, NEW p \in Procs, Opens(p, "rollback"),
         NEW vs \in Seq(Nat), Goto(p, "rollback", vs, 1), Descends(vs),
         Orderly' => \A w \in recorded : w \in ToSet(vs) \/ \A x \in ToSet(vs) : w < x
  PROVE  MigInv'
<1>1. MigTypes /\ Frame(p) /\ Proceeds(p, "rollback", vs)
  BY Went DEF MigInv
<1>2. CASE Rests(p)
  <2>1. ProcOK(p)'
    BY <1>2, RestIsOK
  <2>2. call'[p] = "none"
    BY <1>2 DEF Rests
  <2>3. QED BY <1>1, <2>1, <2>2, OpenKeeps
<1>3. CASE Does(p, "rollback", vs)
  <2>1. call'[p] = "rollback" /\ todo'[p] = vs /\ recorded' = recorded
    BY <1>3 DEF Does, Opens
  <2>2. Shape(p)'
    BY <1>3, DoesShape
  <2>3. RunCovers(p)' /\ OldestFirst(p)'
    BY <2>1 DEF RunCovers, OldestFirst
  <2>4. NewestFirst(p)'
    BY <2>1 DEF NewestFirst, Descends
  <2>5. ProcOK(p)'
    BY <2>2, <2>3, <2>4 DEF ProcOK
  <2>6. QED BY <1>1, <2>1, <2>5, OpenKeeps
<1>4. QED BY <1>1, <1>2, <1>3 DEF Proceeds

LEMMA RollbackMigrationKeeps ==
  ASSUME MigInv, NEW p \in Procs, RollbackMigration(p)
  PROVE  MigInv'
<1>1. PICK v \in ToSet(Registered[p]) :
        /\ Begin(p, "rollback", v \notin recorded \/ \E w \in recorded : w > v)
        /\ Goto(p, "rollback", <<v>>, 1)
  BY DEF RollbackMigration
<1>2. Opens(p, "rollback")
  BY <1>1 DEF Begin, Opens, dbVars
<1>3. v \in Nat
  <2>1. Registered[p] \in Seq(Nat)
    BY MigratorAssumption
  <2>2. QED BY <2>1 DEF ToSet
<1>4. /\ <<v>> \in Seq(Nat) /\ ToSet(<<v>>) = {v} /\ Descends(<<v>>)
  BY <1>3, OneVersion
<1>5. "order" \notin marks' => \A w \in recorded : ~(w > v)
  BY <1>1 DEF Begin
<1>6. Orderly' => \A w \in recorded : w \in ToSet(<<v>>) \/ \A x \in ToSet(<<v>>) : w < x
  <2>1. recorded \subseteq Nat
    BY DEF MigInv, MigTypes
  <2>2. ASSUME Orderly', NEW w \in recorded PROVE w = v \/ w < v
    <3>1. ~(w > v)
      BY <1>5, <2>2 DEF Orderly
    <3>2. QED BY <1>3, <2>1, <3>1
  <2>3. QED BY <1>4, <2>2
<1>7. QED BY <1>1, <1>2, <1>4, <1>6, RollbackKeeps

LEMMA RollbackAllKeeps ==
  ASSUME MigInv, NEW p \in Procs, RollbackAll(p)
  PROVE  MigInv'
<1> DEFINE vs == Descending(applied[p])
<1>1. Begin(p, "rollback", applied[p] # recorded) /\ Goto(p, "rollback", vs, 1)
  BY DEF RollbackAll
<1>2. Opens(p, "rollback")
  BY <1>1 DEF Begin, Opens, dbVars
<1>3. applied[p] \in SUBSET Nat /\ IsFiniteSet(applied[p])
  BY DEF MigInv, MigTypes
<1>4. vs \in Seq(Nat) /\ Descends(vs) /\ ToSet(vs) = applied[p]
  BY <1>3, DescendingFacts
<1>5. "order" \notin marks' => applied[p] = recorded
  BY <1>1 DEF Begin
<1> HIDE DEF vs
<1>6. Orderly' => \A w \in recorded : w \in ToSet(vs) \/ \A x \in ToSet(vs) : w < x
  BY <1>4, <1>5 DEF Orderly
<1>7. QED BY <1>1, <1>2, <1>4, <1>6, RollbackKeeps

-----------------------------------------------------------------------------
(* The whole.                                                              *)

LEMMA StepsAreTurns ==
  ASSUME MigInv, NEW p \in Procs,
         \/ Initialize(p) \/ Load(p) \/ Operation(p)
         \/ CheckConflict(p) \/ ProbeLookups(p) \/ InsertRow(p)
         \/ Record(p) \/ Unrecord(p) \/ Crash(p)
  PROVE  Turn(p)
<1>1. MigTypes /\ Shape(p)
  BY DEF MigInv, ProcOK
<1>2. QED BY <1>1, InitializeTurn, LoadTurn, OperationTurn, RecordTurn, CrashTurn

LEMMA MigInit ==
  ASSUME Init
  PROVE  MigInv
<1>1. /\ \E s \in Settings : plan = s.plan
      /\ pc = [p \in Procs |-> "idle"]
      /\ call = [p \in Procs |-> "none"]
      /\ todo = [p \in Procs |-> <<>>]
      /\ applied = [p \in Procs |-> {}]
      /\ recorded = {}
  BY DEF Init
<1>2. <<>> \in Seq(Nat) /\ "idle" \in Ready /\ "idle" \notin Late
  BY DEF Ready, Late, InSql
<1>3. IsFiniteSet({})
  BY FS_EmptySet
<1>4. MigTypes
  <2>1. pc \in [Procs -> Ready \cup InSql] /\ todo \in [Procs -> Seq(Nat)]
    BY <1>1, <1>2
  <2>2. call \in [Procs -> {"none", "run", "apply", "rollback"}]
    BY <1>1
  <2>3. /\ applied \in [Procs -> SUBSET Nat] /\ \A p \in Procs : IsFiniteSet(applied[p])
        /\ recorded \in SUBSET Nat /\ IsFiniteSet(recorded)
    BY <1>1, <1>3
  <2>4. QED BY <1>1, <2>1, <2>2, <2>3 DEF MigTypes
<1>5. UndoingIsMarked
  BY <1>1 DEF UndoingIsMarked
<1>6. ASSUME NEW p \in Procs PROVE ProcOK(p)
  BY <1>1, <1>2 DEF ProcOK, Shape, RunCovers, OldestFirst, NewestFirst
<1>7. RecordedIsPrefix
  BY <1>1 DEF RecordedIsPrefix
<1>8. QED BY <1>4, <1>5, <1>6, <1>7 DEF MigInv

LEMMA MigStep ==
  ASSUME MigInv, [Next]_vars
  PROVE  MigInv'
<1>1. CASE UNCHANGED vars
  <2>1. UNCHANGED <<plan, pc, call, todo, applied, recorded, marks>>
    BY <1>1 DEF vars, callVars, dbVars
  <2>2. QED BY <2>1
            DEF MigInv, MigTypes, UndoingIsMarked, ProcOK, Shape, RunCovers, OldestFirst,
                NewestFirst, Orderly, InOrder, Ascends, Descends, RecordedIsPrefix
<1>2. CASE Next
  <2>1. PICK p \in Procs :
          \/ RunMigrations(p) \/ ApplyMigration(p) \/ RollbackMigration(p) \/ RollbackAll(p)
          \/ Initialize(p) \/ Load(p) \/ Operation(p)
          \/ CheckConflict(p) \/ ProbeLookups(p) \/ InsertRow(p)
          \/ Record(p) \/ Unrecord(p) \/ Crash(p)
    BY <1>2 DEF Next
  <2>2. CASE RunMigrations(p)
    BY <2>2, RunMigrationsKeeps
  <2>3. CASE ApplyMigration(p)
    BY <2>3, ApplyKeeps
  <2>4. CASE RollbackMigration(p)
    BY <2>4, RollbackMigrationKeeps
  <2>5. CASE RollbackAll(p)
    BY <2>5, RollbackAllKeeps
  <2>6. CASE Turn(p)
    BY <2>6, TurnKeeps
  <2>7. QED BY <2>1, <2>2, <2>3, <2>4, <2>5, <2>6, StepsAreTurns
<1>3. QED BY <1>1, <1>2

\* The inductive invariant: what every call has still to do, beside what is recorded.
THEOREM MigInvariant == Spec => []MigInv
<1>1. Init => MigInv
  BY MigInit
<1>2. MigInv /\ [Next]_vars => MigInv'
  BY MigStep
<1>3. QED BY <1>1, <1>2, PTL DEF Spec

\* Where a run returns Ok, its own last step shows that nothing of it was left.
LEMMA OkStep ==
  ASSUME MigInv, [Next]_vars, NEW p \in Procs,
         call[p] = "run", pc'[p] = "idle", "undoing" \notin marks
  PROVE  ToSet(Registered[p]) \subseteq recorded'
<1>1. MigTypes /\ Shape(p) /\ RunCovers(p) /\ pc[p] \notin Ready
  BY DEF MigInv, ProcOK, Shape
<1>2. pc'[p] # pc[p]
  BY <1>1 DEF Ready
<1>3. Next
  BY <1>2 DEF vars, callVars
<1>4. PICK q \in Procs :
        \/ RunMigrations(q) \/ ApplyMigration(q) \/ RollbackMigration(q) \/ RollbackAll(q)
        \/ Initialize(q) \/ Load(q) \/ Operation(q)
        \/ CheckConflict(q) \/ ProbeLookups(q) \/ InsertRow(q)
        \/ Record(q) \/ Unrecord(q) \/ Crash(q)
  BY <1>3 DEF Next
<1>5. q = p
  <2>1. CASE Turn(q)
    BY <1>2, <2>1 DEF Turn, Frame
  <2>2. CASE RunMigrations(q)
    <3>1. pc' = [pc EXCEPT ![q] = "initializing"] /\ pc \in [Procs -> Ready \cup InSql]
      BY <1>1, <2>2 DEF RunMigrations, MigTypes
    <3>2. QED BY <1>2, <3>1
  <2>3. ASSUME NEW vs \in Seq(Nat), NEW how \in {"run", "apply", "rollback"}, Goto(q, how, vs, 1)
        PROVE  q = p
    <3>1. Frame(q)
      BY <1>1, <2>3, Went
    <3>2. QED BY <1>2, <3>1 DEF Frame
  <2>4. CASE ApplyMigration(q) \/ RollbackMigration(q)
    <3>1. PICK v \in ToSet(Registered[q]) : Goto(q, "apply", <<v>>, 1) \/ Goto(q, "rollback", <<v>>, 1)
      BY <2>4 DEF ApplyMigration, RollbackMigration
    <3>2. Registered[q] \in Seq(Nat)
      BY MigratorAssumption
    <3>3. v \in Nat
      BY <3>2 DEF ToSet
    <3>4. <<v>> \in Seq(Nat)
      BY <3>3
    <3>5. QED BY <2>3, <3>1, <3>4
  <2>5. CASE RollbackAll(q)
    <3>1. Goto(q, "rollback", Descending(applied[q]), 1)
      BY <2>5 DEF RollbackAll
    <3>2. Descending(applied[q]) \in Seq(Nat)
      BY <1>1, DescendingFacts DEF MigTypes
    <3>3. QED BY <2>3, <3>1, <3>2
  <2>6. QED BY <1>4, <2>1, <2>2, <2>4, <2>5, StepsAreTurns
<1>6. Turn(p)
  BY <1>1, <1>4, <1>5, StepsAreTurns
     DEF RunMigrations, ApplyMigration, RollbackMigration, RollbackAll, Begin
<1>7. CASE Continues(p)
  BY <1>7 DEF Continues, InSql
<1>8. CASE Loads(p)
  <2> DEFINE r == Retain(Registered[p], recorded)
  <2>1. Registered[p] \in Seq(Nat)
    BY MigratorAssumption
  <2>2. ToSet(r) = ToSet(Registered[p]) \ recorded
    BY <2>1, PendingFacts
  <2>3. r = <<>> /\ recorded' = recorded
    BY <1>8 DEF Loads, Proceeds, Does, Late, InSql
  <2> HIDE DEF r
  <2>4. ToSet(r) = {}
    BY <2>3 DEF ToSet
  <2>5. QED BY <2>2, <2>3, <2>4
<1>9. CASE Adds(p)
  <2>1. todo[p] \in Seq(Nat) /\ todo[p] # <<>>
    BY <1>1, <1>9, AtWork DEF Adds
  <2> DEFINE q1 == todo[p]
             r == Tail(q1)
  <2>2. ToSet(q1) = {Head(q1)} \cup ToSet(r)
    BY <2>1, FrontVersion
  <2>3. r = <<>> /\ recorded' = recorded \cup {Head(q1)}
    BY <1>9 DEF Adds, Proceeds, Does, Late, InSql
  <2>4. ToSet(Registered[p]) \subseteq recorded \cup ToSet(q1)
    BY <1>1, <1>9 DEF RunCovers, Adds
  <2> HIDE DEF r, q1
  <2>5. ToSet(r) = {}
    BY <2>3 DEF ToSet
  <2>6. QED BY <2>2, <2>3, <2>4, <2>5
<1>10. CASE Takes(p)
  BY <1>10 DEF Takes
<1>11. QED BY <1>6, <1>7, <1>8, <1>9, <1>10 DEF Turn

\* run_migrations returns Ok only when every version its program registered is recorded,
\* whatever failed before and whatever other processes do, but for a rollback at the
\* same time.
THEOREM MigratorOkMeansApplied == Spec => OkMeansApplied
<1>1. MigInv /\ [Next]_vars =>
        [\A p \in Procs :
           call[p] = "run" /\ pc'[p] = "idle" /\ "undoing" \notin marks =>
             ToSet(Registered[p]) \subseteq recorded']_vars
  BY OkStep
<1>2. QED BY <1>1, MigInvariant, PTL DEF Spec, OkMeansApplied

\* The versions recorded are the oldest ones of the plan, of programs that register
\* their versions oldest first and leave no older one out: failures, crashes and
\* concurrent runs leave no gap, and rollback_all undoes from the newest.
THEOREM MigratorRecordedIsPrefix ==
  ASSUME InOrder
  PROVE  Spec => []RecordedIsPrefix
<1>1. MigInv => RecordedIsPrefix
  BY DEF MigInv
<1>2. QED BY <1>1, MigInvariant, PTL

-----------------------------------------------------------------------------
(* Places and seeds.  From here on it matters which operation a call is    *)
(* at, and what it writes: check, then insert is safe as long as one call  *)
(* is in flight (Alone), since the count of CheckConflict is then still    *)
(* right when InsertRow comes (Checked).                                   *)

AtOps  == {"operation", "counting", "probing", "inserting"}
Seed(p) == <<Op(p).t, Op(p).key>>

Alone ==
  \A p, q \in Procs : p # q /\ pc[p] \notin Ready /\ pc[q] \notin Ready => "overlap" \in marks

\* A process at an operation is at one of the plan, in the way its statement says.
Placed(p) ==
  pc[p] \in AtOps =>
    /\ Version(p) \in DOMAIN plan /\ at[p] \in DOMAIN Ops(call[p], Version(p))
    /\ pc[p] = "operation" => call[p] = "rollback" \/ Op(p).op # "InsertRow"
    /\ pc[p] # "operation" => call[p] # "rollback" /\ Op(p).op = "InsertRow"
    /\ pc[p] = "counting" => Op(p).guard

\* It is at a version of its program, and records it when it is through its operations.
Through(p) ==
  pc[p] \in Late =>
    /\ Version(p) \in ToSet(Registered[p])
    /\ pc[p] = "recording" => at[p] > Len(Ops(call[p], Version(p)))

Checked(p) ==
  "overlap" \notin marks /\ pc[p] \in {"probing", "inserting"} /\ Op(p).guard =>
    rows[Seed(p)] = 0

PlaceInv ==
  /\ at \in [Procs -> Nat]
  /\ Alone
  /\ \A p \in Procs : Placed(p) /\ Through(p)

SeedInv ==
  /\ rows = [c \in Cells |-> rows[c]]
  /\ \A p \in Procs : Checked(p)
  /\ "overlap" \notin marks => \A c \in Guarded : rows[c] \in {0, 1}

\* The element of a reversed sequence is one of the sequence.
LEMMA ReversedMember ==
  ASSUME NEW S, NEW s \in Seq(S), NEW i \in DOMAIN Reverse(s)
  PROVE  Reverse(s)[i] \in ToSet(s)
<1>1. Reverse(s) = [j \in 1..Len(s) |-> s[(Len(s) - j) + 1]] /\ Len(s) \in Nat
  BY DEF Reverse
<1>2. i \in 1..Len(s) /\ (Len(s) - i) + 1 \in DOMAIN s
  BY <1>1
<1>3. Reverse(s)[i] = s[(Len(s) - i) + 1]
  BY <1>1, <1>2
<1>4. QED BY <1>2, <1>3 DEF ToSet

\* The operation is one of the migration, or of its rollback.
LEMMA OpOfPlan ==
  ASSUME MigTypes, NEW p \in Procs, Placed(p), pc[p] \in AtOps
  PROVE  /\ Version(p) \in DOMAIN plan
         /\ call[p] # "rollback" => Op(p) \in ToSet(plan[Version(p)].up)
         /\ call[p] = "rollback" => Op(p) \in ToSet(plan[Version(p)].down)
<1> DEFINE v == Version(p)
<1>1. v \in DOMAIN plan /\ at[p] \in DOMAIN Ops(call[p], v)
  BY DEF Placed
<1>2. /\ plan[v].up \in Seq(ToSet(plan[v].up))
      /\ plan[v].down \in Seq(ToSet(plan[v].down))
  BY <1>1, MigratorAssumption DEF MigTypes
<1>3. Op(p) = Ops(call[p], v)[at[p]]
  BY DEF Op
<1> HIDE DEF v
<1>4. CASE call[p] # "rollback"
  <2>1. at[p] \in DOMAIN plan[v].up /\ Op(p) = plan[v].up[at[p]]
    BY <1>1, <1>3, <1>4 DEF Ops
  <2>2. Op(p) \in ToSet(plan[v].up)
    BY <2>1 DEF ToSet
  <2>3. QED BY <1>1, <1>4, <2>2 DEF v
<1>5. CASE call[p] = "rollback"
  <2>1. at[p] \in DOMAIN Reverse(plan[v].down) /\ Op(p) = Reverse(plan[v].down)[at[p]]
    BY <1>1, <1>3, <1>5 DEF Ops
  <2>2. Op(p) \in ToSet(plan[v].down)
    BY <1>2, <2>1, ReversedMember
  <2>3. QED BY <1>1, <1>5, <2>2 DEF v
<1>6. QED BY <1>4, <1>5

\* Where nothing moves.
LEMMA SamePlace ==
  ASSUME NEW q \in Procs, plan' = plan, call'[q] = call[q], todo'[q] = todo[q], at'[q] = at[q]
  PROVE  /\ Version(q)' = Version(q) /\ Ops(call[q], Version(q))' = Ops(call[q], Version(q))
         /\ Op(q)' = Op(q)
<1>1. Version(q)' = Version(q)
  BY DEF Version
<1>2. Ops(call[q], Version(q))' = Ops(call[q], Version(q))
  BY <1>1 DEF Ops
<1>3. QED BY <1>1, <1>2 DEF Op

\* What a seed is, of the plan that is run.
LEMMA SeedFacts ==
  ASSUME SeedsAlone, MigTypes
  PROVE  /\ Guarded \subseteq Cells
         /\ \A v \in DOMAIN plan :
              /\ \A o \in ToSet(plan[v].up) :
                   /\ o.op = "InsertRow" => (<<o.t, o.key>> \in Guarded <=> o.guard)
                   /\ o.op = "UpdateRows" => <<o.t, o.to>> \notin Guarded
              /\ \A o \in ToSet(plan[v].up) \cup ToSet(plan[v].down) :
                   /\ o.op = "RawSql" => <<o.t, o.key>> \notin Guarded
                   /\ o.op = "RenameTable" => \A c \in Guarded : c[1] # o.to
<1>1. PICK s \in Settings : plan = s.plan
  BY DEF MigTypes
<1>2. Guarded = GuardedBy(s.plan)
  BY <1>1 DEF Guarded
<1>3. ASSUME NEW v \in DOMAIN plan, NEW o \in ToSet(plan[v].up), o.op = "InsertRow", o.guard
      PROVE  <<o.t, o.key>> \in Guarded
  BY <1>3 DEF Guarded, GuardedBy
<1>4. QED BY <1>1, <1>2, <1>3 DEF SeedsAlone

\* What a step of p leaves of where the calls are: the others stay, and p is at no
\* seed that it has already counted.
Settled(p) ==
  /\ at' \in [Procs -> Nat] /\ \A q \in Procs \ {p} : at'[q] = at[q]
  /\ Placed(p)' /\ Through(p)'
  /\ pc'[p] \in {"probing", "inserting"} => ~Op(p)'.guard

LEMMA EndSettles ==
  ASSUME MigTypes, at \in [Procs -> Nat], NEW p \in Procs, NEW how \in Ready, End(p, how)
  PROVE  Settled(p)
<1>1. at' = [at EXCEPT ![p] = 1] /\ pc'[p] = how
  BY Ended DEF End
<1>2. at' \in [Procs -> Nat] /\ \A q \in Procs \ {p} : at'[q] = at[q]
  BY <1>1
<1>3. pc'[p] \notin AtOps /\ pc'[p] \notin {"probing", "inserting"} /\ pc'[p] \notin Late
  BY <1>1 DEF Ready, AtOps, Late, InSql
<1>4. QED BY <1>2, <1>3 DEF Settled, Placed, Through

LEMMA GotoSettles ==
  ASSUME MigTypes, at \in [Procs -> Nat], plan' = plan, NEW p \in Procs,
         NEW how \in {"run", "apply", "rollback"}, NEW vs \in Seq(Nat),
         NEW i \in Nat \ {0}, Goto(p, how, vs, i)
  PROVE  Settled(p)
<1>1. CASE vs = <<>>
  BY <1>1, EndSettles DEF Goto, Ready
<1>2. CASE vs # <<>> /\ Head(vs) \notin ToSet(Registered[p])
  BY <1>2, EndSettles DEF Goto, Ready
<1>3. CASE vs # <<>> /\ Head(vs) \in ToSet(Registered[p])
  <2> DEFINE v == Head(vs)
             ops == Ops(how, v)
             st == Statement(how, v, i)
  <2>1. /\ pc \in [Procs -> Ready \cup InSql]
        /\ call \in [Procs -> {"none", "run", "apply", "rollback"}]
        /\ todo \in [Procs -> Seq(Nat)]
        /\ \E s \in Settings : plan = s.plan
    BY DEF MigTypes
  <2>2. /\ pc' = [pc EXCEPT ![p] = st]
        /\ call' = [call EXCEPT ![p] = how]
        /\ todo' = [todo EXCEPT ![p] = vs]
        /\ at' = [at EXCEPT ![p] = i]
    BY <1>3 DEF Goto
  <2>3. v \in DOMAIN plan
    BY <1>3, <2>1, MigratorAssumption
  <2>4. \E S : ops \in Seq(S)
    <3>1. /\ plan[v].up \in Seq(ToSet(plan[v].up))
          /\ plan[v].down \in Seq(ToSet(plan[v].down))
      BY <2>1, <2>3, MigratorAssumption
    <3> HIDE DEF v
    <3>2. CASE how = "rollback"
      <4>1. Reverse(plan[v].down) \in Seq(ToSet(plan[v].down))
        BY <3>1 DEF Reverse
      <4>2. QED BY <3>2, <4>1 DEF Ops
    <3>3. CASE how # "rollback"
      BY <3>1, <3>3 DEF Ops
    <3>4. QED BY <3>2, <3>3
  <2>5. st = IF i > Len(ops) THEN "recording" ELSE FirstStatement(how, ops[i])
    BY DEF Statement
  <2> HIDE DEF ops, st, v
  <2>6. /\ pc'[p] = st /\ call'[p] = how /\ todo'[p] = vs /\ at'[p] = i
        /\ at' \in [Procs -> Nat] /\ \A q \in Procs \ {p} : at'[q] = at[q]
    BY <2>1, <2>2
  <2>7. Version(p)' = v /\ Ops(call[p], Version(p))' = ops /\ Op(p)' = ops[i]
    <3>1. Version(p)' = v
      BY <2>6 DEF Version, v
    <3>2. Ops(call[p], Version(p))' = ops
      BY <2>6, <3>1 DEF Ops, ops
    <3>3. QED BY <2>6, <3>1, <3>2 DEF Op
  <2>8. CASE i > Len(ops)
    <3>1. pc'[p] \notin AtOps /\ pc'[p] \notin {"probing", "inserting"}
      BY <2>5, <2>6, <2>8 DEF AtOps
    <3>2. Through(p)'
      BY <1>3, <2>6, <2>7, <2>8 DEF Through, v
    <3>3. QED BY <2>6, <3>1, <3>2 DEF Settled, Placed
  <2>9. CASE ~(i > Len(ops))
    <3>1. i \in DOMAIN ops
      BY <2>4, <2>9
    <3> DEFINE o == ops[i]
    <3>2. pc'[p] = FirstStatement(how, o)
      BY <2>5, <2>6, <2>9
    <3> HIDE DEF o
    <3>3. /\ pc'[p] = "operation" => how = "rollback" \/ o.op # "InsertRow"
          /\ pc'[p] # "operation" => how # "rollback" /\ o.op = "InsertRow"
          /\ pc'[p] = "counting" => o.guard
          /\ pc'[p] \in {"probing", "inserting"} => ~o.guard
          /\ pc'[p] # "recording"
      BY <3>2 DEF FirstStatement, AfterCount
    <3>4. Op(p)' = o
      BY <2>7 DEF o
    <3>5. Placed(p)'
      <4>1. /\ Version(p)' \in DOMAIN plan' /\ at'[p] \in DOMAIN Ops(call[p], Version(p))'
        BY <2>3, <2>6, <2>7, <3>1
      <4>2. QED BY <2>6, <3>3, <3>4, <4>1 DEF Placed
    <3>6. Through(p)'
      BY <1>3, <2>6, <2>7, <3>3 DEF Through, v
    <3>7. QED BY <2>6, <3>3, <3>4, <3>5, <3>6 DEF Settled
  <2>10. QED BY <2>8, <2>9
<1>4. QED BY <1>1, <1>2, <1>3

\* What RowsAfter makes of the seeds, when no other call is in flight.
LEMMA SeedsKept ==
  ASSUME SeedsAlone, MigTypes, PlaceInv, SeedInv, NEW p \in Procs,
         pc[p] = "inserting" \/ (pc[p] = "operation" /\ ~DebugText(p)),
         rows' = RowsAfter(Op(p))
  PROVE  /\ rows' = [c \in Cells |-> rows'[c]]
         /\ "overlap" \notin marks => \A c \in Guarded : rows'[c] \in {0, 1}
<1> DEFINE o == Op(p)
           S == Guarded
<1>1. rows = [c \in Cells |-> rows[c]]
  BY DEF SeedInv
<1>2. /\ S \subseteq Cells
      /\ pc[p] = "inserting" => /\ o.op = "InsertRow" /\ call[p] # "rollback"
                                /\ <<o.t, o.key>> \in S <=> o.guard
      /\ pc[p] = "operation" => o.op # "InsertRow"
      /\ o.op = "UpdateRows" => <<o.t, o.to>> \notin S
      /\ o.op = "RawSql" => <<o.t, o.key>> \notin S
      /\ o.op = "RenameTable" => \A c \in S : c[1] # o.to
  <2>1. Placed(p) /\ pc[p] \in AtOps
    BY DEF PlaceInv, AtOps
  <2>2. /\ Version(p) \in DOMAIN plan
        /\ call[p] # "rollback" => o \in ToSet(plan[Version(p)].up)
        /\ call[p] = "rollback" => o \in ToSet(plan[Version(p)].down)
    BY <2>1, OpOfPlan
  <2>3. /\ pc[p] = "inserting" => call[p] # "rollback" /\ o.op = "InsertRow"
        /\ pc[p] = "operation" => call[p] = "rollback" \/ o.op # "InsertRow"
    BY <2>1 DEF Placed, AtOps
  <2>4. pc[p] = "operation" /\ call[p] = "rollback" => o.op \notin {"InsertRow", "UpdateRows"}
    BY DEF DebugText, DataOps
  <2> HIDE DEF o, S
  <2>5. /\ S \subseteq Cells
        /\ \A v \in DOMAIN plan :
             /\ \A x \in ToSet(plan[v].up) :
                  /\ x.op = "InsertRow" => (<<x.t, x.key>> \in S <=> x.guard)
                  /\ x.op = "UpdateRows" => <<x.t, x.to>> \notin S
             /\ \A x \in ToSet(plan[v].up) \cup ToSet(plan[v].down) :
                  /\ x.op = "RawSql" => <<x.t, x.key>> \notin S
                  /\ x.op = "RenameTable" => \A c \in S : c[1] # x.to
    BY SeedFacts DEF S
  <2>6. CASE call[p] = "rollback"
    BY <2>2, <2>3, <2>4, <2>5, <2>6
  <2>7. CASE call[p] # "rollback"
    BY <2>2, <2>3, <2>5, <2>7
  <2>8. QED BY <2>6, <2>7
<1>3. pc[p] = "inserting" /\ o.guard /\ "overlap" \notin marks => rows[<<o.t, o.key>>] = 0
  BY DEF SeedInv, Checked, Seed
<1>4. "overlap" \notin marks => \A c \in S : rows[c] \in {0, 1}
  BY DEF SeedInv
<1>5. rows' = RowsAfter(o) /\ (pc[p] = "inserting" \/ pc[p] = "operation")
  OBVIOUS
<1>6. Sum2(0, 1) \in {0, 1}
  BY MigratorAssumption DEF Sum2
<1> HIDE DEF o, S
<1>7. CASE o.op = "DropTable"
  BY <1>1, <1>2, <1>4, <1>5, <1>7 DEF RowsAfter, S
<1>8. CASE o.op = "RenameTable"
  BY <1>1, <1>2, <1>4, <1>5, <1>8 DEF RowsAfter, S
<1>9. CASE o.op = "InsertRow"
  <2>1. rows' = rows \/ rows' = [rows EXCEPT ![<<o.t, o.key>>] = Sum2(@, 1)]
    BY <1>5, <1>9 DEF RowsAfter
  <2>2. CASE rows' = rows
    BY <1>1, <1>4, <2>2 DEF S
  <2>3. CASE rows' = [rows EXCEPT ![<<o.t, o.key>>] = Sum2(@, 1)]
    <3>1. rows' = [c \in Cells |-> IF c = <<o.t, o.key>> THEN Sum2(rows[c], 1) ELSE rows[c]]
      BY <1>1, <2>3
    <3>2. rows' = [c \in Cells |-> rows'[c]]
      BY <3>1
    <3>3. ASSUME "overlap" \notin marks, NEW c \in S PROVE rows'[c] \in {0, 1}
      <4>1. c \in Cells
        BY <1>2
      <4>2. CASE c = <<o.t, o.key>>
        <5>1. rows[c] = 0
          BY <1>2, <1>3, <1>5, <1>9, <3>3, <4>2
        <5>2. rows'[c] = Sum2(0, 1)
          BY <3>1, <4>1, <4>2, <5>1
        <5>3. QED BY <1>6, <5>2
      <4>3. CASE c # <<o.t, o.key>>
        <5>1. rows'[c] = rows[c]
          BY <3>1, <4>1, <4>3
        <5>2. QED BY <1>4, <3>3, <5>1
      <4>4. QED BY <4>2, <4>3
    <3>4. QED BY <3>2, <3>3 DEF S
  <2>4. QED BY <2>1, <2>2, <2>3
<1>10. CASE o.op = "RawSql"
  <2>1. rows' = [rows EXCEPT ![<<o.t, o.key>>] = Sum2(@, 1)]
    BY <1>5, <1>10 DEF RowsAfter
  <2>2. rows' = [c \in Cells |-> IF c = <<o.t, o.key>> THEN Sum2(rows[c], 1) ELSE rows[c]]
    BY <1>1, <2>1
  <2>3. <<o.t, o.key>> \notin S
    BY <1>2, <1>10
  <2>4. QED BY <1>2, <1>4, <2>2, <2>3 DEF S
<1>11. CASE o.op = "UpdateRows"
  BY <1>1, <1>2, <1>4, <1>5, <1>11 DEF RowsAfter, S
<1>12. CASE o.op = "DeleteRows"
  BY <1>1, <1>2, <1>4, <1>5, <1>12 DEF RowsAfter, S
<1>13. CASE o.op \notin {"DropTable", "RenameTable", "InsertRow", "RawSql", "UpdateRows", "DeleteRows"}
  <2>1. rows' = rows
    BY <1>5, <1>13 DEF RowsAfter
  <2>2. QED BY <1>1, <1>4, <2>1 DEF S
<1>14. QED BY <1>7, <1>8, <1>9, <1>10, <1>11, <1>12, <1>13

\* A step of p leaves every call at a place of its plan.
LEMMA PlaceCarry ==
  ASSUME MigTypes, PlaceInv, NEW p \in Procs, Frame(p),
         at' \in [Procs -> Nat], \A q \in Procs \ {p} : at'[q] = at[q],
         plan' = plan, marks \subseteq marks', Placed(p)', Through(p)',
         pc'[p] \notin Ready => pc[p] \notin Ready \/ Others(p) = {} \/ "overlap" \in marks'
  PROVE  PlaceInv'
<1>1. \A q \in Procs \ {p} : pc'[q] = pc[q] /\ call'[q] = call[q] /\ todo'[q] = todo[q]
  BY DEF Frame
<1>2. Alone'
  <2>1. SUFFICES ASSUME NEW q \in Procs, NEW r \in Procs, q # r,
                        pc'[q] \notin Ready, pc'[r] \notin Ready
                 PROVE  "overlap" \in marks'
    BY DEF Alone
  <2>2. ASSUME NEW u \in Procs \ {p}, pc'[u] \notin Ready, pc'[p] \notin Ready
        PROVE  "overlap" \in marks'
    <3>1. pc[u] \notin Ready /\ u \in Others(p)
      BY <1>1, <2>2 DEF Others
    <3>2. pc[p] \notin Ready => "overlap" \in marks
      BY <3>1 DEF PlaceInv, Alone
    <3>3. QED BY <2>2, <3>1, <3>2
  <2>3. CASE q = p \/ r = p
    BY <2>1, <2>2, <2>3
  <2>4. CASE q # p /\ r # p
    BY <1>1, <2>1, <2>4 DEF PlaceInv, Alone
  <2>5. QED BY <2>3, <2>4
<1>3. ASSUME NEW q \in Procs \ {p} PROVE Placed(q)' /\ Through(q)'
  <2>1. /\ pc'[q] = pc[q] /\ call'[q] = call[q] /\ todo'[q] = todo[q] /\ at'[q] = at[q]
        /\ Placed(q) /\ Through(q)
    BY <1>1 DEF PlaceInv
  <2>2. Ops(call[q], Version(q))' = Ops(call[q], Version(q)) /\ Version(q)' = Version(q) /\ Op(q)' = Op(q)
    BY <2>1, SamePlace
  <2>3. QED BY <2>1, <2>2 DEF Placed, Through
<1>4. QED BY <1>2, <1>3 DEF PlaceInv

\* It keeps the seeds if it leaves p settled, or at a seed it has just found missing,
\* and writes rows only as the one call in flight.
LEMMA SeedsCarry ==
  ASSUME MigTypes, PlaceInv, SeedInv, NEW p \in Procs, Frame(p),
         \A q \in Procs \ {p} : at'[q] = at[q],
         plan' = plan, marks \subseteq marks', Checked(p)',
         rows' = [c \in Cells |-> rows'[c]],
         "overlap" \notin marks => \A c \in Guarded : rows'[c] \in {0, 1},
         rows' = rows \/ pc[p] \notin Ready
  PROVE  SeedInv'
<1>1. \A q \in Procs \ {p} : pc'[q] = pc[q] /\ call'[q] = call[q] /\ todo'[q] = todo[q]
  BY DEF Frame
<1>2. ASSUME NEW q \in Procs \ {p} PROVE Checked(q)'
  <2>1. /\ pc'[q] = pc[q] /\ call'[q] = call[q] /\ todo'[q] = todo[q] /\ at'[q] = at[q]
        /\ Checked(q)
    BY <1>1 DEF SeedInv
  <2>2. Op(q)' = Op(q)
    BY <2>1, SamePlace
  <2>3. CASE rows' = rows
    BY <2>1, <2>2, <2>3 DEF Checked, Seed
  <2>4. CASE pc[p] \notin Ready /\ pc[q] \notin Ready
    <3>1. "overlap" \in marks
      BY <2>4 DEF PlaceInv, Alone
    <3>2. QED BY <3>1 DEF Checked
  <2>5. CASE pc[q] \in Ready
    <3>1. pc'[q] \notin {"probing", "inserting"}
      BY <2>1, <2>5 DEF Ready
    <3>2. QED BY <3>1 DEF Checked
  <2>6. QED BY <2>3, <2>4, <2>5
<1>3. "overlap" \notin marks' => \A c \in Guarded' : rows'[c] \in {0, 1}
  BY DEF Guarded
<1>4. QED BY <1>2, <1>3 DEF SeedInv

\* The usual case: p is settled.
LEMMA SettledCarry ==
  ASSUME MigTypes, PlaceInv, NEW p \in Procs, Frame(p), Settled(p),
         plan' = plan, marks \subseteq marks', rows' = rows \/ pc[p] \notin Ready,
         pc'[p] \notin Ready => pc[p] \notin Ready \/ Others(p) = {} \/ "overlap" \in marks'
  PROVE  /\ PlaceInv'
         /\ /\ SeedInv
            /\ rows' = [c \in Cells |-> rows'[c]]
            /\ "overlap" \notin marks => \A c \in Guarded : rows'[c] \in {0, 1}
            => SeedInv'
<1>1. /\ at' \in [Procs -> Nat] /\ \A q \in Procs \ {p} : at'[q] = at[q]
      /\ Placed(p)' /\ Through(p)' /\ Checked(p)'
  BY DEF Settled, Checked
<1>2. PlaceInv'
  BY <1>1, PlaceCarry
<1>3. QED BY <1>1, <1>2, SeedsCarry

\* What the steps below are shown to keep.
Kept == PlaceInv' /\ (SeedsAlone /\ SeedInv => SeedInv')

\* The same without a write.
LEMMA QuietCarry ==
  ASSUME MigTypes, PlaceInv, NEW p \in Procs, Frame(p), Settled(p),
         plan' = plan, marks \subseteq marks', rows' = rows,
         pc'[p] \notin Ready => pc[p] \notin Ready \/ Others(p) = {} \/ "overlap" \in marks'
  PROVE  Kept
<1>1. SeedInv => /\ rows' = [c \in Cells |-> rows'[c]]
                 /\ "overlap" \notin marks => \A c \in Guarded : rows'[c] \in {0, 1}
  BY DEF SeedInv
<1>2. QED BY <1>1, SettledCarry DEF Kept

LEMMA StopSettles ==
  ASSUME MigTypes, PlaceInv, NEW p \in Procs, Fail(p) \/ Drop(p)
  PROVE  Settled(p) /\ pc'[p] \in Ready
<1>1. PICK how \in {"failed", "down"} : End(p, how)
  BY DEF Fail, Drop
<1>2. how \in Ready /\ at \in [Procs -> Nat]
  BY DEF Ready, PlaceInv
<1>3. Settled(p)
  BY <1>1, <1>2, EndSettles
<1>4. pc'[p] \in Ready
  BY <1>1, <1>2, Ended
<1>5. QED BY <1>3, <1>4

\* A call that ends without a write.
LEMMA StopCarry ==
  ASSUME MigTypes, PlaceInv, NEW p \in Procs, Fail(p) \/ Drop(p), plan' = plan, rows' = rows
  PROVE  Kept
<1>1. Frame(p) /\ marks \subseteq marks'
  BY Stopped
<1>2. Settled(p) /\ pc'[p] \in Ready
  BY StopSettles
<1>3. QED BY <1>1, <1>2, QuietCarry

\* A call that goes on with its next operation or its next version.
LEMMA NextSettles ==
  ASSUME MigTypes, PlaceInv, NEW p \in Procs, Shape(p), pc[p] \in Late, plan' = plan,
         NextOp(p) \/ Goto(p, call[p], Tail(todo[p]), 1)
  PROVE  Frame(p) /\ Settled(p)
<1>1. /\ call[p] \in {"run", "apply", "rollback"} /\ todo[p] \in Seq(Nat) /\ todo[p] # <<>>
  BY AtWork
<1>2. at \in [Procs -> Nat] /\ at[p] + 1 \in Nat \ {0} /\ 1 \in Nat \ {0}
  BY DEF PlaceInv
<1>3. Tail(todo[p]) \in Seq(Nat)
  BY <1>1, FrontVersion
<1>4. CASE NextOp(p)
  <2>1. Goto(p, call[p], todo[p], at[p] + 1)
    BY <1>4 DEF NextOp
  <2>2. Settled(p)
    BY <1>1, <1>2, <2>1, GotoSettles
  <2>3. Frame(p)
    BY <1>1, <2>1, Went
  <2>4. QED BY <2>2, <2>3
<1>5. CASE Goto(p, call[p], Tail(todo[p]), 1)
  <2>1. Settled(p)
    BY <1>1, <1>2, <1>3, <1>5, GotoSettles
  <2>2. Frame(p)
    BY <1>1, <1>3, <1>5, Went
  <2>3. QED BY <2>1, <2>2
<1>6. QED BY <1>4, <1>5

LEMMA BeginSeeds ==
  ASSUME MigInv, PlaceInv, NEW p \in Procs,
         RunMigrations(p) \/ ApplyMigration(p) \/ RollbackMigration(p) \/ RollbackAll(p)
  PROVE  Kept
<1>1. /\ plan' = plan /\ rows' = rows /\ marks \subseteq marks'
      /\ Others(p) = {} \/ "overlap" \in marks'
  BY DEF RunMigrations, ApplyMigration, RollbackMigration, RollbackAll, Begin, dbVars
<1>2. MigTypes /\ at \in [Procs -> Nat] /\ 1 \in Nat \ {0}
  BY DEF MigInv, PlaceInv
<1>3. ASSUME NEW how \in {"apply", "rollback"}, NEW vs \in Seq(Nat), Goto(p, how, vs, 1)
      PROVE  Kept
  <2>1. Settled(p)
    BY <1>1, <1>2, <1>3, GotoSettles
  <2>2. Frame(p)
    BY <1>2, <1>3, Went
  <2>3. QED BY <1>1, <1>2, <2>1, <2>2, QuietCarry
<1>4. CASE RunMigrations(p)
  <2>1. /\ pc' = [pc EXCEPT ![p] = "initializing"] /\ call' = [call EXCEPT ![p] = "run"]
        /\ todo' = todo /\ at' = at
    BY <1>4 DEF RunMigrations
  <2>2. /\ pc \in [Procs -> Ready \cup InSql]
        /\ call \in [Procs -> {"none", "run", "apply", "rollback"}]
        /\ todo \in [Procs -> Seq(Nat)]
    BY <1>2 DEF MigTypes
  <2>3. pc'[p] = "initializing" /\ "initializing" \in InSql
    BY <2>1, <2>2 DEF InSql
  <2>4. Frame(p)
    <3>1. pc' \in [Procs -> Ready \cup InSql]
      BY <2>1, <2>2, <2>3
    <3>2. call' \in [Procs -> {"none", "run", "apply", "rollback"}] /\ todo' \in [Procs -> Seq(Nat)]
      BY <2>1, <2>2
    <3>3. \A q \in Procs \ {p} : pc'[q] = pc[q] /\ call'[q] = call[q] /\ todo'[q] = todo[q]
      BY <2>1, <2>2
    <3>4. QED BY <3>1, <3>2, <3>3 DEF Frame
  <2>5. Settled(p)
    BY <1>2, <2>1, <2>3 DEF Settled, Placed, Through, AtOps, Late, InSql
  <2>6. QED BY <1>1, <1>2, <2>4, <2>5, QuietCarry
<1>5. CASE ApplyMigration(p) \/ RollbackMigration(p)
  <2>1. PICK v \in ToSet(Registered[p]) : Goto(p, "apply", <<v>>, 1) \/ Goto(p, "rollback", <<v>>, 1)
    BY <1>5 DEF ApplyMigration, RollbackMigration
  <2>2. Registered[p] \in Seq(Nat)
    BY MigratorAssumption
  <2>3. v \in Nat
    BY <2>2 DEF ToSet
  <2>4. <<v>> \in Seq(Nat)
    BY <2>3
  <2>5. QED BY <1>3, <2>1, <2>4
<1>6. CASE RollbackAll(p)
  <2>1. Goto(p, "rollback", Descending(applied[p]), 1)
    BY <1>6 DEF RollbackAll
  <2>2. Descending(applied[p]) \in Seq(Nat)
    BY <1>2, DescendingFacts DEF MigTypes
  <2>3. QED BY <1>3, <2>1, <2>2
<1>7. QED BY <1>4, <1>5, <1>6

\* Statements that write no row.
LEMMA QuietSeeds ==
  ASSUME MigInv, PlaceInv, NEW p \in Procs,
         Initialize(p) \/ Load(p) \/ Record(p) \/ Unrecord(p) \/ Crash(p)
  PROVE  Kept
<1>1. plan' = plan /\ rows' = rows /\ MigTypes /\ Shape(p) /\ at \in [Procs -> Nat]
  BY DEF Initialize, Load, Query, Record, Unrecord, Crash, Send, dbVars, MigInv, ProcOK, PlaceInv
<1>2. CASE Fail(p) \/ Drop(p)
  BY <1>1, <1>2, StopCarry
<1>3. CASE Initialize(p) /\ ~(Fail(p) \/ Drop(p))
  <2>1. /\ pc' = [pc EXCEPT ![p] = "loading"] /\ call' = call /\ todo' = todo /\ at' = at
        /\ marks' = marks /\ pc[p] = "initializing"
    BY <1>3 DEF Initialize, Send
  <2>2. pc \in [Procs -> Ready \cup InSql]
    BY <1>1 DEF MigTypes
  <2>3. pc'[p] = "loading" /\ pc[p] \notin Ready
    BY <2>1, <2>2 DEF Ready
  <2>4. Settled(p)
    BY <1>1, <2>1, <2>3 DEF Settled, Placed, Through, AtOps, Late, InSql
  <2>5. Frame(p)
    BY <1>1, <1>3, StepsAreTurns DEF Turn
  <2>6. QED BY <1>1, <2>1, <2>3, <2>4, <2>5, QuietCarry
<1>4. CASE Load(p) /\ ~(Fail(p) \/ Drop(p))
  <2>1. Goto(p, "run", Retain(Registered[p], recorded), 1) /\ marks' = marks /\ pc[p] = "loading"
    BY <1>4 DEF Load, Query, Send, Loaded
  <2>2. Registered[p] \in Seq(Nat)
    BY MigratorAssumption
  <2>3. Retain(Registered[p], recorded) \in Seq(Nat) /\ 1 \in Nat \ {0}
    BY <2>2, PendingFacts
  <2>4. Settled(p)
    BY <1>1, <2>1, <2>3, GotoSettles
  <2>5. Frame(p) /\ pc[p] \notin Ready
    BY <1>1, <2>1, <2>3, Went DEF Ready
  <2>6. QED BY <1>1, <2>1, <2>4, <2>5, QuietCarry
<1>5. CASE (Record(p) \/ Unrecord(p)) /\ ~(Fail(p) \/ Drop(p))
  <2>1. Goto(p, call[p], Tail(todo[p]), 1) /\ marks' = marks /\ pc[p] = "recording"
    BY <1>5 DEF Record, Unrecord, Send
  <2>2. pc[p] \in Late /\ pc[p] \notin Ready
    BY <2>1 DEF Late, InSql, Ready
  <2>3. Frame(p) /\ Settled(p)
    BY <1>1, <2>1, <2>2, NextSettles
  <2>4. QED BY <1>1, <2>1, <2>2, <2>3, QuietCarry
<1>6. CASE Crash(p)
  BY <1>2, <1>6 DEF Crash
<1>7. QED BY <1>2, <1>3, <1>4, <1>5, <1>6

\* The count and the probe: who goes on to the INSERT of a seed has found it missing.
LEMMA LookSeeds ==
  ASSUME MigInv, PlaceInv, NEW p \in Procs, CheckConflict(p) \/ ProbeLookups(p)
  PROVE  Kept
<1>1. /\ plan' = plan /\ rows' = rows /\ MigTypes /\ Shape(p) /\ at \in [Procs -> Nat]
      /\ pc[p] \in Late /\ pc[p] \notin Ready /\ pc[p] \in AtOps
  BY DEF CheckConflict, ProbeLookups, Query, Send, dbVars, MigInv, ProcOK, PlaceInv, Late,
         InSql, Ready, AtOps
<1>2. CASE Fail(p) \/ Drop(p)
  BY <1>1, <1>2, StopCarry
<1>3. CASE NextOp(p) /\ marks' = marks
  <2>1. Frame(p) /\ Settled(p)
    BY <1>1, <1>3, NextSettles
  <2>2. QED BY <1>1, <1>3, <2>1, QuietCarry
<1>4. ASSUME NEW st \in {"probing", "inserting"}, pc' = [pc EXCEPT ![p] = st],
             UNCHANGED <<call, todo, at, marks>>, pc[p] # "operation",
             SeedsAlone /\ SeedInv /\ "overlap" \notin marks /\ Op(p).guard => rows[Seed(p)] = 0
      PROVE  Kept
  <2>1. pc \in [Procs -> Ready \cup InSql]
    BY <1>1 DEF MigTypes
  <2>2. pc'[p] = st
    BY <1>4, <2>1
  <2>3. /\ Version(p)' = Version(p) /\ Ops(call[p], Version(p))' = Ops(call[p], Version(p))
        /\ Op(p)' = Op(p)
    BY <1>1, <1>4, SamePlace
  <2>4. Placed(p) /\ Through(p)
    BY DEF PlaceInv
  <2>5. Placed(p)' /\ Through(p)'
    BY <1>1, <1>4, <2>2, <2>3, <2>4 DEF Placed, Through
  <2>6. Frame(p)
    BY <1>1, StepsAreTurns DEF Turn
  <2>7. at' \in [Procs -> Nat] /\ (\A q \in Procs \ {p} : at'[q] = at[q]) /\ marks \subseteq marks'
    BY <1>1, <1>4
  <2>8. PlaceInv'
    BY <1>1, <2>5, <2>6, <2>7, PlaceCarry
  <2>9. ASSUME SeedsAlone, SeedInv PROVE SeedInv'
    <3>1. Checked(p)'
      BY <1>1, <1>4, <2>2, <2>3, <2>9 DEF Checked, Seed
    <3>2. rows' = [c \in Cells |-> rows'[c]]
      BY <1>1, <2>9 DEF SeedInv
    <3>3. "overlap" \notin marks => \A c \in Guarded : rows'[c] \in {0, 1}
      BY <1>1, <2>9 DEF SeedInv
    <3>4. QED BY <1>1, <2>6, <2>7, <2>9, <3>1, <3>2, <3>3, SeedsCarry
  <2>10. QED BY <2>8, <2>9 DEF Kept
<1>5. CASE CheckConflict(p)
  <2>1. \/ NextOp(p) /\ marks' = marks
        \/ /\ ~(rows[Seed(p)] > 0) /\ pc' = [pc EXCEPT ![p] = AfterCount(Op(p))]
           /\ UNCHANGED <<call, todo, at, marks>>
        \/ Fail(p) \/ Drop(p)
    BY <1>5 DEF CheckConflict, Query, Send, CountRows, Seed
  <2>2. pc[p] = "counting" /\ AfterCount(Op(p)) \in {"probing", "inserting"}
    BY <1>5 DEF CheckConflict, AfterCount
  <2>3. ASSUME SeedsAlone, SeedInv, "overlap" \notin marks, Op(p).guard
        PROVE  rows[Seed(p)] \in {0, 1}
    <3>1. Placed(p)
      BY DEF PlaceInv
    <3>2. Version(p) \in DOMAIN plan /\ Op(p) \in ToSet(plan[Version(p)].up) /\ Op(p).op = "InsertRow"
      BY <1>1, <2>2, <3>1, OpOfPlan DEF Placed
    <3>3. Seed(p) \in Guarded
      BY <1>1, <2>3, <3>2, SeedFacts DEF Seed
    <3>4. QED BY <2>3, <3>3 DEF SeedInv
  <2>4. ~(rows[Seed(p)] > 0) =>
          (SeedsAlone /\ SeedInv /\ "overlap" \notin marks /\ Op(p).guard => rows[Seed(p)] = 0)
    BY <2>3
  <2>5. QED BY <1>2, <1>3, <1>4, <2>1, <2>2, <2>4
<1>6. CASE ProbeLookups(p)
  <2>1. \/ NextOp(p) /\ marks' = marks
        \/ pc' = [pc EXCEPT ![p] = "inserting"] /\ UNCHANGED <<call, todo, at, marks>>
        \/ Fail(p) \/ Drop(p)
    BY <1>6 DEF ProbeLookups, Query, Send
  <2>2. pc[p] = "probing"
    BY <1>6 DEF ProbeLookups
  <2>3. SeedsAlone /\ SeedInv /\ "overlap" \notin marks /\ Op(p).guard => rows[Seed(p)] = 0
    BY <2>2 DEF SeedInv, Checked
  <2>4. QED BY <1>2, <1>3, <1>4, <2>1, <2>2, <2>3
<1>7. QED BY <1>5, <1>6

LEMMA WriteSeeds ==
  ASSUME MigInv, PlaceInv, NEW p \in Procs, Operation(p) \/ InsertRow(p)
  PROVE  Kept
<1>1. /\ plan' = plan /\ MigTypes /\ Shape(p) /\ at \in [Procs -> Nat]
      /\ pc[p] \in Late /\ pc[p] \notin Ready
  BY DEF Operation, InsertRow, Send, MigInv, ProcOK, PlaceInv, Late, InSql, Ready
<1>2. \/ rows' = rows /\ (Fail(p) \/ Drop(p))
      \/ rows' = RowsAfter(Op(p)) /\ Drop(p)
      \/ rows' = RowsAfter(Op(p)) /\ NextOp(p) /\ marks' = marks
  BY DEF Operation, InsertRow, Send, dbVars
<1>3. CASE rows' = rows /\ (Fail(p) \/ Drop(p))
  BY <1>1, <1>3, StopCarry
<1>4. CASE rows' = RowsAfter(Op(p)) /\ ~(rows' = rows /\ (Fail(p) \/ Drop(p)))
  <2>1. pc[p] = "inserting" \/ (pc[p] = "operation" /\ ~DebugText(p))
    BY <1>4 DEF Operation, InsertRow, Send, dbVars
  <2>2. SeedsAlone /\ SeedInv =>
          /\ rows' = [c \in Cells |-> rows'[c]]
          /\ "overlap" \notin marks => \A c \in Guarded : rows'[c] \in {0, 1}
    BY <1>1, <1>4, <2>1, SeedsKept
  <2>3. CASE Drop(p)
    <3>1. Frame(p) /\ marks \subseteq marks' /\ Settled(p) /\ pc'[p] \in Ready
      BY <1>1, <2>3, Stopped, StopSettles
    <3>2. QED BY <1>1, <2>2, <3>1, SettledCarry DEF Kept
  <2>4. CASE NextOp(p) /\ marks' = marks
    <3>1. Frame(p) /\ Settled(p)
      BY <1>1, <2>4, NextSettles
    <3>2. QED BY <1>1, <2>2, <2>4, <3>1, SettledCarry DEF Kept
  <2>5. QED BY <1>2, <1>4, <2>3, <2>4
<1>5. QED BY <1>2, <1>3, <1>4

LEMMA PlaceInit ==
  ASSUME Init
  PROVE  PlaceInv
<1>1. at = [p \in Procs |-> 1] /\ pc = [p \in Procs |-> "idle"]
  BY DEF Init
<1>2. at \in [Procs -> Nat]
  BY <1>1
<1>3. \A p \in Procs : pc[p] \in Ready /\ pc[p] \notin AtOps /\ pc[p] \notin Late
  BY <1>1 DEF Ready, AtOps, Late, InSql
<1>4. QED BY <1>2, <1>3 DEF PlaceInv, Alone, Placed, Through

LEMMA SeedInit ==
  ASSUME SeedsAlone, Init
  PROVE  SeedInv
<1>1. rows = [c \in Cells |-> 0] /\ pc = [p \in Procs |-> "idle"]
  BY DEF Init
<1>2. \A p \in Procs : Checked(p)
  BY <1>1 DEF Checked
<1>3. Guarded \subseteq Cells
  BY MigInit, SeedFacts DEF MigInv
<1>4. QED BY <1>1, <1>2, <1>3 DEF SeedInv

LEMMA StepKeeps ==
  ASSUME MigInv, PlaceInv, [Next]_vars
  PROVE  Kept
<1>1. CASE UNCHANGED vars
  <2>1. UNCHANGED <<plan, rows, pc, call, todo, at, marks>>
    BY <1>1 DEF vars, callVars, dbVars
  <2>2. \A p \in Procs : /\ Version(p)' = Version(p) /\ Op(p)' = Op(p)
                         /\ Ops(call[p], Version(p))' = Ops(call[p], Version(p))
    BY <2>1, SamePlace
  <2>3. PlaceInv'
    BY <2>1, <2>2 DEF PlaceInv, Alone, Placed, Through
  <2>4. SeedInv => SeedInv'
    BY <2>1, <2>2 DEF SeedInv, Checked, Seed, Guarded
  <2>5. QED BY <2>3, <2>4 DEF Kept
<1>2. CASE Next
  <2>1. PICK p \in Procs :
          \/ RunMigrations(p) \/ ApplyMigration(p) \/ RollbackMigration(p) \/ RollbackAll(p)
          \/ Initialize(p) \/ Load(p) \/ Operation(p)
          \/ CheckConflict(p) \/ ProbeLookups(p) \/ InsertRow(p)
          \/ Record(p) \/ Unrecord(p) \/ Crash(p)
    BY <1>2 DEF Next
  <2>2. QED BY <2>1, BeginSeeds, QuietSeeds, LookSeeds, WriteSeeds
<1>3. QED BY <1>1, <1>2

\* Where in its plan each call is.
THEOREM MigratorPlaces == Spec => []PlaceInv
<1>1. Init => PlaceInv
  BY PlaceInit
<1>2. MigInv /\ PlaceInv /\ [Next]_vars => PlaceInv'
  BY StepKeeps DEF Kept
<1>3. QED BY <1>1, <1>2, MigInvariant, PTL DEF Spec

\* Of programs that leave their seeds alone, a row with conflict columns is inserted
\* once, whatever fails, is lost, dies and is run again, for any number of processes and
\* any plan, as long as no two calls overlap.
THEOREM MigratorSeedOnce ==
  ASSUME SeedsAlone
  PROVE  Spec => []SeedOnce
<1>1. Init => SeedInv
  BY SeedInit
<1>2. MigInv /\ PlaceInv /\ SeedInv /\ [Next]_vars => SeedInv'
  BY StepKeeps DEF Kept
<1>3. SeedInv => SeedOnce
  BY DEF SeedInv, SeedOnce
<1>4. QED BY <1>1, <1>2, <1>3, MigInvariant, MigratorPlaces, PTL DEF Spec

-----------------------------------------------------------------------------
(* Reruns.  While no mark is set one call is in flight and no rollback has *)
(* stopped half way.  Then the tables that last are there from the moment  *)
(* their migration has made them: those of the recorded versions, but for  *)
(* one being undone (Stands), and those of the migration that runs, up to  *)
(* its current operation (Laid).  StandInv adds, at any time, that no      *)
(* table but itself refers to one that a migration drops.                  *)

Formed(s)     == \A x \in s : x = Obj(x.k, x.t, x.n)
OwnKeys(s, D) == \A x \in s : x.k = "key" /\ x.n \in D => x.t = x.n

DroppedBy(m) ==
  {o.t : o \in {x \in UNION {ToSet(m[v].up) : v \in DOMAIN m} : x.op = "DropTable"}}

Stands(v) == \A t \in MadeBy(plan, v, Len(plan[v].up)) : Lasts(plan, t) => Tab(t) \in objects
Undone(v) == \E p \in Procs : call[p] = "rollback" /\ Version(p) = v

Laid(p) ==
  call[p] \in {"run", "apply"} /\ pc[p] \in Late =>
    \A t \in MadeBy(plan, Version(p), at[p] - 1) :
      Keeps(plan[Version(p)].up, t) => Tab(t) \in objects

StandInv ==
  /\ recorded \subseteq DOMAIN plan
  /\ Formed(objects) /\ OwnKeys(objects, DroppedBy(plan))
  /\ marks = {} => (\A v \in recorded : Undone(v) \/ Stands(v)) /\ \A p \in Procs : Laid(p)

\* What an operation makes of a schema.
LEMMA SchemaForms ==
  ASSUME NEW o, NEW s, Formed(s)
  PROVE  Formed(SchemaAfter(o, s))
<1>1. \A k, t, n : /\ Obj(k, t, n).k = k /\ Obj(k, t, n).t = t /\ Obj(k, t, n).n = n
  BY DEF Obj
<1>2. \A t, n : /\ \E k, u, m : Tab(t) = Obj(k, u, m)
                /\ \E k, u, m : Col(t, n) = Obj(k, u, m)
                /\ \E k, u, m : Idx(t, n) = Obj(k, u, m)
                /\ \E k, u, m : Key(t, n) = Obj(k, u, m)
  BY DEF Tab, Col, Idx, Key
<1>3. SUFFICES ASSUME NEW x \in SchemaAfter(o, s) PROVE \E k, t, n : x = Obj(k, t, n)
  BY <1>1 DEF Formed
<1>4. CASE x \in s
  BY <1>4 DEF Formed
<1>5. CASE o.op = "CreateTable"
  BY <1>2, <1>4, <1>5 DEF SchemaAfter
<1>6. CASE o.op = "DropTable"
  BY <1>4, <1>6 DEF SchemaAfter
<1>7. CASE o.op = "RenameTable"
  <2>1. PICK y \in s : x = Moved(y, o.t, o.to)
    BY <1>7 DEF SchemaAfter
  <2>2. PICK k, t, n : y = Obj(k, t, n)
    BY DEF Formed
  <2>3. x = Obj(k, IF t = o.t THEN o.to ELSE t, IF k = "key" /\ n = o.t THEN o.to ELSE n)
    BY <2>1, <2>2 DEF Moved, Obj
  <2>4. QED BY <2>3
<1>8. CASE o.op = "AddColumn"
  BY <1>2, <1>4, <1>8 DEF SchemaAfter
<1>9. CASE o.op = "DropColumn"
  BY <1>4, <1>9 DEF SchemaAfter
<1>10. CASE o.op = "RenameColumn"
  BY <1>2, <1>4, <1>10 DEF SchemaAfter
<1>11. CASE o.op = "AddIndex"
  BY <1>2, <1>4, <1>11 DEF SchemaAfter
<1>12. CASE o.op = "DropIndex"
  BY <1>4, <1>12 DEF SchemaAfter
<1>13. CASE o.op = "AddForeignKey"
  BY <1>2, <1>4, <1>13 DEF SchemaAfter
<1>14. CASE o.op = "DropForeignKey"
  BY <1>4, <1>14 DEF SchemaAfter
<1>15. CASE o.op \notin {"CreateTable", "DropTable", "RenameTable", "AddColumn", "DropColumn",
                        "RenameColumn", "AddIndex", "DropIndex", "AddForeignKey", "DropForeignKey"}
  BY <1>4, <1>15 DEF SchemaAfter
<1>16. QED
  BY <1>5, <1>6, <1>7, <1>8, <1>9, <1>10, <1>11, <1>12, <1>13, <1>14, <1>15

\* Its foreign keys: whose operations refer to no table of D but from itself.
LEMMA SchemaKeys ==
  ASSUME NEW o, NEW s, NEW D, Formed(s), OwnKeys(s, D),
         o.op = "AddForeignKey" /\ o.n \in D => o.t = o.n,
         o.op = "RenameTable" => o.to \notin D
  PROVE  OwnKeys(SchemaAfter(o, s), D)
<1>1. \A t, n : /\ Tab(t).k # "key" /\ Col(t, n).k # "key" /\ Idx(t, n).k # "key"
                /\ Key(t, n).t = t /\ Key(t, n).n = n
  BY DEF Tab, Col, Idx, Key, Obj
<1>2. SUFFICES ASSUME NEW x \in SchemaAfter(o, s), x.k = "key", x.n \in D
               PROVE  x.t = x.n
  BY DEF OwnKeys
<1>3. CASE x \in s
  BY <1>2, <1>3 DEF OwnKeys
<1>4. CASE o.op = "CreateTable"
  BY <1>1, <1>2, <1>3, <1>4 DEF SchemaAfter
<1>5. CASE o.op = "RenameTable"
  <2>1. PICK y \in s : x = Moved(y, o.t, o.to)
    BY <1>5 DEF SchemaAfter
  <2>2. PICK k, t, n : y = Obj(k, t, n)
    BY DEF Formed
  <2>3. x = Obj(k, IF t = o.t THEN o.to ELSE t, IF k = "key" /\ n = o.t THEN o.to ELSE n)
    BY <2>1, <2>2 DEF Moved, Obj
  <2>4. /\ x.k = k /\ x.t = (IF t = o.t THEN o.to ELSE t)
        /\ x.n = (IF k = "key" /\ n = o.t THEN o.to ELSE n)
        /\ y.k = k /\ y.t = t /\ y.n = n
    BY <2>2, <2>3 DEF Obj
  <2>5. k = "key" /\ n # o.t /\ n \in D
    BY <1>2, <1>5, <2>4
  <2>6. t = n
    BY <2>4, <2>5 DEF OwnKeys
  <2>7. QED BY <2>4, <2>5, <2>6
<1>6. CASE o.op \in {"AddColumn", "RenameColumn", "AddIndex"}
  BY <1>1, <1>2, <1>3, <1>6 DEF SchemaAfter
<1>7. CASE o.op = "AddForeignKey"
  BY <1>1, <1>2, <1>3, <1>7 DEF SchemaAfter
<1>8. CASE o.op \in {"DropTable", "DropColumn", "DropIndex", "DropForeignKey"}
  BY <1>3, <1>8 DEF SchemaAfter
<1>9. CASE o.op \notin {"CreateTable", "DropTable", "RenameTable", "AddColumn", "DropColumn",
                       "RenameColumn", "AddIndex", "DropIndex", "AddForeignKey", "DropForeignKey"}
  BY <1>3, <1>9 DEF SchemaAfter
<1>10. QED BY <1>4, <1>5, <1>6, <1>7, <1>8, <1>9

\* A table stays, unless the operation takes it away, and is there when it is created.
LEMMA SchemaTables ==
  ASSUME NEW o, NEW s, NEW t,
         \/ Tab(t) \in s /\ (o.op \in {"DropTable", "RenameTable"} => o.t # t)
         \/ o.op = "CreateTable" /\ o.t = t
  PROVE  Tab(t) \in SchemaAfter(o, s)
<1>1. \A u, n : Tab(t) # Col(u, n) /\ Tab(t) # Key(u, n)
  BY DEF Tab, Col, Key, Obj
<1>2. Tab(t).k = "table" /\ Tab(t).t = t
  BY DEF Tab, Obj
<1>3. CASE o.op = "CreateTable"
  BY <1>3 DEF SchemaAfter
<1>4. CASE o.op = "DropTable"
  BY <1>2, <1>4 DEF SchemaAfter
<1>5. CASE o.op = "RenameTable"
  <2>1. Tab(t) \in s /\ o.t # t
    BY <1>5
  <2>2. Moved(Tab(t), o.t, o.to) = Tab(t)
    BY <2>1 DEF Moved, Tab, Obj
  <2>3. QED BY <1>5, <2>1, <2>2 DEF SchemaAfter
<1>6. CASE o.op \in {"AddColumn", "AddIndex", "AddForeignKey"}
  BY <1>6 DEF SchemaAfter
<1>7. CASE o.op \in {"DropColumn", "RenameColumn", "DropForeignKey"}
  BY <1>1, <1>7 DEF SchemaAfter
<1>8. CASE o.op = "DropIndex"
  BY <1>2, <1>8 DEF SchemaAfter
<1>9. CASE o.op \notin {"CreateTable", "DropTable", "RenameTable", "AddColumn", "DropColumn",
                       "RenameColumn", "AddIndex", "DropIndex", "AddForeignKey", "DropForeignKey"}
  BY <1>9 DEF SchemaAfter
<1>10. QED BY <1>3, <1>4, <1>5, <1>6, <1>7, <1>8, <1>9

\* What is known of a call at a version.
LEMMA VersionFacts ==
  ASSUME MigTypes, PlaceInv, NEW p \in Procs, Shape(p), pc[p] \in Late
  PROVE  /\ todo[p] \in Seq(Nat) /\ todo[p] # <<>> /\ Version(p) \in Nat
         /\ Version(p) \in DOMAIN plan /\ Version(p) \in ToSet(Registered[p])
         /\ call[p] \in {"run", "apply", "rollback"} /\ at[p] \in Nat
         /\ \E n \in Nat : DOMAIN plan[Version(p)].up = 1..n /\ Len(plan[Version(p)].up) = n
<1>1. todo[p] \in Seq(Nat) /\ todo[p] # <<>> /\ call[p] \in {"run", "apply", "rollback"}
  BY AtWork
<1>2. Version(p) \in Nat
  BY <1>1, FrontVersion DEF Version
<1>3. Version(p) \in ToSet(Registered[p]) /\ at[p] \in Nat
  BY DEF PlaceInv, Through
<1>4. Version(p) \in DOMAIN plan
  BY <1>3, MigratorAssumption DEF MigTypes
<1>5. plan[Version(p)].up \in Seq(ToSet(plan[Version(p)].up))
  BY <1>4, MigratorAssumption DEF MigTypes
<1>6. \E n \in Nat : DOMAIN plan[Version(p)].up = 1..n /\ Len(plan[Version(p)].up) = n
  BY <1>5
<1>7. QED BY <1>1, <1>2, <1>3, <1>4, <1>6

\* The next operation of the same version.
LEMMA NextOpGoes ==
  ASSUME MigTypes, PlaceInv, NEW p \in Procs, Shape(p), pc[p] \in Late, NextOp(p)
  PROVE  pc'[p] \in Late /\ call'[p] = call[p] /\ todo'[p] = todo[p] /\ at'[p] = at[p] + 1
<1>1. /\ todo[p] # <<>> /\ Head(todo[p]) \in ToSet(Registered[p])
  BY VersionFacts DEF Version
<1> DEFINE st == Statement(call[p], Head(todo[p]), at[p] + 1)
<1>2. /\ pc' = [pc EXCEPT ![p] = st]
      /\ call' = [call EXCEPT ![p] = call[p]]
      /\ todo' = [todo EXCEPT ![p] = todo[p]]
      /\ at' = [at EXCEPT ![p] = at[p] + 1]
  BY <1>1 DEF NextOp, Goto
<1>3. st \in Late
  BY StatementIsLate
<1> HIDE DEF st
<1>4. /\ pc \in [Procs -> Ready \cup InSql] /\ at \in [Procs -> Nat] /\ todo \in [Procs -> Seq(Nat)]
      /\ call \in [Procs -> {"none", "run", "apply", "rollback"}]
  BY DEF MigTypes, PlaceInv
<1>5. QED BY <1>2, <1>3, <1>4

\* A call that fails is no rollback, if no mark is set then.
LEMMA StopStands ==
  ASSUME MigTypes, NEW p \in Procs, Fail(p) \/ Drop(p), marks' = {}
  PROVE  marks = {} /\ call[p] # "rollback" /\ Rests(p)
<1>1. marks = {} /\ call[p] # "rollback"
  BY DEF Fail, Drop, Tear
<1>2. QED BY <1>1, Stopped

\* A call begins with the first operation of its version.
LEMMA StartLaid ==
  ASSUME MigTypes, at \in [Procs -> Nat], plan' = plan, NEW p \in Procs,
         NEW how \in {"run", "apply", "rollback"}, NEW vs \in Seq(Nat), Goto(p, how, vs, 1)
  PROVE  Laid(p)'
<1>1. Settled(p)
  BY GotoSettles
<1>2. at'[p] = 1
  BY DEF Goto, End
<1>3. SUFFICES ASSUME pc'[p] \in Late, NEW t \in MadeBy(plan, Version(p)', 0) PROVE FALSE
  BY <1>2 DEF Laid
<1>4. Version(p)' \in DOMAIN plan
  BY <1>1, <1>3, MigratorAssumption DEF Settled, Through, MigTypes
<1>5. plan[Version(p)'].up \in Seq(ToSet(plan[Version(p)'].up))
  BY <1>4, MigratorAssumption DEF MigTypes
<1>6. \A k \in DOMAIN plan[Version(p)'].up : ~(k <= 0)
  BY <1>5
<1>7. QED BY <1>3, <1>6 DEF MadeBy

LEMMA RestLaid ==
  ASSUME NEW p \in Procs, Rests(p)
  PROVE  Laid(p)'
BY DEF Rests, Laid

\* Who stays at its operation, or leaves it behind when it makes no table, keeps what
\* is laid: tables are only added meanwhile.
LEMMA OnLaid ==
  ASSUME MigTypes, PlaceInv, NEW p \in Procs, Shape(p), pc[p] \in Late, Laid(p), plan' = plan,
         call'[p] = call[p], todo'[p] = todo[p],
         at'[p] = at[p] \/ at'[p] = at[p] + 1,
         \A t : Tab(t) \in objects /\ Keeps(plan[Version(p)].up, t) => Tab(t) \in objects',
         at'[p] = at[p] + 1 /\ call[p] # "rollback" /\ Op(p).op = "CreateTable" =>
           Tab(Op(p).t) \in objects'
  PROVE  Laid(p)'
<1> DEFINE v == Version(p)
           up == plan[v].up
<1>1. PICK n \in Nat : DOMAIN up = 1..n /\ Len(up) = n
  BY VersionFacts
<1>2. Version(p)' = v /\ plan'[v].up = up /\ at[p] \in Nat
  BY DEF Version, PlaceInv
<1>3. SUFFICES ASSUME call[p] \in {"run", "apply"}, NEW t \in MadeBy(plan, v, at'[p] - 1), Keeps(up, t)
               PROVE  Tab(t) \in objects'
  BY <1>2 DEF Laid
<1>4. Op(p) = up[at[p]]
  BY <1>3 DEF Op, Ops
<1>5. PICK k \in DOMAIN up : k <= at'[p] - 1 /\ up[k].op = "CreateTable" /\ up[k].t = t
  BY <1>3 DEF MadeBy
<1> HIDE DEF up
<1>6. k <= at[p] - 1 \/ (k = at[p] /\ at'[p] = at[p] + 1)
  BY <1>1, <1>2, <1>5
<1>7. CASE k <= at[p] - 1
  <2>1. t \in MadeBy(plan, v, at[p] - 1)
    BY <1>5, <1>7 DEF MadeBy, up
  <2>2. Tab(t) \in objects
    BY <1>3, <2>1 DEF Laid, up
  <2>3. QED BY <1>3, <2>2 DEF up
<1>8. CASE k = at[p] /\ at'[p] = at[p] + 1
  BY <1>3, <1>4, <1>5, <1>8
<1>9. QED BY <1>6, <1>7, <1>8

\* A step of p keeps what stands, if it keeps what p has laid and the recorded tables.
LEMMA StandCarry ==
  ASSUME MigTypes, PlaceInv, StandInv, NEW p \in Procs, Frame(p), \A q \in Procs : Shape(q),
         \A q \in Procs \ {p} : at'[q] = at[q],
         plan' = plan, marks \subseteq marks', recorded' \subseteq DOMAIN plan,
         Formed(objects'), OwnKeys(objects', DroppedBy(plan)),
         objects \subseteq objects' \/ pc[p] \notin Ready,
         marks' = {} => Laid(p)' /\ \A v \in recorded' : Undone(v)' \/ Stands(v)'
  PROVE  StandInv'
<1>1. \A q \in Procs \ {p} : pc'[q] = pc[q] /\ call'[q] = call[q] /\ todo'[q] = todo[q]
  BY DEF Frame
<1>2. ASSUME marks' = {}, NEW q \in Procs \ {p} PROVE Laid(q)'
  <2>1. Laid(q) /\ marks = {}
    BY <1>2 DEF StandInv
  <2>2. Version(q)' = Version(q)
    BY <1>1, SamePlace
  <2>3. CASE objects \subseteq objects'
    BY <1>1, <2>1, <2>2, <2>3 DEF Laid
  <2>4. CASE pc[p] \notin Ready
    <3>1. pc[q] \in Ready
      BY <2>1, <2>4 DEF PlaceInv, Alone
    <3>2. pc'[q] \notin Late
      BY <1>1, <3>1 DEF Ready, Late, InSql
    <3>3. QED BY <3>2 DEF Laid
  <2>5. QED BY <2>3, <2>4
<1>3. marks' = {} => \A q \in Procs : Laid(q)'
  BY <1>2
<1>4. QED BY <1>3 DEF StandInv

\* The recorded versions, those of before and one that p has just finished.
LEMMA StandsCarry ==
  ASSUME StandInv, NEW p \in Procs, Frame(p), plan' = plan, marks = {},
         \A v \in recorded' : v \in recorded \/ Stands(v)',
         \/ call[p] # "rollback"
         \/ call'[p] = "rollback" /\ todo'[p] = todo[p]
         \/ Version(p) \notin recorded',
         \A v \in recorded' : ~Undone(v) /\ Stands(v) => Stands(v)'
  PROVE  \A v \in recorded' : Undone(v)' \/ Stands(v)'
<1>1. SUFFICES ASSUME NEW v \in recorded' PROVE Undone(v)' \/ Stands(v)'
  OBVIOUS
<1>2. CASE Undone(v)
  <2>1. PICK q \in Procs : call[q] = "rollback" /\ Version(q) = v
    BY <1>2 DEF Undone
  <2>2. call'[q] = "rollback" /\ todo'[q] = todo[q]
    <3>1. q # p => call'[q] = call[q] /\ todo'[q] = todo[q]
      BY DEF Frame
    <3>2. QED BY <1>1, <2>1, <3>1
  <2>3. QED BY <2>1, <2>2 DEF Undone, Version
<1>3. CASE ~Undone(v)
  BY <1>1, <1>3 DEF StandInv
<1>4. QED BY <1>2, <1>3

\* Where no operation of a migration runs and no version is recorded.
LEMMA QuietStands ==
  ASSUME MigTypes, PlaceInv, StandInv, NEW p \in Procs, Frame(p), \A q \in Procs : Shape(q),
         \A q \in Procs \ {p} : at'[q] = at[q],
         plan' = plan, marks \subseteq marks', recorded' \subseteq recorded,
         objects' = objects \/ objects' = objects \cup {VersionTable},
         marks' = {} => Laid(p)',
         marks' = {} => \/ call[p] # "rollback"
                        \/ call'[p] = "rollback" /\ todo'[p] = todo[p]
                        \/ Version(p) \notin recorded'
  PROVE  StandInv'
<1>1. /\ recorded' \subseteq DOMAIN plan /\ objects \subseteq objects'
      /\ Formed(objects) /\ OwnKeys(objects, DroppedBy(plan))
  BY DEF StandInv
<1>2. VersionTable = Obj(VersionTable.k, VersionTable.t, VersionTable.n) /\ VersionTable.k # "key"
  BY DEF VersionTable, Tab, Obj
<1>3. Formed(objects') /\ OwnKeys(objects', DroppedBy(plan))
  BY <1>1, <1>2 DEF Formed, OwnKeys
<1>4. \A v : Stands(v) => Stands(v)'
  BY <1>1 DEF Stands
<1>5. marks' = {} => \A v \in recorded' : Undone(v)' \/ Stands(v)'
  BY <1>4, StandsCarry
<1>6. QED BY <1>1, <1>3, <1>5, StandCarry

LEMMA StopAt ==
  ASSUME MigTypes, PlaceInv, NEW p \in Procs, Fail(p) \/ Drop(p)
  PROVE  Frame(p) /\ marks \subseteq marks' /\ \A q \in Procs \ {p} : at'[q] = at[q]
BY Stopped, StopSettles DEF Settled

\* A statement fails, or it has not run.
LEMMA StopQuiet ==
  ASSUME MigTypes, PlaceInv, StandInv, NEW p \in Procs, \A q \in Procs : Shape(q),
         Fail(p) \/ Drop(p), plan' = plan, recorded' = recorded,
         objects' = objects \/ objects' = objects \cup {VersionTable}
  PROVE  StandInv'
<1>1. Frame(p) /\ marks \subseteq marks' /\ \A q \in Procs \ {p} : at'[q] = at[q]
  BY StopAt
<1>2. marks' = {} => call[p] # "rollback" /\ Laid(p)'
  BY StopStands, RestLaid
<1>3. QED BY <1>1, <1>2, QuietStands

LEMMA BeginStands ==
  ASSUME MigInv, PlaceInv, StandInv, NEW p \in Procs,
         RunMigrations(p) \/ ApplyMigration(p) \/ RollbackMigration(p) \/ RollbackAll(p)
  PROVE  StandInv'
<1>1. /\ plan' = plan /\ objects' = objects /\ recorded' = recorded /\ marks \subseteq marks'
      /\ pc[p] \in Ready
  BY DEF RunMigrations, ApplyMigration, RollbackMigration, RollbackAll, Begin, dbVars
<1>2. /\ MigTypes /\ at \in [Procs -> Nat] /\ 1 \in Nat \ {0} /\ \A q \in Procs : Shape(q)
      /\ call[p] # "rollback"
  BY <1>1 DEF MigInv, PlaceInv, ProcOK, Shape
<1>3. ASSUME NEW how \in {"apply", "rollback"}, NEW vs \in Seq(Nat), Goto(p, how, vs, 1)
      PROVE  StandInv'
  <2>1. Frame(p) /\ Settled(p) /\ Laid(p)'
    BY <1>1, <1>2, <1>3, GotoSettles, Went, StartLaid
  <2>2. QED BY <1>1, <1>2, <2>1, QuietStands DEF Settled
<1>4. CASE RunMigrations(p)
  <2>1. /\ pc' = [pc EXCEPT ![p] = "initializing"] /\ call' = [call EXCEPT ![p] = "run"]
        /\ todo' = todo /\ at' = at
    BY <1>4 DEF RunMigrations
  <2>2. /\ pc \in [Procs -> Ready \cup InSql]
        /\ call \in [Procs -> {"none", "run", "apply", "rollback"}]
        /\ todo \in [Procs -> Seq(Nat)]
    BY <1>2 DEF MigTypes
  <2>3. pc'[p] = "initializing" /\ "initializing" \in InSql /\ "initializing" \notin Late
    BY <2>1, <2>2 DEF InSql, Late
  <2>4. Frame(p)
    <3>1. pc' \in [Procs -> Ready \cup InSql]
      BY <2>1, <2>2, <2>3
    <3>2. call' \in [Procs -> {"none", "run", "apply", "rollback"}] /\ todo' \in [Procs -> Seq(Nat)]
      BY <2>1, <2>2
    <3>3. \A q \in Procs \ {p} : pc'[q] = pc[q] /\ call'[q] = call[q] /\ todo'[q] = todo[q]
      BY <2>1, <2>2
    <3>4. QED BY <3>1, <3>2, <3>3 DEF Frame
  <2>5. Laid(p)'
    BY <2>3 DEF Laid
  <2>6. QED BY <1>1, <1>2, <2>1, <2>4, <2>5, QuietStands
<1>5. CASE ApplyMigration(p) \/ RollbackMigration(p)
  <2>1. PICK v \in ToSet(Registered[p]) : Goto(p, "apply", <<v>>, 1) \/ Goto(p, "rollback", <<v>>, 1)
    BY <1>5 DEF ApplyMigration, RollbackMigration
  <2>2. Registered[p] \in Seq(Nat)
    BY MigratorAssumption
  <2>3. v \in Nat
    BY <2>2 DEF ToSet
  <2>4. <<v>> \in Seq(Nat)
    BY <2>3
  <2>5. QED BY <1>3, <2>1, <2>4
<1>6. CASE RollbackAll(p)
  <2>1. Goto(p, "rollback", Descending(applied[p]), 1)
    BY <1>6 DEF RollbackAll
  <2>2. Descending(applied[p]) \in Seq(Nat)
    BY <1>2, DescendingFacts DEF MigTypes
  <2>3. QED BY <1>3, <2>1, <2>2
<1>7. QED BY <1>4, <1>5, <1>6

LEMMA LoadStands ==
  ASSUME MigInv, PlaceInv, StandInv, NEW p \in Procs, Initialize(p) \/ Load(p) \/ Crash(p)
  PROVE  StandInv'
<1>1. /\ plan' = plan /\ recorded' = recorded /\ MigTypes /\ at \in [Procs -> Nat]
      /\ objects' = objects \/ objects' = objects \cup {VersionTable}
      /\ \A q \in Procs : Shape(q)
  BY DEF Initialize, Load, Query, Crash, Send, dbVars, MigInv, ProcOK, PlaceInv
<1>2. CASE Fail(p) \/ Drop(p)
  BY <1>1, <1>2, StopQuiet
<1>3. CASE Initialize(p) /\ ~(Fail(p) \/ Drop(p))
  <2>1. /\ pc' = [pc EXCEPT ![p] = "loading"] /\ call' = call /\ todo' = todo /\ at' = at
        /\ marks' = marks /\ pc[p] = "initializing"
    BY <1>3 DEF Initialize, Send
  <2>2. pc \in [Procs -> Ready \cup InSql] /\ call[p] # "rollback"
    BY <1>1, <2>1 DEF MigTypes, Shape
  <2>3. Laid(p)'
    BY <2>1, <2>2 DEF Laid, Late
  <2>4. Frame(p)
    BY <1>1, <1>3, StepsAreTurns DEF Turn
  <2>5. QED BY <1>1, <2>1, <2>2, <2>3, <2>4, QuietStands
<1>4. CASE Load(p) /\ ~(Fail(p) \/ Drop(p))
  <2>1. Goto(p, "run", Retain(Registered[p], recorded), 1) /\ marks' = marks /\ pc[p] = "loading"
    BY <1>4 DEF Load, Query, Send, Loaded
  <2>2. Registered[p] \in Seq(Nat)
    BY MigratorAssumption
  <2>3. Retain(Registered[p], recorded) \in Seq(Nat) /\ 1 \in Nat \ {0}
    BY <2>2, PendingFacts
  <2>4. Frame(p) /\ Settled(p) /\ Laid(p)'
    BY <1>1, <2>1, <2>3, GotoSettles, Went, StartLaid
  <2>5. call[p] # "rollback"
    BY <1>1, <2>1 DEF Shape
  <2>6. QED BY <1>1, <2>1, <2>4, <2>5, QuietStands DEF Settled
<1>5. QED BY <1>2, <1>3, <1>4 DEF Crash

LEMMA LookStands ==
  ASSUME MigInv, PlaceInv, StandInv, NEW p \in Procs,
         CheckConflict(p) \/ ProbeLookups(p) \/ InsertRow(p)
  PROVE  StandInv'
<1>1. /\ plan' = plan /\ objects' = objects /\ recorded' = recorded /\ MigTypes
      /\ pc[p] \in Late /\ pc[p] \in AtOps /\ pc[p] # "operation"
      /\ \A q \in Procs : Shape(q)
  BY DEF CheckConflict, ProbeLookups, InsertRow, Query, Send, dbVars, MigInv, ProcOK,
         Late, InSql, AtOps
<1>2. CASE Fail(p) \/ Drop(p)
  BY <1>1, <1>2, StopQuiet
<1>3. call[p] # "rollback" /\ Op(p).op = "InsertRow" /\ at \in [Procs -> Nat]
  BY <1>1 DEF PlaceInv, Placed
<1>4. Frame(p)
  BY <1>1, StepsAreTurns DEF Turn
<1>5. CASE NextOp(p) /\ marks' = marks
  <2>1. call'[p] = call[p] /\ todo'[p] = todo[p] /\ at'[p] = at[p] + 1
    BY <1>1, <1>5, NextOpGoes
  <2>2. \A q \in Procs \ {p} : at'[q] = at[q]
    BY <1>1, <1>5, NextSettles DEF Settled
  <2>3. marks' = {} => Laid(p)
    BY <1>5 DEF StandInv
  <2>4. marks' = {} => Laid(p)'
    BY <1>1, <1>3, <2>1, <2>3, OnLaid
  <2>5. QED BY <1>1, <1>3, <1>4, <1>5, <2>2, <2>4, QuietStands
<1>6. CASE UNCHANGED <<call, todo, at, marks>>
  <2>1. marks' = {} => Laid(p)
    BY <1>6 DEF StandInv
  <2>2. marks' = {} => Laid(p)'
    BY <1>1, <1>3, <1>6, <2>1, OnLaid
  <2>3. QED BY <1>1, <1>3, <1>4, <1>6, <2>2, QuietStands
<1>7. CASE CheckConflict(p)
  BY <1>2, <1>5, <1>6, <1>7 DEF CheckConflict, Query, Send
<1>8. CASE ProbeLookups(p)
  BY <1>2, <1>5, <1>6, <1>8 DEF ProbeLookups, Query, Send
<1>9. CASE InsertRow(p)
  BY <1>2, <1>5, <1>9 DEF InsertRow, Send
<1>10. QED BY <1>7, <1>8, <1>9

LEMMA RecordStands ==
  ASSUME MigInv, PlaceInv, StandInv, NEW p \in Procs, Record(p)
  PROVE  StandInv'
<1>0. PICK v : v = Version(p)
  OBVIOUS
<1>1. /\ pc[p] = "recording" /\ pc[p] \in Late /\ pc[p] \notin Ready /\ call[p] # "rollback"
      /\ plan' = plan /\ objects' = objects
      /\ MigTypes /\ at \in [Procs -> Nat] /\ \A q \in Procs : Shape(q)
  BY DEF Record, Send, dbVars, MigInv, ProcOK, PlaceInv, Late, InSql, Ready
<1>2. /\ v \in DOMAIN plan /\ call[p] \in {"run", "apply"}
      /\ todo[p] \in Seq(Nat) /\ todo[p] # <<>>
  BY <1>0, <1>1, VersionFacts
<1>3. CASE recorded' = recorded /\ (Fail(p) \/ Drop(p))
  BY <1>1, <1>3, StopQuiet
<1>4. ASSUME marks = {} PROVE Stands(v)'
  <2> DEFINE up == plan[v].up
  <2>1. PICK n \in Nat : DOMAIN up = 1..n /\ Len(up) = n
    BY <1>0, <1>1, VersionFacts
  <2>2. at[p] \in Nat /\ at[p] > Len(up)
    BY <1>0, <1>1 DEF PlaceInv, Through, Ops
  <2>3. Laid(p)
    BY <1>4 DEF StandInv
  <2> HIDE DEF up
  <2>4. \A k \in DOMAIN up : k <= at[p] - 1
    BY <2>1, <2>2
  <2>5. \A t \in MadeBy(plan, v, Len(up)) : t \in MadeBy(plan, v, at[p] - 1)
    BY <2>4 DEF MadeBy, up
  <2>6. \A t : Lasts(plan, t) => Keeps(up, t)
    BY <1>2 DEF Lasts, up
  <2>7. \A t \in MadeBy(plan, v, Len(up)) : Lasts(plan, t) => Tab(t) \in objects
    BY <1>0, <1>1, <1>2, <2>3, <2>5, <2>6 DEF Laid, up
  <2>8. QED BY <1>1, <2>7 DEF Stands, up
<1>5. ASSUME recorded' = recorded \cup {v}, Frame(p), \A q \in Procs \ {p} : at'[q] = at[q],
             marks \subseteq marks', marks' = {} => Laid(p)'
      PROVE  StandInv'
  <2>1. recorded' \subseteq DOMAIN plan /\ Formed(objects') /\ OwnKeys(objects', DroppedBy(plan))
    BY <1>1, <1>2, <1>5 DEF StandInv
  <2>2. \A x : Stands(x) => Stands(x)'
    BY <1>1 DEF Stands
  <2>3. marks' = {} => \A x \in recorded' : Undone(x)' \/ Stands(x)'
    BY <1>1, <1>4, <1>5, <2>2, StandsCarry
  <2>4. QED BY <1>1, <1>5, <2>1, <2>3, StandCarry
<1>6. CASE recorded' = recorded \cup {v} /\ Drop(p)
  BY <1>1, <1>5, <1>6, StopAt, StopStands, RestLaid
<1>7. CASE recorded' = recorded \cup {v} /\ marks' = marks /\ Goto(p, call[p], Tail(todo[p]), 1)
  <2>1. Frame(p) /\ Settled(p)
    BY <1>1, <1>7, NextSettles
  <2>2. Tail(todo[p]) \in Seq(Nat)
    BY <1>2, FrontVersion
  <2>3. Laid(p)'
    BY <1>1, <1>2, <1>7, <2>2, StartLaid
  <2>4. QED BY <1>5, <1>7, <2>1, <2>3 DEF Settled
<1>8. QED BY <1>0, <1>3, <1>6, <1>7 DEF Record, Send, dbVars

LEMMA UnrecordStands ==
  ASSUME MigInv, PlaceInv, StandInv, NEW p \in Procs, Unrecord(p)
  PROVE  StandInv'
<1>1. /\ pc[p] = "recording" /\ pc[p] \in Late /\ call[p] = "rollback"
      /\ plan' = plan /\ objects' = objects /\ recorded' \subseteq recorded
      /\ MigTypes /\ at \in [Procs -> Nat] /\ \A q \in Procs : Shape(q)
  BY DEF Unrecord, Send, dbVars, MigInv, ProcOK, PlaceInv, Late, InSql
<1>2. CASE Fail(p) \/ Drop(p)
  <2>1. marks' # {}
    BY <1>1, <1>2, StopStands
  <2>2. QED BY <1>1, <1>2, <2>1, StopAt, QuietStands
<1>3. CASE /\ recorded' = recorded \ {Version(p)} /\ marks' = marks
           /\ Goto(p, call[p], Tail(todo[p]), 1)
  <2>1. Frame(p) /\ Settled(p)
    BY <1>1, <1>3, NextSettles
  <2>2. todo[p] \in Seq(Nat) /\ todo[p] # <<>>
    BY <1>1, VersionFacts
  <2>3. Tail(todo[p]) \in Seq(Nat)
    BY <2>2, FrontVersion
  <2>4. Laid(p)'
    BY <1>1, <1>3, <2>3, StartLaid
  <2>5. QED BY <1>1, <1>3, <2>1, <2>4, QuietStands DEF Settled
<1>4. QED BY <1>2, <1>3 DEF Unrecord, Send

\* Of programs that build on themselves.
LEMMA DropFacts ==
  ASSUME BuildsOnItself, MigTypes, NEW v \in DOMAIN plan,
         NEW x \in ToSet(plan[v].up) \cup ToSet(plan[v].down)
  PROVE  /\ x.op = "AddForeignKey" /\ x.n \in DroppedBy(plan) => x.t = x.n
         /\ x.op = "RenameTable" => x.to \notin DroppedBy(plan)
<1>1. PICK s \in Settings : plan = s.plan
  BY DEF MigTypes
<1>2. ASSUME NEW t \in DroppedBy(plan)
      PROVE  /\ x.op = "AddForeignKey" /\ x.n = t => x.t = t
             /\ x.op = "RenameTable" => x.to # t
  <2>1. PICK u \in DOMAIN plan : \E o \in ToSet(plan[u].up) : o.op = "DropTable" /\ o.t = t
    BY DEF DroppedBy
  <2>2. PICK i \in DOMAIN plan[u].up : plan[u].up[i].op = "DropTable" /\ plan[u].up[i].t = t
    BY <2>1 DEF ToSet
  <2>3. QED BY <1>1, <2>2 DEF BuildsOnItself
<1>3. QED BY <1>2

\* An operation of a call takes away no table that lasts and that a recorded version
\* has made, but for the one it undoes.
LEMMA OperationKeeps ==
  ASSUME InOrder, MigInv, PlaceInv, StandInv, marks = {}, NEW p \in Procs, pc[p] = "operation",
         plan' = plan, objects' = SchemaAfter(Op(p), objects),
         NEW v \in recorded, ~Undone(v), Stands(v)
  PROVE  Stands(v)'
<1> DEFINE w == Version(p)
<1>1. SUFFICES ASSUME NEW t \in MadeBy(plan, v, Len(plan[v].up)), Lasts(plan, t)
               PROVE  Tab(t) \in SchemaAfter(Op(p), objects)
  BY DEF Stands
<1>2. /\ pc[p] \in Late /\ pc[p] \in AtOps /\ MigTypes /\ Shape(p) /\ Placed(p) /\ NewestFirst(p)
      /\ v \in DOMAIN plan
  BY DEF MigInv, ProcOK, PlaceInv, StandInv, Late, InSql, AtOps
<1>3. /\ w \in DOMAIN plan
      /\ call[p] # "rollback" => Op(p) \in ToSet(plan[w].up)
      /\ call[p] = "rollback" => Op(p) \in ToSet(plan[w].down)
  BY <1>2, OpOfPlan
<1>4. Tab(t) \in objects
  BY <1>1 DEF Stands
<1>5. CASE call[p] # "rollback"
  <2>1. Keeps(plan[w].up, t)
    BY <1>1, <1>3 DEF Lasts
  <2>2. QED BY <1>3, <1>4, <1>5, <2>1, SchemaTables DEF Keeps
<1>6. CASE call[p] = "rollback"
  <2>1. /\ Descends(todo[p])
        /\ v \in ToSet(todo[p]) \/ \A x \in ToSet(todo[p]) : v < x
    BY <1>2, <1>6 DEF NewestFirst, Orderly
  <2>2. todo[p] \in Seq(Nat) /\ todo[p] # <<>> /\ w \in Nat
    BY <1>2, VersionFacts
  <2>3. w \in ToSet(todo[p]) /\ \A x \in ToSet(todo[p]) : x <= w
    BY <2>1, <2>2, FrontVersion DEF Version
  <2>4. v # w
    BY <1>6 DEF Undone
  <2>5. v \in Nat
    BY <1>2 DEF MigTypes
  <2>6. v < w
    BY <2>1, <2>2, <2>3, <2>4, <2>5
  <2>7. Keeps(plan[w].down, t)
    BY <1>1, <1>2, <1>3, <2>6 DEF Lasts
  <2>8. QED BY <1>3, <1>4, <1>6, <2>7, SchemaTables DEF Keeps
<1>7. QED BY <1>5, <1>6

LEMMA OperationStands ==
  ASSUME InOrder, BuildsOnItself, MigInv, PlaceInv, StandInv, NEW p \in Procs, Operation(p)
  PROVE  StandInv'
<1>1. /\ pc[p] = "operation" /\ pc[p] \in Late /\ pc[p] \in AtOps /\ pc[p] \notin Ready
      /\ plan' = plan /\ recorded' = recorded
      /\ MigTypes /\ Placed(p) /\ \A q \in Procs : Shape(q)
  BY DEF Operation, Send, dbVars, MigInv, ProcOK, PlaceInv, Late, InSql, AtOps, Ready
<1>2. CASE objects' = objects /\ (Fail(p) \/ Drop(p))
  BY <1>1, <1>2, StopQuiet
<1>3. ASSUME objects' = SchemaAfter(Op(p), objects), Frame(p), marks \subseteq marks',
             \A q \in Procs \ {p} : at'[q] = at[q], marks' = {} => Laid(p)',
             marks' = {} => call[p] # "rollback" \/ (call'[p] = "rollback" /\ todo'[p] = todo[p])
      PROVE  StandInv'
  <2>1. /\ Version(p) \in DOMAIN plan
        /\ Op(p) \in ToSet(plan[Version(p)].up) \cup ToSet(plan[Version(p)].down)
    BY <1>1, OpOfPlan
  <2>2. /\ recorded' \subseteq DOMAIN plan
        /\ Formed(objects) /\ OwnKeys(objects, DroppedBy(plan))
    BY <1>1 DEF StandInv
  <2>3. Formed(objects')
    BY <1>3, <2>2, SchemaForms
  <2>4. /\ Op(p).op = "AddForeignKey" /\ Op(p).n \in DroppedBy(plan) => Op(p).t = Op(p).n
        /\ Op(p).op = "RenameTable" => Op(p).to \notin DroppedBy(plan)
    BY <1>1, <2>1, DropFacts
  <2>5. OwnKeys(objects', DroppedBy(plan))
    BY <1>3, <2>2, <2>4, SchemaKeys
  <2>6. ASSUME marks' = {} PROVE \A v \in recorded' : Undone(v)' \/ Stands(v)'
    <3>1. marks = {}
      BY <1>3, <2>6
    <3>2. \A v \in recorded' : ~Undone(v) /\ Stands(v) => Stands(v)'
      BY <1>1, <1>3, <3>1, OperationKeeps
    <3>3. QED BY <1>1, <1>3, <2>6, <3>1, <3>2, StandsCarry
  <2>7. QED BY <1>1, <1>3, <2>2, <2>3, <2>5, <2>6, StandCarry
<1>4. CASE objects' = SchemaAfter(Op(p), objects) /\ Drop(p)
  BY <1>1, <1>3, <1>4, StopAt, StopStands, RestLaid
<1>5. CASE objects' = SchemaAfter(Op(p), objects) /\ NextOp(p) /\ marks' = marks
  <2>1. Frame(p) /\ Settled(p)
    BY <1>1, <1>5, NextSettles
  <2>2. call'[p] = call[p] /\ todo'[p] = todo[p] /\ at'[p] = at[p] + 1
    BY <1>1, <1>5, NextOpGoes
  <2>3. ASSUME marks' = {} PROVE Laid(p)'
    <3>1. CASE call[p] = "rollback"
      BY <2>2, <3>1 DEF Laid
    <3>2. CASE call[p] # "rollback"
      <4>1. Op(p) \in ToSet(plan[Version(p)].up)
        BY <1>1, <3>2, OpOfPlan
      <4>2. \A t : Tab(t) \in objects /\ Keeps(plan[Version(p)].up, t) => Tab(t) \in objects'
        BY <1>5, <4>1, SchemaTables DEF Keeps
      <4>3. Op(p).op = "CreateTable" => Tab(Op(p).t) \in objects'
        BY <1>5, SchemaTables
      <4>4. Laid(p)
        BY <1>5, <2>3 DEF StandInv
      <4>5. QED BY <1>1, <2>2, <4>2, <4>3, <4>4, OnLaid
    <3>3. QED BY <3>1, <3>2
  <2>4. QED BY <1>3, <1>5, <2>1, <2>2, <2>3 DEF Settled
<1>6. QED BY <1>2, <1>4, <1>5 DEF Operation, Send, dbVars

LEMMA StandInit ==
  ASSUME Init
  PROVE  StandInv
BY DEF Init, StandInv, Formed, OwnKeys, Laid, Late, InSql

LEMMA StandStep ==
  ASSUME InOrder, BuildsOnItself, MigInv, PlaceInv, StandInv, [Next]_vars
  PROVE  StandInv'
<1>1. CASE UNCHANGED vars
  <2>1. UNCHANGED <<plan, objects, recorded, pc, call, todo, at, marks>>
    BY <1>1 DEF vars, callVars, dbVars
  <2>2. \A v : (Undone(v)' <=> Undone(v)) /\ (Stands(v)' <=> Stands(v))
    BY <2>1 DEF Undone, Stands, Version
  <2>3. \A p \in Procs : Laid(p)' <=> Laid(p)
    BY <2>1 DEF Laid, Version
  <2>4. QED BY <2>1, <2>2, <2>3 DEF StandInv
<1>2. CASE Next
  <2>1. PICK p \in Procs :
          \/ RunMigrations(p) \/ ApplyMigration(p) \/ RollbackMigration(p) \/ RollbackAll(p)
          \/ Initialize(p) \/ Load(p) \/ Operation(p)
          \/ CheckConflict(p) \/ ProbeLookups(p) \/ InsertRow(p)
          \/ Record(p) \/ Unrecord(p) \/ Crash(p)
    BY <1>2 DEF Next
  <2>2. QED BY <2>1, BeginStands, LoadStands, LookStands, OperationStands, RecordStands,
               UnrecordStands
<1>3. QED BY <1>1, <1>2

\* A migration that is run finds the table of an older one, which is recorded.
LEMMA OlderStands ==
  ASSUME InOrder, MigInv, PlaceInv, StandInv, marks = {}, NEW p \in Procs,
         pc[p] = "operation", call[p] # "rollback", NEW w \in DOMAIN plan, w < Version(p)
  PROVE  Stands(w)
<1> DEFINE v == Version(p)
<1>1. /\ pc[p] \in Late /\ pc[p] \notin Ready /\ MigTypes /\ Shape(p) /\ OldestFirst(p)
      /\ \A q \in Procs : Shape(q)
  BY DEF MigInv, ProcOK, Late, InSql, Ready
<1>2. /\ todo[p] \in Seq(Nat) /\ todo[p] # <<>> /\ v \in Nat /\ call[p] \in {"run", "apply"}
  BY <1>1, VersionFacts
<1>3. /\ Ascends(todo[p])
      /\ \A x \in ToSet(todo[p]), y \in DOMAIN plan : y < x => y \in recorded \cup ToSet(todo[p])
  BY <1>1, <1>2 DEF OldestFirst, Orderly
<1>4. v \in ToSet(todo[p]) /\ \A x \in ToSet(todo[p]) : v <= x
  BY <1>2, <1>3, FrontVersion DEF Version
<1>5. w \in Nat
  BY <1>1, MigratorAssumption DEF MigTypes
<1>6. w \notin ToSet(todo[p])
  <2>1. w \in ToSet(todo[p]) => v <= w
    BY <1>4
  <2>2. QED BY <1>2, <1>5, <2>1
<1>7. w \in recorded
  BY <1>3, <1>4, <1>6
<1>8. ~Undone(w)
  <2>1. \A q \in Procs : pc[q] \notin Ready => q = p
    BY <1>1 DEF PlaceInv, Alone
  <2>2. \A q \in Procs : call[q] = "rollback" => q = p
    BY <1>1, <2>1 DEF Shape
  <2>3. QED BY <1>2, <2>2 DEF Undone
<1>9. QED BY <1>7, <1>8 DEF StandInv

LEMMA StandsHeal ==
  ASSUME InOrder, BuildsOnItself, MigInv, PlaceInv, StandInv
  PROVE  RerunHeals
<1>1. SUFFICES ASSUME marks = {}, NEW p \in Procs, pc[p] = "operation", call[p] # "rollback",
                      Op(p).op \in Healing
               PROVE  Accepts(Op(p), objects)
  BY DEF RerunHeals
<1> DEFINE o == Op(p)
           v == Version(p)
<1>2. /\ pc[p] \in Late /\ pc[p] \in AtOps /\ MigTypes /\ Shape(p) /\ Placed(p) /\ Laid(p)
  BY <1>1 DEF MigInv, ProcOK, PlaceInv, StandInv, Late, InSql, AtOps
<1>3. PICK s \in Settings : plan = s.plan
  BY <1>2 DEF MigTypes
<1>4. /\ v \in DOMAIN plan /\ at[p] \in DOMAIN plan[v].up /\ o = plan[v].up[at[p]]
  BY <1>1, <1>2 DEF Placed, Ops, Op
<1>5. CASE o.op = "CreateTable"
  BY <1>5 DEF Accepts
<1>6. CASE o.op = "DropTable"
  <2>1. o.t \in DroppedBy(plan)
    BY <1>4, <1>6 DEF DroppedBy, ToSet
  <2>2. \A x \in objects : x.k = "key" /\ x.n = o.t => x.t = o.t
    BY <2>1 DEF StandInv, OwnKeys
  <2>3. QED BY <1>6, <2>2 DEF Accepts
<1>7. CASE o.op = "AddIndex"
  <2>1. dialect # "mysql"
    BY <1>1, <1>7 DEF Healing
  <2>2. \/ o.t \in MadeBy(plan, v, at[p]) /\ Keeps(plan[v].up, o.t)
        \/ Lasts(plan, o.t) /\ \E w \in DOMAIN plan : w < v /\ o.t \in MadeBy(plan, w, Len(plan[w].up))
    BY <1>3, <1>4, <1>7 DEF BuildsOnItself
  <2>3. CASE o.t \in MadeBy(plan, v, at[p]) /\ Keeps(plan[v].up, o.t)
    <3>1. PICK k \in DOMAIN plan[v].up :
            k <= at[p] /\ plan[v].up[k].op = "CreateTable" /\ plan[v].up[k].t = o.t
      BY <2>3 DEF MadeBy
    <3>2. k # at[p]
      BY <1>4, <1>7, <3>1
    <3>3. \E n \in Nat : DOMAIN plan[v].up = 1..n
      BY <1>2, VersionFacts
    <3>4. k <= at[p] - 1
      BY <1>4, <3>1, <3>2, <3>3
    <3>5. o.t \in MadeBy(plan, v, at[p] - 1)
      BY <3>1, <3>4 DEF MadeBy
    <3>6. call[p] \in {"run", "apply"}
      BY <1>1, <1>2, VersionFacts
    <3>7. Tab(o.t) \in objects
      BY <1>2, <2>3, <3>5, <3>6 DEF Laid
    <3>8. QED BY <1>7, <2>1, <3>7 DEF Accepts, AddsIndex
  <2>4. CASE Lasts(plan, o.t) /\ \E w \in DOMAIN plan : w < v /\ o.t \in MadeBy(plan, w, Len(plan[w].up))
    <3>1. PICK w \in DOMAIN plan : w < v /\ o.t \in MadeBy(plan, w, Len(plan[w].up))
      BY <2>4
    <3>2. Stands(w)
      BY <1>1, <3>1, OlderStands
    <3>3. Tab(o.t) \in objects
      BY <2>4, <3>1, <3>2 DEF Stands
    <3>4. QED BY <1>7, <2>1, <3>3 DEF Accepts, AddsIndex
  <2>5. QED BY <2>2, <2>3, <2>4
<1>8. QED BY <1>1, <1>5, <1>6, <1>7 DEF Healing

\* Of programs that are in order and build on themselves, for any plan, dialect and
\* number of processes: as long as no calls overlapped, no version was applied or undone
\* out of its turn and no rollback stopped half way, CREATE TABLE, DROP TABLE and CREATE
\* INDEX (IF NOT EXISTS) are accepted whenever a migration sends them, however often it
\* failed or died before at whatever statement.
THEOREM MigratorRerunHeals ==
  ASSUME InOrder, BuildsOnItself
  PROVE  Spec => []RerunHeals
<1>1. Init => StandInv
  BY StandInit
<1>2. MigInv /\ PlaceInv /\ StandInv /\ [Next]_vars => StandInv'
  BY StandStep
<1>3. MigInv /\ PlaceInv /\ StandInv => RerunHeals
  BY StandsHeal
<1>4. QED BY <1>1, <1>2, <1>3, MigInvariant, MigratorPlaces, PTL DEF Spec
=============================================================================
