--------------------------- MODULE DataCopyProofs ---------------------------
(***************************************************************************)
(* Theorems of DataCopy for every set of jobs, whatever the batch, the     *)
(* tables and the rows: a batch is in the target whole or not at all, a    *)
(* table that was reported copied lost no row and doubled none, and one    *)
(* that was reported created has the columns, the key, the constraints and *)
(* the defaults of the source, in types that keep the values.              *)
(*                                                                         *)
(* While a page is under way its rows are split between the transaction    *)
(* and the page that waits (BatchInTx), so a kill, a refused statement or  *)
(* a rollback takes back what was inserted of it, and a commit adds all of *)
(* it.  Every page reads the source again, each time in another order      *)
(* where the order by is not total.  That the pages still cover the table  *)
(* rests on KeyedOrByAll, from what the tools build of the columns: either *)
(* the order by is by every column, and then all the pages agree with one  *)
(* order (ReadInTurn), or the new table has a key, and then no row is      *)
(* inserted twice (NoneTwice).  As many rows as the source has, of the     *)
(* source and none twice, are all the rows (Whole).                        *)
(* The invariants say so only while no answer is in doubt: after a timeout *)
(* the program no longer knows which statement it has an answer to.        *)
(* What a program makes of a column is followed type by type and default   *)
(* by default (KeptColumn), and the groups that fetch_columns collects row *)
(* by row are the constraints (GroupsAreUniques).                          *)
(* CopyInv and WholeInv hold with TLC on the bounds of the copy run.       *)
(***************************************************************************)
EXTENDS DataCopy, SequenceLemmas

\* Every row there is: those of the source and the stale ones.
AllRows == ToSet(Stale) \cup UNION {ToSet(Todo[t].rows) : t \in 1..N}

\* The types: the job never changes.
JobShape ==
  /\ job.tool \in Tools /\ job.batch \in Nat /\ N \in Nat
  /\ \A t \in 1..N : Todo[t].rows \in Seq(ToSet(Todo[t].rows))

TargetShape ==
  /\ DOMAIN target = 1..N
  /\ \A t \in 1..N : DOMAIN target[t] = {"def", "rows"} /\ target[t].rows \in Seq(AllRows)

TxShape == DOMAIN tx = {"st", "rows"} /\ tx.rows \in Seq(AllRows)

Shape ==
  /\ JobShape /\ TargetShape /\ TxShape
  /\ cur \in Nat \ {0} /\ offset \in Nat
  /\ base \in [1..N -> Seq(AllRows)]
  /\ pages \in [1..N -> Seq(Seq(AllRows) \ {<<>>})]
  /\ page \in Seq(AllRows)
  /\ doubt \in BOOLEAN

\* The tables come one after the other, and the pages of a table too.
InTurn ==
  /\ \A t \in 1..N : t > cur => pages[t] = <<>>
  /\ pc \in {"args", "connect"} => cur = 1
  /\ pc \in {"columns", "drop", "create", "page", "begin", "insert", "commit"} => cur \in 1..N
  /\ pc \in {"args", "connect", "columns", "drop", "create"} /\ cur \in 1..N => pages[cur] = <<>>
  /\ pc \in {"drop", "create"} => offset = 0
  /\ pc = "page" => (offset = 0 <=> pages[cur] = <<>>)
  /\ pc \in {"begin", "insert", "commit"} => pages[cur] # <<>>
  /\ pc \in {"begin", "insert"} => page # <<>>

\* The rows of the pages before the last one, and of all pages, are in the table.
AllPagesIn == target[cur].rows = base[cur] \o FlattenSeq(pages[cur])
FrontPagesIn == target[cur].rows = base[cur] \o FlattenSeq(Front(pages[cur]))

\* Where the rows of the last page are: all in the table between two pages, all
\* waiting before the first INSERT, then split, and all in the transaction at
\* its end.
BatchInTx ==
  /\ pc = "page" /\ pages[cur] # <<>> => AllPagesIn
  /\ pc \in {"begin", "insert", "commit"} => FrontPagesIn
  /\ pc = "begin" => page = Last(pages[cur])
  /\ pc = "insert" => tx.st = "open" /\ tx.rows \o page = Last(pages[cur])
  /\ pc = "commit" => tx.st = "open" /\ tx.rows = Last(pages[cur])

\* Outside a doubt no answer waits in the stream.
Synchronous == (pc \in Ended => unread = <<>>) /\ (~doubt => unread = <<>>)

CopyInv == Shape /\ InTurn /\ Synchronous /\ BatchAtomic /\ (~doubt => BatchInTx)

-----------------------------------------------------------------------------
(* What a call does, whatever was asked.                                   *)

\* A call whose answers are all read has learnt what its own statement did, and
\* one outcome at most has happened to the target.
LEMMA CallFacts ==
  ASSUME doubt \in BOOLEAN, Synchronous, NEW outcomes, NEW got, Call(outcomes, got)
  PROVE  /\ doubt' \in BOOLEAN
         /\ ~doubt' => ~doubt /\ unread' = <<>>
         /\ \/ target' = target /\ tx' = tx
            \/ \E o \in outcomes : target' = o.tab /\ tx' = o.tx
         /\ ~doubt' /\ got => \E o \in outcomes : o.ok /\ target' = o.tab /\ tx' = o.tx
         /\ ~doubt' /\ ~got => \/ target' = target /\ tx' = tx
                              \/ \E o \in outcomes : ~o.ok /\ target' = o.tab /\ tx' = o.tx
<1>1. CASE \E o \in outcomes : /\ Apply(o)
                               /\ got = Head(unread \o Answer(o.ok))
                               /\ unread' = Tail(unread \o Answer(o.ok))
                               /\ doubt' = (doubt \/ unread' # <<>>)
  <2>1. PICK o \in outcomes : /\ Apply(o)
                              /\ got = Head(unread \o Answer(o.ok))
                              /\ unread' = Tail(unread \o Answer(o.ok))
                              /\ doubt' = (doubt \/ unread' # <<>>)
    BY <1>1
  <2>2. doubt' \in BOOLEAN /\ (~doubt' => ~doubt /\ unread' = <<>>)
    BY <2>1
  <2>3. target' = o.tab /\ tx' = o.tx
    BY <2>1 DEF Apply
  <2>4. ASSUME ~doubt' PROVE got = o.ok
    <3>1. unread = <<>>
      BY <2>2, <2>4 DEF Synchronous
    <3>2. got = Head(<<>> \o Answer(o.ok))
      BY <2>1, <3>1
    <3>3. CASE o.ok \/ Kind # "postgresql"
      <4>1. Answer(o.ok) = <<o.ok>>
        BY <3>3 DEF Answer
      <4>2. Head(<<>> \o <<o.ok>>) = o.ok
        OBVIOUS
      <4>3. QED BY <3>2, <4>1, <4>2
    <3>4. CASE ~(o.ok \/ Kind # "postgresql")
      <4>1. Answer(o.ok) = <<o.ok, TRUE>>
        BY <3>4 DEF Answer
      <4>2. Head(<<>> \o <<o.ok, TRUE>>) = o.ok
        OBVIOUS
      <4>3. QED BY <3>2, <4>1, <4>2
    <3>5. QED BY <3>3, <3>4
  <2>5. QED BY <2>1, <2>2, <2>3, <2>4
<1>2. CASE \E o \in outcomes : /\ ~got /\ Apply(o) /\ doubt' = TRUE
  BY <1>2 DEF Apply
<1>3. CASE ~got /\ UNCHANGED <<target, tx, unread, doubt>>
  BY <1>3 DEF Synchronous
<1>4. QED BY <1>1, <1>2, <1>3 DEF Call

\* The rows of a job are the same at every moment.
LEMMA JobStays ==
  ASSUME job' = job
  PROVE  /\ N' = N /\ AllRows' = AllRows /\ \A t : Todo'[t] = Todo[t]
         /\ JobShape <=> JobShape'
BY DEF N, AllRows, JobShape, Todo

\* A table that has no pages, or whose rows are as before, stays as it is.
LEMMA AtomicKept ==
  ASSUME BatchAtomic, ~doubt' => ~doubt, UNCHANGED <<job, pages>>,
         \A t \in 1..N : pages[t] # <<>> => target'[t].rows = target[t].rows /\ base'[t] = base[t]
  PROVE  BatchAtomic'
<1>1. N' = N
  BY DEF N, Todo
<1>2. ASSUME ~doubt', NEW t \in 1..N, pages[t] # <<>>
      PROVE  \E n \in 0..Len(pages[t]) : target'[t].rows = base'[t] \o FlattenSeq(SubSeq(pages[t], 1, n))
  <2>1. PICK n \in 0..Len(pages[t]) : target[t].rows = base[t] \o FlattenSeq(SubSeq(pages[t], 1, n))
    BY <1>2 DEF BatchAtomic
  <2>2. target'[t].rows = target[t].rows /\ base'[t] = base[t]
    BY <1>2
  <2>3. target'[t].rows = base'[t] \o FlattenSeq(SubSeq(pages[t], 1, n))
    BY <2>1, <2>2
  <2>4. QED BY <2>3
<1>3. QED BY <1>1, <1>2 DEF BatchAtomic

\* A refused statement changes no row; PostgreSQL marks the transaction.
LEMMA RefusedFacts ==
  ASSUME DOMAIN tx = {"st", "rows"}
  PROVE  /\ Refused.tab = target /\ ~Refused.ok
         /\ DOMAIN Refused.tx = {"st", "rows"} /\ Refused.tx.rows = tx.rows
<1>1. Refused.tab = target /\ ~Refused.ok
  BY DEF Refused, Outcome
<1>2. Refused.tx = tx \/ Refused.tx = [tx EXCEPT !.st = "aborted"]
  BY DEF Refused, Outcome
<1>3. DOMAIN Refused.tx = {"st", "rows"} /\ Refused.tx.rows = tx.rows
  BY <1>2
<1>4. QED BY <1>1, <1>3

-----------------------------------------------------------------------------
(* The steps.                                                              *)

\* The end of the process, wherever it comes.
LEMMA ExitStep ==
  ASSUME CopyInv, NEW how \in Ended, Exit(how)
  PROVE  CopyInv'
<1>1. /\ pc' = how /\ tx' = NoTx /\ unread' = <<>>
      /\ UNCHANGED <<job, cur, offset, page, target, base, pages, doubt>>
  BY DEF Exit
<1>2. N' = N /\ AllRows' = AllRows /\ JobShape'
  BY <1>1, JobStays DEF CopyInv, Shape
<1>3. TxShape'
  <2>1. <<>> \in Seq(AllRows)
    OBVIOUS
  <2>2. QED BY <1>1, <1>2, <2>1 DEF TxShape, NoTx
<1>4. Shape'
  BY <1>1, <1>2, <1>3 DEF CopyInv, Shape, TargetShape
<1>5. InTurn'
  BY <1>1, <1>2 DEF CopyInv, InTurn, Ended
<1>6. BatchAtomic'
  BY <1>1, AtomicKept DEF CopyInv
<1>7. Synchronous' /\ BatchInTx'
  BY <1>1 DEF Synchronous, BatchInTx, Ended
<1>8. QED BY <1>4, <1>5, <1>6, <1>7 DEF CopyInv

\* From the arguments to the columns of the next table: nothing is written.
LEMMA BeforeTables ==
  ASSUME CopyInv, ParseArgs \/ Connect \/ FetchColumns
  PROVE  CopyInv'
<1>1. CASE \E how \in Ended : Exit(how)
  BY <1>1, ExitStep
<1>2. CASE ~\E how \in Ended : Exit(how)
  <2>1. UNCHANGED <<job, page, target, tx, unread, base, pages, doubt>>
    BY <1>2 DEF ParseArgs, Connect, FetchColumns, Goto, NextTable, dbVars, history, Ended
  <2>2. N' = N /\ AllRows' = AllRows /\ JobShape' /\ \A t : Todo'[t] = Todo[t]
    BY <2>1, JobStays DEF CopyInv, Shape
  <2>3. /\ cur' \in {cur, cur + 1} /\ offset' \in {offset, 0}
        /\ pc' \in {"connect", "columns", "drop", "page", "close"}
    BY <1>2 DEF ParseArgs, Connect, FetchColumns, Goto, NextTable, dbVars, history, Ended
  <2>4. Shape'
    BY <2>1, <2>2, <2>3 DEF CopyInv, Shape, TargetShape, TxShape
  <2>5. InTurn'
    <3>1. CASE ParseArgs
      BY <1>2, <2>1, <2>2, <3>1 DEF ParseArgs, Goto, CopyInv, InTurn, Ended
    <3>2. CASE Connect
      <4>1. cur' = cur /\ cur = 1 /\ pc' = IF N = 0 THEN "close" ELSE "columns"
        BY <1>2, <3>2 DEF Connect, Goto, CopyInv, InTurn, Ended
      <4>2. pages[cur] = <<>> \/ cur \notin 1..N
        BY <3>2 DEF Connect, CopyInv, InTurn
      <4>3. N # 0 => cur \in 1..N
        BY <4>1 DEF CopyInv, Shape, JobShape
      <4>4. QED BY <2>1, <2>2, <4>1, <4>2, <4>3 DEF CopyInv, InTurn
    <3>3. CASE FetchColumns
      <4>1. cur \in 1..N /\ pages[cur] = <<>> /\ \A t \in 1..N : t > cur => pages[t] = <<>>
        BY <3>3 DEF FetchColumns, CopyInv, InTurn
      <4>2. CASE cur' = cur + 1 /\ pc' = IF cur < N THEN "columns" ELSE "close"
        <5>1. cur < N <=> cur + 1 \in 1..N
          <6>1. cur \in Nat \ {0} /\ N \in Nat
            BY DEF CopyInv, Shape, JobShape
          <6>2. QED BY <6>1
        <5>2. \A t \in 1..N : t >= cur + 1 => pages[t] = <<>>
          BY <4>1
        <5>3. cur + 1 \in 1..N => pages[cur + 1] = <<>>
          BY <4>1
        <5>4. \A t \in 1..N : t > cur + 1 => pages[t] = <<>>
          BY <4>1
        <5>5. QED BY <2>1, <2>2, <4>2, <5>1, <5>3, <5>4 DEF InTurn
      <4>3. CASE cur' = cur /\ offset' = 0 /\ pc' \in {"drop", "page"}
        BY <2>1, <2>2, <4>1, <4>3 DEF InTurn
      <4>4. QED BY <1>2, <3>3, <4>2, <4>3 DEF FetchColumns, Goto, NextTable, Ended
    <3>4. QED BY <3>1, <3>2, <3>3
  <2>6. BatchAtomic'
    BY <2>1, AtomicKept DEF CopyInv
  <2>7. Synchronous'
    BY <2>1, <2>3 DEF CopyInv, Synchronous, Ended
  <2>8. BatchInTx'
    <3>1. pc' = "page" => cur' = cur /\ pages[cur] = <<>>
      BY <1>2 DEF ParseArgs, Connect, FetchColumns, Goto, NextTable, Ended, CopyInv, InTurn
    <3>2. QED BY <2>1, <2>3, <3>1 DEF BatchInTx
  <2>9. QED BY <2>4, <2>5, <2>6, <2>7, <2>8 DEF CopyInv
<1>3. QED BY <1>1, <1>2

\* An outcome is well formed and changes no table but the current one.
Fits(o) ==
  /\ DOMAIN o.tab = 1..N
  /\ \A t \in 1..N : DOMAIN o.tab[t] = {"def", "rows"} /\ o.tab[t].rows \in Seq(AllRows)
  /\ \A t \in 1..N : t # cur => o.tab[t] = target[t]
  /\ DOMAIN o.tx = {"st", "rows"} /\ o.tx.rows \in Seq(AllRows)

\* So a call changes no table but the current one.
LEMMA CallFits ==
  ASSUME CopyInv, job' = job, NEW outcomes, NEW got, Call(outcomes, got),
         \A o \in outcomes : Fits(o)
  PROVE  /\ TargetShape' /\ TxShape'
         /\ \A t \in 1..N : t # cur => target'[t] = target[t]
<1>1. N' = N /\ AllRows' = AllRows
  BY JobStays
<1>2. \/ target' = target /\ tx' = tx
      \/ \E o \in outcomes : target' = o.tab /\ tx' = o.tx
  BY CallFacts DEF CopyInv, Shape
<1>3. CASE target' = target /\ tx' = tx
  BY <1>1, <1>3 DEF CopyInv, Shape, TargetShape, TxShape
<1>4. CASE \E o \in outcomes : target' = o.tab /\ tx' = o.tx
  BY <1>1, <1>4 DEF Fits, TargetShape, TxShape
<1>5. QED BY <1>2, <1>3, <1>4

\* A refusal is such an outcome.
LEMMA RefusedFits == ASSUME CopyInv PROVE Fits(Refused)
BY RefusedFacts DEF CopyInv, Shape, TargetShape, TxShape, Fits

\* DROP TABLE: no page of the table has been read yet.
LEMMA DropStep ==
  ASSUME CopyInv, DropOld
  PROVE  CopyInv'
<1>1. PICK got \in BOOLEAN : Call(DropOn, got)
  BY DEF DropOld
<1>2. pc = "drop" /\ pc' = "create" /\ UNCHANGED <<job, cur, offset, page, base, pages>>
  BY DEF DropOld, Goto
<1>3. N' = N /\ AllRows' = AllRows /\ JobShape'
  BY <1>2, JobStays DEF CopyInv, Shape
<1>4. \A o \in DropOn : Fits(o)
  <2> DEFINE o == Outcome([target EXCEPT ![cur] = Absent], tx, TRUE)
  <2>1. <<>> \in Seq(AllRows)
    OBVIOUS
  <2>2. o.tab = [target EXCEPT ![cur] = Absent] /\ o.tx = tx
    BY DEF Outcome
  <2> HIDE DEF o
  <2>3. Fits(o)
    BY <2>1, <2>2 DEF CopyInv, Shape, TargetShape, TxShape, Fits, Absent
  <2>4. QED BY <2>3, RefusedFits DEF DropOn, o
<1>5. /\ TargetShape' /\ TxShape'
      /\ \A t \in 1..N : t # cur => target'[t] = target[t]
  BY <1>1, <1>2, <1>4, CallFits
<1>6. doubt' \in BOOLEAN /\ (~doubt' => ~doubt /\ unread' = <<>>)
  BY <1>1, CallFacts DEF CopyInv, Shape
<1>7. Shape'
  BY <1>2, <1>3, <1>5, <1>6 DEF CopyInv, Shape
<1>8. cur \in 1..N /\ pages[cur] = <<>>
  BY <1>2 DEF CopyInv, InTurn
<1>9. InTurn'
  BY <1>2, <1>3, <1>8 DEF CopyInv, InTurn
<1>10. BatchAtomic'
  BY <1>2, <1>5, <1>6, <1>8, AtomicKept DEF CopyInv
<1>11. Synchronous' /\ BatchInTx'
  BY <1>2, <1>6 DEF Synchronous, BatchInTx, Ended
<1>12. QED BY <1>7, <1>9, <1>10, <1>11 DEF CopyInv

\* CREATE TABLE, and the way to the pages or to the next table.
LEMMA CreateStep ==
  ASSUME CopyInv, CreateTable
  PROVE  CopyInv'
<1>1. PICK got \in BOOLEAN :
        /\ Call(CreateOn(Result[cur]), got)
        /\ \/ NextTable
           \/ Goto("page") /\ UNCHANGED cur
  BY DEF CreateTable
<1>2. pc = "create" /\ UNCHANGED <<job, offset, page, base, pages>>
  BY <1>1 DEF CreateTable, Goto, NextTable
<1>3. N' = N /\ AllRows' = AllRows /\ JobShape'
  BY <1>2, JobStays DEF CopyInv, Shape
<1>4. \A o \in CreateOn(Result[cur]) : Fits(o)
  <2> DEFINE b == Result[cur]
             made == Outcome([target EXCEPT ![cur] = [def |-> b, rows |-> <<>>]], tx, TRUE)
             there == Outcome(target, tx, TRUE)
  <2>1. <<>> \in Seq(AllRows)
    OBVIOUS
  <2>2. made.tab = [target EXCEPT ![cur] = [def |-> b, rows |-> <<>>]] /\ made.tx = tx
    BY DEF Outcome
  <2>3. there.tab = target /\ there.tx = tx
    BY DEF Outcome
  <2>4. \A o \in CreateOn(b) : o \in {made, there, Refused}
    BY DEF CreateOn
  <2> HIDE DEF made, there, b
  <2>5. Fits(made) /\ Fits(there)
    BY <2>1, <2>2, <2>3 DEF CopyInv, Shape, TargetShape, TxShape, Fits
  <2>6. QED BY <2>4, <2>5, RefusedFits, SMTT(60) DEF b
<1>5. /\ TargetShape' /\ TxShape'
      /\ \A t \in 1..N : t # cur => target'[t] = target[t]
  BY <1>1, <1>2, <1>4, CallFits
<1>6. doubt' \in BOOLEAN /\ (~doubt' => ~doubt /\ unread' = <<>>)
  BY <1>1, CallFacts DEF CopyInv, Shape
<1>7. cur' \in {cur, cur + 1}
  BY <1>1 DEF NextTable
<1>8. Shape'
  BY <1>2, <1>3, <1>5, <1>6, <1>7 DEF CopyInv, Shape
<1>9. cur \in 1..N /\ pages[cur] = <<>> /\ offset = 0
  BY <1>2 DEF CopyInv, InTurn
<1>10. InTurn' /\ pc' \in {"page", "columns", "close"} /\ (pc' = "page" => cur' = cur)
  <2>1. \A t \in 1..N : t > cur => pages[t] = <<>>
    BY DEF CopyInv, InTurn
  <2>2. CASE cur' = cur + 1 /\ pc' = IF cur < N THEN "columns" ELSE "close"
    <3>1. cur < N <=> cur + 1 \in 1..N
      <4>1. cur \in Nat \ {0} /\ N \in Nat
        BY DEF CopyInv, Shape, JobShape
      <4>2. QED BY <4>1
    <3>2. /\ cur + 1 \in 1..N => pages[cur + 1] = <<>>
          /\ \A t \in 1..N : t > cur + 1 => pages[t] = <<>>
      BY <1>9, <2>1
    <3>3. QED BY <1>2, <1>3, <2>2, <3>1, <3>2 DEF InTurn
  <2>3. CASE cur' = cur /\ pc' = "page"
    BY <1>2, <1>3, <1>9, <2>1, <2>3 DEF InTurn
  <2>4. QED BY <1>1, <2>2, <2>3 DEF NextTable, Goto
<1>11. BatchAtomic'
  BY <1>2, <1>5, <1>6, <1>9, AtomicKept DEF CopyInv
<1>12. Synchronous' /\ BatchInTx'
  BY <1>2, <1>6, <1>9, <1>10 DEF Synchronous, BatchInTx, Ended
<1>13. QED BY <1>8, <1>10, <1>11, <1>12 DEF CopyInv

-----------------------------------------------------------------------------
(* The rows of a page.                                                     *)

\* An order of the source names its rows.
LEMMA OrdersAreOrders ==
  ASSUME Shape, cur \in 1..N, NEW p \in Orders
  PROVE  /\ Len(p) \in Nat
         /\ \A i \in 1..Len(p) : p[i] \in DOMAIN Source.rows
<1> DEFINE D == DOMAIN Source.rows
<1>1. Source.rows \in Seq(ToSet(Source.rows))
  BY DEF Shape, JobShape, Source
<1>2. Len(Source.rows) \in Nat /\ D = 1..Len(Source.rows)
  BY <1>1
<1>3. IsFiniteSet(D)
  BY <1>2, FS_Interval
<1>4. Cardinality(D) \in Nat
  BY <1>3, FS_CardinalityType
<1>5. p \in [1..Cardinality(D) -> D]
  BY DEF Orders, SetToSeqs
<1> HIDE DEF D
<1>6. p \in Seq(D) /\ Len(p) = Cardinality(D)
  BY <1>4, <1>5
<1>7. QED BY <1>4, <1>5, <1>6 DEF D

\* The smaller of two numbers is one of them and not above the other.
LEMMA SmallerOfTwo ==
  ASSUME NEW a \in Int, NEW b \in Int
  PROVE  Min({a, b}) \in Int /\ Min({a, b}) <= a /\ Min({a, b}) <= b
<1>1. \E x \in {a, b} : \A y \in {a, b} : x <= y
  OBVIOUS
<1>2. Min({a, b}) \in {a, b} /\ \A y \in {a, b} : Min({a, b}) <= y
  BY <1>1 DEF Min
<1>3. QED BY <1>2

\* A list over a range that is not empty starts at one: it is a sequence.
LEMMA RangeIsSeq ==
  ASSUME NEW V, NEW k \in Int, NEW s \in [1..k -> V], s # <<>>
  PROVE  s \in Seq(V) \ {<<>>}
<1>1. CASE k >= 0
  <2>1. k \in Nat
    BY <1>1
  <2>2. s \in Seq(V)
    BY <2>1
  <2>3. QED BY <2>2
<1>2. CASE k < 0
  <2>1. 1..k = 1..0
    BY <1>2
  <2>2. s \in [1..0 -> V]
    BY <2>1
  <2>3. s \in Seq(V) /\ Len(s) = 0
    BY <2>2
  <2>4. s = <<>>
    BY <2>3, EmptySeq
  <2>5. QED BY <2>4
<1>3. QED BY <1>1, <1>2

\* A page holds rows of the source.
LEMMA PageFacts ==
  ASSUME Shape, cur \in 1..N, NEW p \in Orders, NEW rows,
         rows = [i \in 1..Min({job.batch, Len(p) - offset}) |-> Source.rows[p[offset + i]]],
         rows # <<>>
  PROVE  rows \in Seq(AllRows) \ {<<>>}
<1>1. /\ Len(p) \in Nat /\ \A i \in 1..Len(p) : p[i] \in DOMAIN Source.rows
  BY OrdersAreOrders
<1>2. job.batch \in Nat /\ offset \in Nat
  BY DEF Shape, JobShape
<1> DEFINE k == Min({job.batch, Len(p) - offset})
<1>3. k \in Int /\ k <= Len(p) - offset
  <2>1. Len(p) - offset \in Int /\ job.batch \in Int
    BY <1>1, <1>2
  <2>2. QED BY <2>1, SmallerOfTwo
<1>4. rows = [i \in 1..k |-> Source.rows[p[offset + i]]]
  OBVIOUS
<1> HIDE DEF k
<1>5. ASSUME NEW i \in 1..k PROVE Source.rows[p[offset + i]] \in AllRows
  <2>1. offset + i \in 1..Len(p)
    BY <1>1, <1>2, <1>3
  <2>2. p[offset + i] \in DOMAIN Source.rows
    BY <1>1, <2>1
  <2>3. Source.rows[p[offset + i]] \in ToSet(Todo[cur].rows)
    BY <2>2 DEF ToSet, Source
  <2>4. QED BY <2>3 DEF AllRows
<1>6. rows \in [1..k -> AllRows]
  BY <1>4, <1>5
<1>7. QED BY <1>3, <1>6, RangeIsSeq

\* No pages, no rows.
LEMMA FlattenEmpty == FlattenSeq(<<>>) = <<>>
BY DEF FlattenSeq

\* What comes before the member just appended, and that member.
LEMMA FrontAndLast ==
  ASSUME NEW S, NEW q \in Seq(S), NEW e \in S
  PROVE  /\ Append(q, e) \in Seq(S) /\ Append(q, e) # <<>> /\ Len(Append(q, e)) = Len(q) + 1
         /\ Front(Append(q, e)) = q /\ Last(Append(q, e)) = e
         /\ SubSeq(Append(q, e), 1, Len(q)) = q
<1> DEFINE r == Append(q, e)
<1>1. /\ r \in Seq(S) /\ r # <<>> /\ Len(r) = Len(q) + 1 /\ r[Len(q) + 1] = e /\ Len(q) \in Nat
      /\ \A i \in 1..Len(q) : r[i] = q[i]
  OBVIOUS
<1> HIDE DEF r
<1>2. /\ SubSeq(r, 1, Len(q)) \in Seq(S) /\ Len(SubSeq(r, 1, Len(q))) = Len(q)
      /\ \A i \in 1..Len(q) : SubSeq(r, 1, Len(q))[i] = r[i]
  BY <1>1
<1>3. SubSeq(r, 1, Len(q)) = q
  <2>1. \A i \in 1..Len(q) : SubSeq(r, 1, Len(q))[i] = q[i]
    BY <1>1, <1>2
  <2>2. QED BY <1>2, <2>1, SeqEqual
<1>4. Front(r) = SubSeq(r, 1, Len(q)) /\ Last(r) = e
  BY <1>1 DEF Front, Last
<1>5. QED BY <1>1, <1>3, <1>4 DEF r

\* A queue that is not empty is its front and its last member.
LEMMA FrontThenLast ==
  ASSUME NEW S, NEW q \in Seq(S), q # <<>>
  PROVE  /\ Front(q) \in Seq(S) /\ Last(q) \in S /\ Append(Front(q), Last(q)) = q
         /\ SubSeq(q, 1, Len(q)) = q /\ Len(q) \in Nat
<1>1. PICK f \in Seq(S), e \in S : q = Append(f, e)
  <2>1. /\ Len(q) \in Nat /\ Len(q) >= 1
    OBVIOUS
  <2>2. SubSeq(q, 1, Len(q) - 1) \in Seq(S) /\ q[Len(q)] \in S
    BY <2>1
  <2>3. q = Append(SubSeq(q, 1, Len(q) - 1), q[Len(q)])
    <3> DEFINE f == SubSeq(q, 1, Len(q) - 1)
    <3>1. f \in Seq(S) /\ Len(f) = Len(q) - 1 /\ \A i \in 1..(Len(q) - 1) : f[i] = q[i]
      <4>1. f \in Seq(S)
        BY <2>2
      <4>2. Len(f) = Len(q) - 1
        BY <2>1, SMTT(60)
      <4>3. \A i \in 1..(Len(q) - 1) : f[i] = q[i]
        BY <2>1
      <4>4. QED BY <4>1, <4>2, <4>3
    <3> HIDE DEF f
    <3>2. /\ Append(f, q[Len(q)]) \in Seq(S) /\ Len(Append(f, q[Len(q)])) = Len(q)
          /\ \A i \in 1..(Len(q) - 1) : Append(f, q[Len(q)])[i] = f[i]
          /\ Append(f, q[Len(q)])[Len(q)] = q[Len(q)]
      BY <2>1, <2>2, <3>1
    <3>3. \A i \in 1..Len(q) : Append(f, q[Len(q)])[i] = q[i]
      <4>1. \A i \in 1..Len(q) : i = Len(q) \/ i \in 1..(Len(q) - 1)
        BY <2>1
      <4>2. QED BY <3>1, <3>2, <4>1
    <3>4. QED BY <3>2, <3>3, SeqEqual DEF f
  <2>4. QED BY <2>2, <2>3
<1>2. Front(q) = f /\ Last(q) = e
  BY <1>1, FrontAndLast
<1>3. SubSeq(q, 1, Len(q)) = q
  BY SubSeqFull
<1>4. QED BY <1>1, <1>2, <1>3

\* The rows of all pages are those of the first ones and then those of the last.
LEMMA LastPage ==
  ASSUME NEW S, NEW q \in Seq(Seq(S) \ {<<>>}), q # <<>>, NEW b \in Seq(S)
  PROVE  (b \o FlattenSeq(Front(q))) \o Last(q) = b \o FlattenSeq(q)
<1> DEFINE P == Seq(S) \ {<<>>}
<1>1. Front(q) \in Seq(P) /\ Last(q) \in Seq(S) /\ Append(Front(q), Last(q)) = q
  <2>1. P \subseteq Seq(S) /\ q \in Seq(P)
    OBVIOUS
  <2> HIDE DEF P
  <2>2. Front(q) \in Seq(P) /\ Last(q) \in P /\ Append(Front(q), Last(q)) = q
    BY <2>1, FrontThenLast
  <2>3. QED BY <2>1, <2>2
<1>2. Front(q) \in Seq(Seq(S))
  BY <1>1, SeqMonotonic
<1>3. FlattenSeq(Front(q)) \in Seq(S) /\ FlattenSeq(q) = FlattenSeq(Front(q)) \o Last(q)
  BY <1>1, <1>2, FlattenAppend
<1>4. FlattenSeq(Front(q)) \in Seq(S) /\ Last(q) \in Seq(S) /\ b \in Seq(S)
  BY <1>1, <1>3
<1>5. (b \o FlattenSeq(Front(q))) \o Last(q) = b \o (FlattenSeq(Front(q)) \o Last(q))
  BY <1>4, SMTT(60)
<1>6. QED BY <1>3, <1>5

\* A page joins the history before any row of it is sent: the table then holds
\* the pages in front of it.
LEMMA PageStep ==
  ASSUME CopyInv, ReadPage
  PROVE  CopyInv'
<1>1. CASE Exit("failed")
  BY <1>1, ExitStep DEF Ended
<1>2. CASE ~Exit("failed")
  <2>0. PICK p \in Orders :
         LET R == [i \in 1..Min({job.batch, Len(p) - offset}) |-> Source.rows[p[offset + i]]]
         IN \/ /\ R = <<>> /\ NextTable
               /\ UNCHANGED <<page, pages>>
            \/ /\ R # <<>> /\ Goto("begin") /\ page' = R
               /\ pages' = [pages EXCEPT ![cur] = Append(@, R)]
               /\ UNCHANGED cur
    BY <1>2 DEF ReadPage
  <2>1. PICK rows :
          /\ rows = [i \in 1..Min({job.batch, Len(p) - offset}) |-> Source.rows[p[offset + i]]]
          /\ \/ /\ rows = <<>> /\ NextTable
                /\ UNCHANGED <<page, pages>>
             \/ /\ rows # <<>> /\ Goto("begin") /\ page' = rows
                /\ pages' = [pages EXCEPT ![cur] = Append(@, rows)]
                /\ UNCHANGED cur
    BY <2>0
  <2>2. /\ pc = "page" /\ UNCHANGED <<job, offset, target, tx, unread, doubt>>
        /\ base' = IF offset = 0 THEN [base EXCEPT ![cur] = target[cur].rows] ELSE base
    BY <1>2, <2>1 DEF ReadPage, dbVars, NextTable, Goto
  <2>3. N' = N /\ AllRows' = AllRows /\ JobShape'
    BY <2>2, JobStays DEF CopyInv, Shape
  <2>4. /\ cur \in 1..N /\ (offset = 0 <=> pages[cur] = <<>>)
        /\ \A t \in 1..N : t > cur => pages[t] = <<>>
    BY <2>2 DEF CopyInv, InTurn
  <2>5. base' \in [1..N -> Seq(AllRows)] /\ \A t \in 1..N : t # cur => base'[t] = base[t]
    BY <2>2, <2>4 DEF CopyInv, Shape, TargetShape
  <2>6. pages[cur] # <<>> => base'[cur] = base[cur]
    BY <2>2, <2>4
  <2>7. CASE rows = <<>>
    <3>1. cur' = cur + 1 /\ pc' = (IF cur < N THEN "columns" ELSE "close") /\ UNCHANGED <<page, pages>>
      BY <2>1, <2>7 DEF NextTable, Goto
    <3>2. Shape'
      BY <2>2, <2>3, <2>5, <3>1 DEF CopyInv, Shape, TargetShape, TxShape
    <3>3. cur < N <=> cur + 1 \in 1..N
      <4>1. cur \in Nat \ {0} /\ N \in Nat
        BY DEF CopyInv, Shape, JobShape
      <4>2. QED BY <4>1
    <3>4. /\ cur + 1 \in 1..N => pages[cur + 1] = <<>>
          /\ \A t \in 1..N : t > cur + 1 => pages[t] = <<>>
      BY <2>4
    <3>5. InTurn'
      BY <2>2, <2>3, <3>1, <3>3, <3>4 DEF InTurn
    <3>6. BatchAtomic'
      <4>1. \A t \in 1..N : pages[t] # <<>> => target'[t].rows = target[t].rows /\ base'[t] = base[t]
        BY <2>2, <2>5, <2>6
      <4>2. QED BY <2>2, <3>1, <4>1, AtomicKept DEF CopyInv
    <3>7. Synchronous' /\ BatchInTx'
      BY <2>2, <3>1 DEF CopyInv, Synchronous, BatchInTx, Ended
    <3>8. QED BY <3>2, <3>5, <3>6, <3>7 DEF CopyInv
  <2>8. CASE rows # <<>>
    <3>1. /\ pc' = "begin" /\ page' = rows /\ cur' = cur
          /\ pages' = [pages EXCEPT ![cur] = Append(pages[cur], rows)]
      BY <2>1, <2>8 DEF Goto
    <3>2. rows \in Seq(AllRows) \ {<<>>}
      BY <2>1, <2>4, <2>8, PageFacts DEF CopyInv
    <3>3. pages[cur] \in Seq(Seq(AllRows) \ {<<>>})
      BY <2>4 DEF CopyInv, Shape
    <3>4. /\ pages'[cur] = Append(pages[cur], rows)
          /\ \A t \in 1..N : t # cur => pages'[t] = pages[t]
      BY <2>4, <3>1 DEF CopyInv, Shape
    <3>5. /\ pages'[cur] \in Seq(Seq(AllRows) \ {<<>>}) /\ pages'[cur] # <<>>
          /\ Len(pages'[cur]) = Len(pages[cur]) + 1 /\ Len(pages[cur]) \in Nat
          /\ Front(pages'[cur]) = pages[cur] /\ Last(pages'[cur]) = rows
          /\ SubSeq(pages'[cur], 1, Len(pages[cur])) = pages[cur]
      <4>1. Len(pages[cur]) \in Nat
        BY <3>3
      <4>2. QED BY <3>2, <3>3, <3>4, <4>1, FrontAndLast
    <3>6. pages' \in [1..N -> Seq(Seq(AllRows) \ {<<>>})]
      BY <2>4, <3>1, <3>4, <3>5 DEF CopyInv, Shape
    <3>7. Shape'
      BY <2>2, <2>3, <2>5, <3>1, <3>2, <3>6 DEF CopyInv, Shape, TargetShape, TxShape
    <3>8. InTurn'
      BY <2>2, <2>3, <2>4, <3>1, <3>2, <3>4, <3>5 DEF InTurn
    <3>9. ~doubt => target[cur].rows = base'[cur] \o FlattenSeq(pages[cur])
      <4>1. CASE pages[cur] = <<>>
        <5>1. base'[cur] = target[cur].rows /\ target[cur].rows \in Seq(AllRows)
          BY <2>2, <2>4, <4>1 DEF CopyInv, Shape, TargetShape
        <5>2. target[cur].rows \o <<>> = target[cur].rows
          BY <5>1, ConcatEmptySeq
        <5>3. QED BY <4>1, <5>1, <5>2, FlattenEmpty
      <4>2. CASE pages[cur] # <<>>
        BY <2>2, <2>6, <4>2 DEF CopyInv, BatchInTx, AllPagesIn
      <4>3. QED BY <4>1, <4>2
    <3>10. BatchAtomic'
      <4>1. ASSUME ~doubt, NEW t \in 1..N, pages'[t] # <<>>
            PROVE  \E n \in 0..Len(pages'[t]) : target[t].rows = base'[t] \o FlattenSeq(SubSeq(pages'[t], 1, n))
        <5>1. CASE t = cur
          <6>1. target[cur].rows = base'[cur] \o FlattenSeq(SubSeq(pages'[cur], 1, Len(pages[cur])))
            BY <3>5, <3>9, <4>1
          <6>2. Len(pages[cur]) \in 0..Len(pages'[cur])
            BY <3>5
          <6>3. QED BY <5>1, <6>1, <6>2
        <5>2. CASE t # cur
          <6>1. pages'[t] = pages[t] /\ base'[t] = base[t]
            BY <2>5, <3>4, <5>2
          <6>2. PICK n \in 0..Len(pages[t]) : target[t].rows = base[t] \o FlattenSeq(SubSeq(pages[t], 1, n))
            BY <4>1, <6>1 DEF CopyInv, BatchAtomic
          <6>3. target[t].rows = base'[t] \o FlattenSeq(SubSeq(pages'[t], 1, n)) /\ n \in 0..Len(pages'[t])
            BY <6>1, <6>2
          <6>4. QED BY <6>3
        <5>3. QED BY <5>1, <5>2
      <4>2. QED BY <2>2, <2>3, <4>1 DEF BatchAtomic
    <3>11. Synchronous' /\ (~doubt' => BatchInTx')
      <4>1. ~doubt => target'[cur'].rows = base'[cur'] \o FlattenSeq(Front(pages'[cur']))
        BY <2>2, <3>1, <3>5, <3>9
      <4>2. page' = Last(pages'[cur'])
        BY <3>1, <3>5
      <4>3. QED BY <2>2, <3>1, <4>1, <4>2 DEF CopyInv, Synchronous, BatchInTx, FrontPagesIn, Ended
    <3>12. QED BY <3>7, <3>8, <3>10, <3>11 DEF CopyInv
  <2>9. QED BY <2>7, <2>8
<1>3. QED BY <1>1, <1>2

\* BEGIN: the transaction is open and empty, and the whole page waits.
LEMMA BeginStep ==
  ASSUME CopyInv, BeginBatch
  PROVE  CopyInv'
<1>1. PICK got \in BOOLEAN : Call(BeginOn, got) /\ Goto(IF got THEN "insert" ELSE "failing")
  BY DEF BeginBatch, Step
<1>2. /\ pc = "begin" /\ UNCHANGED <<job, cur, offset, page, base, pages>>
      /\ pc' = IF got THEN "insert" ELSE "failing"
  BY <1>1 DEF BeginBatch, Goto
<1>3. N' = N /\ AllRows' = AllRows /\ JobShape'
  BY <1>2, JobStays DEF CopyInv, Shape
<1>4. \A o \in BeginOn : o.tab = target /\ o.tx = [st |-> "open", rows |-> <<>>]
  BY DEF BeginOn, Outcome
<1>5. \A o \in BeginOn : Fits(o)
  <2>1. <<>> \in Seq(AllRows)
    OBVIOUS
  <2>2. ASSUME NEW o \in BeginOn PROVE DOMAIN o.tx = {"st", "rows"} /\ o.tx.rows \in Seq(AllRows)
    <3>1. o.tx = [st |-> "open", rows |-> <<>>]
      BY <1>4
    <3>2. DOMAIN o.tx = {"st", "rows"} /\ o.tx.rows = <<>>
      BY <3>1
    <3>3. QED BY <2>1, <3>2
  <2>3. QED BY <1>4, <2>2 DEF CopyInv, Shape, TargetShape, Fits
<1>6. TargetShape' /\ TxShape'
  BY <1>1, <1>2, <1>5, CallFits
<1>7. /\ doubt' \in BOOLEAN /\ (~doubt' => ~doubt /\ unread' = <<>>)
      /\ target' = target
      /\ ~doubt' /\ got => tx' = [st |-> "open", rows |-> <<>>]
  BY <1>1, <1>4, CallFacts DEF CopyInv, Shape
<1>8. Shape'
  BY <1>2, <1>3, <1>6, <1>7 DEF CopyInv, Shape
<1>9. InTurn'
  BY <1>2, <1>3 DEF CopyInv, InTurn
<1>10. BatchAtomic'
  BY <1>2, <1>7, AtomicKept DEF CopyInv
<1>11. Synchronous'
  BY <1>2, <1>7 DEF Synchronous, Ended
<1>12. ASSUME ~doubt' PROVE BatchInTx'
  <2>1. FrontPagesIn /\ page = Last(pages[cur])
    BY <1>2, <1>7, <1>12 DEF CopyInv, BatchInTx
  <2>2. <<>> \o page = page
    BY ConcatEmptySeq DEF CopyInv, Shape
  <2>3. got => tx'.st = "open" /\ tx'.rows \o page' = Last(pages'[cur'])
    <3>1. got => tx'.st = "open" /\ tx'.rows = <<>>
      BY <1>7, <1>12
    <3>2. page' = page /\ pages'[cur'] = pages[cur]
      BY <1>2
    <3>3. QED BY <2>1, <2>2, <3>1, <3>2
  <2>4. QED BY <1>2, <1>7, <2>1, <2>3 DEF BatchInTx, FrontPagesIn
<1>13. QED BY <1>8, <1>9, <1>10, <1>11, <1>12 DEF CopyInv

\* A row goes from the front of one sequence to the end of the other.
LEMMA RowMoves ==
  ASSUME NEW S, NEW a \in Seq(S), NEW b \in Seq(S), b # <<>>
  PROVE  /\ Append(a, Head(b)) \o Tail(b) = a \o b
         /\ Len(b) = 1 => Append(a, Head(b)) = a \o b
         /\ Len(b) # 1 => Tail(b) # <<>>
         /\ Head(b) \in S /\ Tail(b) \in Seq(S) /\ Append(a, Head(b)) \in Seq(S)
<1>1. /\ Head(b) \in S /\ Tail(b) \in Seq(S) /\ Append(a, Head(b)) \in Seq(S)
      /\ <<Head(b)>> \in Seq(S) /\ Len(b) \in Nat /\ Len(b) >= 1
  OBVIOUS
<1>2. Append(a, Head(b)) = a \o <<Head(b)>>
  BY <1>1, AppendIsConcat
<1>3. <<Head(b)>> \o Tail(b) = b
  BY HeadTailProperties
<1>4. (a \o <<Head(b)>>) \o Tail(b) = a \o (<<Head(b)>> \o Tail(b))
  BY <1>1, ConcatAssociative
<1>5. Tail(b) = <<>> <=> Len(b) = 1
  BY LastRead
<1>6. Len(b) = 1 => <<Head(b)>> = b
  <2>1. <<Head(b)>> \o <<>> = <<Head(b)>>
    BY <1>1, ConcatEmptySeq
  <2>2. QED BY <1>3, <1>5, <2>1
<1>7. QED BY <1>1, <1>2, <1>3, <1>4, <1>5, <1>6

\* INSERT: the first row that waits moves to the end of the transaction.
LEMMA InsertStep ==
  ASSUME CopyInv, InsertRow
  PROVE  CopyInv'
<1> DEFINE row == Head(page)
           outcomes == InsertOn(row, Paged.holes)
           direct == Outcome([target EXCEPT ![cur].rows = Append(@, row)], tx, TRUE)
           held == Outcome(target, [tx EXCEPT !.rows = Append(@, row)], TRUE)
<1>1. PICK got \in BOOLEAN :
        Call(outcomes, got) /\ Goto(IF got THEN (IF Len(page) = 1 THEN "commit" ELSE "insert") ELSE "failing")
  BY DEF InsertRow, Step
<1>2. /\ pc = "insert" /\ page' = Tail(page) /\ UNCHANGED <<job, cur, offset, base, pages>>
      /\ pc' = IF got THEN (IF Len(page) = 1 THEN "commit" ELSE "insert") ELSE "failing"
  BY <1>1 DEF InsertRow, Goto
<1>3. N' = N /\ AllRows' = AllRows /\ JobShape'
  BY <1>2, JobStays DEF CopyInv, Shape
<1>4. page # <<>> /\ cur \in 1..N /\ pages[cur] # <<>>
  BY <1>2 DEF CopyInv, InTurn
<1>5. /\ Append(tx.rows, row) \o Tail(page) = tx.rows \o page
      /\ Len(page) = 1 => Append(tx.rows, row) = tx.rows \o page
      /\ Len(page) # 1 => Tail(page) # <<>>
      /\ row \in AllRows /\ Tail(page) \in Seq(AllRows) /\ Append(tx.rows, row) \in Seq(AllRows)
  BY <1>4, RowMoves DEF CopyInv, Shape, TxShape
<1>6. \A o \in outcomes : o \in {direct, held, Refused} /\ (tx.st = "open" => o \in {held, Refused})
  BY DEF InsertOn
<1>7. /\ direct.tab = [target EXCEPT ![cur].rows = Append(@, row)] /\ direct.tx = tx
      /\ held.tab = target /\ held.tx = [tx EXCEPT !.rows = Append(@, row)]
  BY DEF Outcome
<1> HIDE DEF row, outcomes, direct, held
<1>8. Fits(direct)
  <2>1. target[cur].rows \in Seq(AllRows) /\ DOMAIN target[cur] = {"def", "rows"}
    BY <1>4 DEF CopyInv, Shape, TargetShape
  <2>2. Append(target[cur].rows, row) \in Seq(AllRows)
    BY <1>5, <2>1
  <2>3. direct.tab = [target EXCEPT ![cur] = [target[cur] EXCEPT !.rows = Append(target[cur].rows, row)]]
    BY <1>7
  <2>4. /\ DOMAIN direct.tab = DOMAIN target /\ \A t \in DOMAIN target : t # cur => direct.tab[t] = target[t]
        /\ DOMAIN direct.tab[cur] = {"def", "rows"} /\ direct.tab[cur].rows \in Seq(AllRows)
    BY <1>4, <2>1, <2>2, <2>3 DEF CopyInv, Shape, TargetShape
  <2>5. QED BY <1>4, <1>7, <2>4 DEF CopyInv, Shape, TargetShape, TxShape, Fits
<1>9. DOMAIN held.tx = {"st", "rows"} /\ held.tx.st = tx.st /\ held.tx.rows = Append(tx.rows, row)
  BY <1>7 DEF CopyInv, Shape, TxShape
<1>10. Fits(held)
  BY <1>5, <1>7, <1>9 DEF CopyInv, Shape, TargetShape, Fits
<1>11. \A o \in outcomes : Fits(o)
  BY <1>6, <1>8, <1>10, RefusedFits
<1>12. TargetShape' /\ TxShape'
  BY <1>1, <1>2, <1>11, CallFits
<1>13. doubt' \in BOOLEAN /\ (~doubt' => ~doubt /\ unread' = <<>>)
  BY <1>1, CallFacts DEF CopyInv, Shape
<1>14. Shape'
  BY <1>2, <1>3, <1>5, <1>12, <1>13 DEF CopyInv, Shape
<1>15. InTurn'
  BY <1>2, <1>3, <1>4, <1>5 DEF CopyInv, InTurn
<1>16. ASSUME ~doubt'
       PROVE  /\ target' = target
              /\ got => tx'.st = "open" /\ tx'.rows = Append(tx.rows, row)
  <2>1. tx.st = "open"
    BY <1>2, <1>13, <1>16 DEF CopyInv, BatchInTx
  <2>2. Refused.tab = target /\ ~Refused.ok
    BY RefusedFacts DEF CopyInv, Shape, TxShape
  <2>3. \A o \in outcomes : o.tab = target /\ (o.ok => o = held)
    BY <1>6, <1>7, <2>1, <2>2
  <2>4. target' = target
    BY <1>1, <2>3, CallFacts DEF CopyInv, Shape
  <2>5. got => tx' = held.tx
    BY <1>1, <1>16, <2>3, CallFacts DEF CopyInv, Shape
  <2>6. QED BY <1>9, <2>1, <2>4, <2>5
<1>17. BatchAtomic'
  <2>1. CASE doubt'
    BY <2>1 DEF BatchAtomic
  <2>2. CASE ~doubt'
    BY <1>2, <1>13, <1>16, <2>2, AtomicKept DEF CopyInv
  <2>3. QED BY <2>1, <2>2
<1>18. Synchronous'
  BY <1>2, <1>13 DEF Synchronous, Ended
<1>19. ASSUME ~doubt' PROVE BatchInTx'
  <2>1. FrontPagesIn /\ tx.rows \o page = Last(pages[cur])
    BY <1>2, <1>13, <1>19 DEF CopyInv, BatchInTx
  <2>2. FrontPagesIn'
    BY <1>2, <1>16, <1>19, <2>1 DEF FrontPagesIn
  <2>3. CASE ~got
    BY <1>2, <2>3 DEF BatchInTx
  <2>4. CASE got /\ Len(page) = 1
    BY <1>2, <1>5, <1>16, <1>19, <2>1, <2>2, <2>4 DEF BatchInTx
  <2>5. CASE got /\ Len(page) # 1
    BY <1>2, <1>5, <1>16, <1>19, <2>1, <2>2, <2>5 DEF BatchInTx
  <2>6. QED BY <2>3, <2>4, <2>5
<1>20. QED BY <1>14, <1>15, <1>17, <1>18, <1>19 DEF CopyInv

\* Every tool writes to one of the three databases.
LEMMA KindIsKnown == ASSUME JobShape PROVE Kind \in {"sqlite", "mysql", "postgresql"}
<1>1. job.tool \in Tools
  BY DEF JobShape
<1>2. QED BY <1>1 DEF Kind, Main, Tools, M2SMain, M2PMain, P2SMain, P2MMain, S2MMain, S2PMain

\* COMMIT: the whole page is in the table, or the program ends and none of it is
\* and the last page is not among the n of BatchAtomic.
LEMMA CommitStep ==
  ASSUME CopyInv, CommitBatch
  PROVE  CopyInv'
<1> DEFINE kept == Outcome([target EXCEPT ![cur].rows = @ \o tx.rows], NoTx, TRUE)
           undone == Outcome(target, NoTx, TRUE)
           busy == Outcome(target, tx, FALSE)
           lost == [undone EXCEPT !.ok = FALSE]
<1>1. PICK got \in BOOLEAN : Call(CommitOn, got) /\ Goto(IF got THEN "page" ELSE "failing")
  BY DEF CommitBatch, Step
<1>2. /\ pc = "commit" /\ UNCHANGED <<job, cur, page, base, pages>>
      /\ offset' = offset + Len(Last(pages[cur]))
      /\ pc' = IF got THEN "page" ELSE "failing"
  BY <1>1 DEF CommitBatch, Goto
<1>3. N' = N /\ AllRows' = AllRows /\ JobShape'
  BY <1>2, JobStays DEF CopyInv, Shape
<1>4. cur \in 1..N /\ pages[cur] # <<>> /\ \A t \in 1..N : t > cur => pages[t] = <<>>
  BY <1>2 DEF CopyInv, InTurn
<1>5. pages[cur] \in Seq(Seq(AllRows) \ {<<>>})
  BY <1>4 DEF CopyInv, Shape
<1>6. /\ Last(pages[cur]) \in Seq(AllRows) \ {<<>>}
      /\ SubSeq(pages[cur], 1, Len(pages[cur])) = pages[cur] /\ Len(pages[cur]) \in Nat
  BY <1>4, <1>5, FrontThenLast
<1>7. \A o \in CommitOn : /\ o \in {kept, undone, busy, lost}
                          /\ tx.st # "aborted" => o \in {kept, busy, lost}
  <2>1. Kind \in {"sqlite", "mysql", "postgresql"}
    BY KindIsKnown DEF CopyInv, Shape
  <2>2. CASE tx.st = "aborted"
    BY <2>2 DEF CommitOn
  <2>3. CASE tx.st # "aborted" /\ Kind = "sqlite"
    BY <2>3 DEF CommitOn
  <2>4. CASE tx.st # "aborted" /\ Kind = "mysql"
    BY <2>4 DEF CommitOn
  <2>5. CASE tx.st # "aborted" /\ Kind = "postgresql"
    BY <2>5 DEF CommitOn
  <2>6. QED BY <2>1, <2>2, <2>3, <2>4, <2>5
<1>8. /\ kept.tab = [target EXCEPT ![cur].rows = @ \o tx.rows] /\ kept.tx = NoTx
      /\ undone.tab = target /\ undone.tx = NoTx
      /\ busy.tab = target /\ busy.tx = tx /\ ~busy.ok
      /\ lost.tab = target /\ lost.tx = NoTx /\ ~lost.ok
  BY DEF Outcome
<1> HIDE DEF kept, undone, busy, lost
<1>9. target[cur].rows \in Seq(AllRows) /\ DOMAIN target[cur] = {"def", "rows"} /\ tx.rows \in Seq(AllRows)
  BY <1>4 DEF CopyInv, Shape, TargetShape, TxShape
<1>10. /\ DOMAIN kept.tab = 1..N /\ DOMAIN kept.tab[cur] = {"def", "rows"}
       /\ kept.tab[cur].rows = target[cur].rows \o tx.rows
       /\ \A t \in 1..N : t # cur => kept.tab[t] = target[t]
  <2>1. kept.tab = [target EXCEPT ![cur] = [target[cur] EXCEPT !.rows = target[cur].rows \o tx.rows]]
    BY <1>8
  <2>2. QED BY <1>4, <1>9, <2>1 DEF CopyInv, Shape, TargetShape
<1>11. DOMAIN NoTx = {"st", "rows"} /\ NoTx.rows \in Seq(AllRows)
  <2>1. <<>> \in Seq(AllRows)
    OBVIOUS
  <2>2. DOMAIN NoTx = {"st", "rows"} /\ NoTx.rows = <<>>
    BY DEF NoTx
  <2>3. QED BY <2>1, <2>2
<1>12. Fits(kept)
  <2>1. target[cur].rows \o tx.rows \in Seq(AllRows)
    BY <1>9
  <2>2. QED BY <1>8, <1>10, <1>11, <2>1 DEF CopyInv, Shape, TargetShape, Fits
<1>13. Fits(undone) /\ Fits(busy) /\ Fits(lost)
  BY <1>8, <1>11 DEF CopyInv, Shape, TargetShape, TxShape, Fits
<1>14. TargetShape' /\ TxShape' /\ \A t \in 1..N : t # cur => target'[t] = target[t]
  <2>1. \A o \in CommitOn : Fits(o)
    BY <1>7, <1>12, <1>13
  <2>2. QED BY <1>1, <1>2, <2>1, CallFits
<1>15. doubt' \in BOOLEAN /\ (~doubt' => ~doubt /\ unread' = <<>>)
  BY <1>1, CallFacts DEF CopyInv, Shape
<1>16. offset' \in Nat \ {0}
  <2>1. Len(Last(pages[cur])) \in Nat /\ Len(Last(pages[cur])) # 0
    BY <1>6, EmptySeq
  <2>2. offset \in Nat
    BY DEF CopyInv, Shape
  <2>3. QED BY <1>2, <2>1, <2>2
<1>17. Shape'
  BY <1>2, <1>3, <1>14, <1>15, <1>16 DEF CopyInv, Shape
<1>18. InTurn'
  BY <1>2, <1>3, <1>4, <1>16 DEF InTurn
<1>19. ASSUME ~doubt'
       PROVE  IF got THEN target'[cur].rows = base[cur] \o FlattenSeq(pages[cur]) ELSE target' = target
  <2>1. FrontPagesIn /\ tx.st = "open" /\ tx.rows = Last(pages[cur])
    BY <1>2, <1>15, <1>19 DEF CopyInv, BatchInTx
  <2>2. \A o \in CommitOn : o \in {kept, busy, lost}
    BY <1>7, <2>1
  <2>3. CASE got
    <3>1. \E o \in CommitOn : o.ok /\ target' = o.tab
      BY <1>1, <1>19, <2>3, CallFacts DEF CopyInv, Shape
    <3>2. target' = kept.tab
      BY <1>8, <2>2, <3>1
    <3>3. target'[cur].rows = (base[cur] \o FlattenSeq(Front(pages[cur]))) \o Last(pages[cur])
      BY <1>10, <2>1, <3>2 DEF FrontPagesIn
    <3>4. base[cur] \in Seq(AllRows)
      BY <1>4 DEF CopyInv, Shape
    <3>5. QED BY <1>4, <1>5, <2>3, <3>3, <3>4, LastPage
  <2>4. CASE ~got
    <3>1. target' = target \/ \E o \in CommitOn : ~o.ok /\ target' = o.tab
      BY <1>1, <1>19, <2>4, CallFacts DEF CopyInv, Shape
    <3>2. kept.ok
      BY DEF kept, Outcome
    <3>3. QED BY <1>8, <2>2, <2>4, <3>1, <3>2
  <2>5. QED BY <2>3, <2>4
<1>20. BatchAtomic'
  <2>1. CASE doubt'
    BY <2>1 DEF BatchAtomic
  <2>2. CASE ~doubt' /\ ~got
    BY <1>2, <1>15, <1>19, <2>2, AtomicKept DEF CopyInv
  <2>3. CASE ~doubt' /\ got
    <3>1. ASSUME NEW t \in 1..N, pages[t] # <<>>
          PROVE  \E n \in 0..Len(pages[t]) : target'[t].rows = base[t] \o FlattenSeq(SubSeq(pages[t], 1, n))
      <4>1. CASE t = cur
        <5>1. target'[cur].rows = base[cur] \o FlattenSeq(SubSeq(pages[cur], 1, Len(pages[cur])))
          BY <1>6, <1>19, <2>3
        <5>2. Len(pages[cur]) \in 0..Len(pages[cur])
          BY <1>6
        <5>3. QED BY <4>1, <5>1, <5>2
      <4>2. CASE t # cur
        BY <1>14, <1>15, <2>3, <3>1, <4>2 DEF CopyInv, BatchAtomic
      <4>3. QED BY <4>1, <4>2
    <3>2. QED BY <1>2, <1>3, <3>1 DEF BatchAtomic
  <2>4. QED BY <2>1, <2>2, <2>3
<1>21. Synchronous'
  BY <1>2, <1>15 DEF Synchronous, Ended
<1>22. ~doubt' => BatchInTx'
  BY <1>2, <1>19 DEF BatchInTx, AllPagesIn
<1>23. QED BY <1>17, <1>18, <1>20, <1>21, <1>22 DEF CopyInv

\* A new run starts with no pages and takes the rows it finds as they are.
LEMMA RerunStep ==
  ASSUME CopyInv, Rerun
  PROVE  CopyInv'
<1>1. /\ pc \in Ended /\ pc' = "args" /\ cur' = 1 /\ offset' = 0 /\ page' = <<>> /\ doubt' = FALSE
      /\ base' = [t \in 1..N |-> <<>>] /\ pages' = [t \in 1..N |-> <<>>]
      /\ UNCHANGED <<job, target, tx, unread>>
  BY DEF Rerun, dbVars
<1>2. N' = N /\ AllRows' = AllRows /\ JobShape'
  BY <1>1, JobStays DEF CopyInv, Shape
<1>3. /\ <<>> \in Seq(AllRows) /\ <<>> \in Seq(Seq(AllRows) \ {<<>>})
  OBVIOUS
<1>4. Shape'
  <2>1. /\ base' \in [1..N -> Seq(AllRows)] /\ pages' \in [1..N -> Seq(Seq(AllRows) \ {<<>>})]
        /\ page' \in Seq(AllRows)
    BY <1>1, <1>3
  <2>2. TargetShape' /\ TxShape'
    BY <1>1, <1>2 DEF CopyInv, Shape, TargetShape, TxShape
  <2>3. cur' \in Nat \ {0} /\ offset' \in Nat /\ doubt' \in BOOLEAN
    <3>1. cur' = 1 /\ offset' = 0 /\ doubt' = FALSE
      BY <1>1
    <3>2. 1 \in Nat \ {0} /\ 0 \in Nat /\ FALSE \in BOOLEAN
      OBVIOUS
    <3>3. QED BY <3>1, <3>2
  <2>4. QED BY <1>2, <2>1, <2>2, <2>3 DEF Shape
<1>5. InTurn' /\ BatchAtomic'
  BY <1>1, <1>2 DEF InTurn, BatchAtomic
<1>6. Synchronous' /\ BatchInTx'
  BY <1>1 DEF CopyInv, Synchronous, BatchInTx, Ended
<1>7. QED BY <1>4, <1>5, <1>6 DEF CopyInv

\* A sequence is one over its own members.
LEMMA OwnMembers == ASSUME NEW S, NEW q \in Seq(S) PROVE q \in Seq(ToSet(q))
<1>1. Len(q) \in Nat /\ q \in [1..Len(q) -> ToSet(q)]
  BY DEF ToSet
<1>2. QED BY <1>1

\* The first run does too.
LEMMA CopyInit == ASSUME Init PROVE CopyInv
<1>1. PICK j \in Jobs : job = Plan(j)
  BY DEF Init
<1>2. /\ job.tool = j.tool /\ job.batch = j.batch /\ Todo = Chosen(j)
  BY <1>1 DEF Plan, Todo
<1>3. JobShape
  <2>1. /\ j.tool \in Tools /\ j.batch \in Nat /\ Chosen(j) \in Seq(ToSet(Chosen(j)))
        /\ \A t \in DOMAIN Chosen(j) : Chosen(j)[t].rows \in Seq(ToSet(Chosen(j)[t].rows))
    <3>1. /\ j.tool \in Tools /\ j.batch \in Nat /\ Chosen(j) \in Seq(ToSet(Chosen(j)))
          /\ \A t \in DOMAIN Chosen(j) : Chosen(j)[t].rows \in Seq([k : Nat, r : Nat])
      BY CopyAssumption, SourceAssumption DEF IsTable
    <3>2. QED BY <3>1, OwnMembers
  <2>2. Len(Chosen(j)) \in Nat /\ DOMAIN Chosen(j) = 1..Len(Chosen(j))
    BY <2>1
  <2>3. QED BY <1>2, <2>1, <2>2 DEF JobShape, N
<1>4. /\ pc = "args" /\ cur = 1 /\ offset = 0 /\ page = <<>> /\ unread = <<>> /\ doubt = FALSE /\ tx = NoTx
      /\ base = [t \in 1..N |-> <<>>] /\ pages = [t \in 1..N |-> <<>>]
  BY DEF Init
<1>5. <<>> \in Seq(AllRows) /\ <<>> \in Seq(Seq(AllRows) \ {<<>>})
  OBVIOUS
<1>6. TargetShape
  <2>1. PICK old : target = [t \in 1..N |-> IF t \in old THEN [def |-> Result[t], rows |-> Stale] ELSE Absent]
    BY DEF Init
  <2>2. Stale \in Seq(AllRows)
    <3>1. Stale \in Seq(ToSet(Stale)) /\ ToSet(Stale) \subseteq AllRows
      BY CopyAssumption DEF AllRows
    <3>2. QED BY <3>1, SeqMonotonic
  <2>3. QED BY <1>5, <2>1, <2>2 DEF TargetShape, Absent
<1>7. TxShape
  BY <1>4, <1>5 DEF TxShape, NoTx
<1>8. Shape
  <2>1. /\ base \in [1..N -> Seq(AllRows)] /\ pages \in [1..N -> Seq(Seq(AllRows) \ {<<>>})]
        /\ page \in Seq(AllRows)
    BY <1>4, <1>5
  <2>2. cur \in Nat \ {0} /\ offset \in Nat /\ doubt \in BOOLEAN
    <3>1. cur = 1 /\ offset = 0 /\ doubt = FALSE
      BY <1>4
    <3>2. 1 \in Nat \ {0} /\ 0 \in Nat /\ FALSE \in BOOLEAN
      OBVIOUS
    <3>3. QED BY <3>1, <3>2
  <2>3. QED BY <1>3, <1>6, <1>7, <2>1, <2>2 DEF Shape
<1>9. InTurn /\ Synchronous /\ BatchAtomic /\ BatchInTx
  BY <1>4 DEF InTurn, Synchronous, BatchAtomic, BatchInTx
<1>10. QED BY <1>8, <1>9 DEF CopyInv

\* Every step keeps the invariant.
LEMMA CopyStep == ASSUME CopyInv, [Next]_vars PROVE CopyInv'
<1>1. CASE UNCHANGED vars
  <2>1. UNCHANGED <<job, pc, cur, offset, page, target, tx, unread, base, pages, doubt>>
    BY <1>1 DEF vars, progVars, dbVars, history
  <2>2. N' = N /\ AllRows' = AllRows /\ JobShape'
    BY <2>1, JobStays DEF CopyInv, Shape
  <2>3. Shape' /\ InTurn' /\ Synchronous'
    BY <2>1, <2>2 DEF CopyInv, Shape, TargetShape, TxShape, InTurn, Synchronous
  <2>4. BatchAtomic'
    BY <2>1, AtomicKept DEF CopyInv
  <2>5. BatchInTx' <=> BatchInTx
    BY <2>1 DEF BatchInTx, AllPagesIn, FrontPagesIn
  <2>6. QED BY <2>1, <2>3, <2>4, <2>5 DEF CopyInv
<1>2. CASE Next
  <2>1. CASE Failing \/ Close \/ Killed
    <3>1. \E how \in Ended : Exit(how)
      BY <2>1 DEF Failing, Close, Killed, Ended
    <3>2. QED BY <3>1, ExitStep
  <2>2. CASE ~(Failing \/ Close \/ Killed)
    BY <1>2, <2>2, BeforeTables, DropStep, CreateStep, PageStep, BeginStep, InsertStep,
       CommitStep, RerunStep DEF Next, Program
  <2>3. QED BY <2>1, <2>2
<1>3. QED BY <1>1, <1>2

\* The invariant holds of every copy program, for all tables, flags, batch sizes
\* and rows left by earlier runs, killed at any point and started again.
THEOREM CopyInvariant == Spec => []CopyInv
BY CopyInit, CopyStep, PTL DEF Spec

\* At every moment, also after a failure or a kill between two statements, the
\* rows a run has added to a table are its first pages, whole and in order: a
\* page is inserted inside a transaction, and no page is sent before the ones in
\* front of it are committed.
THEOREM CopyBatchAtomic == Spec => []BatchAtomic
<1>1. CopyInv => BatchAtomic
  BY DEF CopyInv
<1>2. QED BY CopyInvariant, <1>1, PTL

\* The job is what the program makes of one of the jobs.
OneJob == \E j \in Jobs : job = Plan(j)

\* What a job is, table by table.
LEMMA JobFacts ==
  ASSUME OneJob
  PROVE  /\ job.tool \in Tools /\ N \in Nat /\ DOMAIN Todo = 1..N
         /\ \A t \in 1..N : IsTable(Main(job.tool).source, Todo[t])
         /\ \A t \in 1..N : Todo[t].cols # <<>> =>
              /\ t \in DOMAIN Result
              /\ Result[t] = Built(job.tool, Todo[t])
              /\ job.paging[t] = Migrate(job.tool, Todo[t])
         /\ \A t \in DOMAIN Result : t \in 1..N /\ Todo[t].cols # <<>>
<1>1. PICK j \in Jobs : job = Plan(j)
  BY DEF OneJob
<1> DEFINE todo  == Chosen(j)
           there == {t \in DOMAIN todo : todo[t].cols # <<>>}
<1>2. /\ job.tool = j.tool /\ Todo = todo
      /\ Result = [t \in there |-> Built(j.tool, todo[t])]
      /\ job.paging = [t \in there |-> Migrate(j.tool, todo[t])]
  BY <1>1 DEF Plan, Todo, Result
<1>3. /\ j.tool \in Tools /\ todo \in Seq(ToSet(todo))
      /\ \A t \in DOMAIN todo : IsTable(Main(j.tool).source, todo[t])
  BY CopyAssumption, SourceAssumption
<1> HIDE DEF todo
<1>4. N = Len(todo) /\ DOMAIN todo = 1..Len(todo) /\ Len(todo) \in Nat
  BY <1>2, <1>3 DEF N
<1>5. QED BY <1>2, <1>3, <1>4

\* What is built is not nothing.
LEMMA BuiltIsSome == ASSUME NEW tool \in Tools, NEW t PROVE Built(tool, t) # <<>>
<1>1. DOMAIN Built(tool, t) = {"cols", "primary", "uniques"}
  BY DEF Built, Tools, M2SCreate, M2PCreate, P2SCreate, P2MCreate, S2MCreate, S2PCreate
<1>2. DOMAIN <<>> = {}
  OBVIOUS
<1>3. QED BY <1>1, <1>2

-----------------------------------------------------------------------------
(* The table a statement finds.                                            *)

Copying == {"page", "begin", "insert", "commit"}

\* A table is the one the program creates, if it is there.
Made == \A t \in 1..N : target[t] = Absent \/ (Todo[t].cols # <<>> /\ target[t].def = Result[t])

\* Rows wait in the transaction only while a batch is under way, for a table that is there.
TxInBatch ==
  /\ Kind = "sqlite" => unread = <<>>
  /\ pc \notin {"insert", "commit", "failing"} => tx.rows = <<>>
  /\ tx.rows # <<>> => target[cur] # Absent

HasColumns == pc \in {"drop", "create"} \cup Copying => Source.cols # <<>>

TablesInv == OneJob /\ HasColumns /\ Made /\ TxInBatch

\* The table a program has reached is left alone or taken to what the statement says.
Only(tab, new) ==
  /\ \A t \in 1..N : t # cur => tab[t] = target[t]
  /\ tab[cur] = target[cur] \/ new

\* A call to SQLite has one answer and reads it.
LEMMA SqliteReads ==
  ASSUME Kind = "sqlite", unread = <<>>, NEW outcomes, NEW got, Call(outcomes, got)
  PROVE  /\ unread' = <<>>
         /\ \E o \in outcomes : got = o.ok /\ target' = o.tab /\ tx' = o.tx
<1>1. PICK o \in outcomes : /\ Apply(o)
                           /\ got = Head(unread \o Answer(o.ok))
                           /\ unread' = Tail(unread \o Answer(o.ok))
  BY DEF Call
<1>2. Answer(o.ok) = <<o.ok>>
  BY DEF Answer
<1>3. Head(<<>> \o <<o.ok>>) = o.ok /\ Tail(<<>> \o <<o.ok>>) = <<>>
  OBVIOUS
<1>4. QED BY <1>1, <1>2, <1>3 DEF Apply

\* What DROP does.
LEMMA DropDoes ==
  ASSUME CopyInv, TablesInv, DropOld
  PROVE  /\ Only(target', target'[cur] = Absent)
         /\ tx'.rows = <<>> /\ (Kind = "sqlite" => unread' = <<>>)
         /\ cur \in 1..N
<1>1. PICK got \in BOOLEAN : Call(DropOn, got)
  BY DEF DropOld
<1>2. cur \in 1..N /\ DOMAIN target = 1..N /\ DOMAIN tx = {"st", "rows"} /\ tx.rows = <<>>
  BY DEF DropOld, CopyInv, InTurn, Shape, TargetShape, TxShape, TablesInv, TxInBatch
<1> DEFINE gone == Outcome([target EXCEPT ![cur] = Absent], tx, TRUE)
<1>3. \A o \in DropOn : o = gone \/ o = Refused
  BY DEF DropOn
<1>4. gone.tab = [target EXCEPT ![cur] = Absent] /\ gone.tx = tx
  BY DEF Outcome
<1>5. Refused.tab = target /\ Refused.tx.rows = tx.rows
  BY <1>2, RefusedFacts
<1> HIDE DEF gone
<1>6. \/ target' = target /\ tx' = tx
      \/ \E o \in DropOn : target' = o.tab /\ tx' = o.tx
  BY <1>1, CallFacts DEF CopyInv, Shape
<1>7. /\ target' = target \/ target' = [target EXCEPT ![cur] = Absent]
      /\ tx'.rows = <<>>
  BY <1>2, <1>3, <1>4, <1>5, <1>6
<1>8. Kind = "sqlite" => unread' = <<>>
  BY <1>1, SqliteReads DEF TablesInv, TxInBatch
<1>9. QED BY <1>2, <1>7, <1>8 DEF Only

\* What CREATE does: nothing to a table that is there.
LEMMA CreateDoes ==
  ASSUME CopyInv, TablesInv, CreateTable
  PROVE  /\ Only(target', /\ target[cur] = Absent /\ Accepts(Kind, Result[cur])
                          /\ target'[cur] = [def |-> Result[cur], rows |-> <<>>])
         /\ tx'.rows = <<>> /\ (Kind = "sqlite" => unread' = <<>>)
         /\ cur \in 1..N
         /\ \/ said' = [said EXCEPT ![cur] = "skipped"] /\ pc' \in {"columns", "close"} /\ cur' = cur + 1
            \/ /\ said' = [said EXCEPT ![cur] = "created"] /\ (~doubt' => target'[cur] # Absent)
               /\ \/ pc' \in {"columns", "close"} /\ cur' = cur + 1
                  \/ pc' = "page" /\ cur' = cur
<1> DEFINE b == Result[cur]
           made == Outcome([target EXCEPT ![cur] = [def |-> b, rows |-> <<>>]], tx, TRUE)
           there == Outcome(target, tx, TRUE)
<1>1. PICK got \in BOOLEAN :
        /\ Call(CreateOn(b), got)
        /\ \/ ~got /\ Say("skipped") /\ NextTable
           \/ got /\ Say("created") /\ NextTable
           \/ got /\ Say("created") /\ Goto("page") /\ UNCHANGED cur
  BY DEF CreateTable
<1>2. /\ cur \in 1..N /\ DOMAIN target = 1..N /\ DOMAIN tx = {"st", "rows"} /\ tx.rows = <<>>
      /\ Source.cols # <<>> /\ OneJob
  BY DEF CreateTable, CopyInv, InTurn, Shape, TargetShape, TxShape, TablesInv, TxInBatch, HasColumns
<1>3. b # <<>>
  <2>1. Source = Todo[cur]
    BY DEF Source
  <2>2. job.tool \in Tools /\ b = Built(job.tool, Todo[cur])
    BY <1>2, <2>1, JobFacts
  <2>3. QED BY <2>2, BuiltIsSome
<1>4. /\ made.tab = [target EXCEPT ![cur] = [def |-> b, rows |-> <<>>]] /\ made.tx = tx
      /\ there.tab = target /\ there.tx = tx
  BY DEF Outcome
<1>5. Refused.tab = target /\ Refused.tx.rows = tx.rows /\ ~Refused.ok
  BY <1>2, RefusedFacts
<1>6. \A o \in CreateOn(b) :
        \/ o = there /\ target[cur] # Absent
        \/ o = made /\ target[cur] = Absent /\ Accepts(Kind, b)
        \/ o = Refused
  BY DEF CreateOn
<1> HIDE DEF made, there, b
<1>7. made.tab[cur] = [def |-> b, rows |-> <<>>] /\ made.tab[cur] # Absent
  <2>1. made.tab[cur] = [def |-> b, rows |-> <<>>]
    BY <1>2, <1>4
  <2>2. made.tab[cur].def # Absent.def
    BY <1>3, <2>1 DEF Absent
  <2>3. QED BY <2>1, <2>2
<1>8. \/ target' = target /\ tx' = tx
      \/ \E o \in CreateOn(b) : target' = o.tab /\ tx' = o.tx
  BY <1>1, CallFacts DEF CopyInv, Shape
<1>9. /\ \/ target' = target
         \/ target[cur] = Absent /\ Accepts(Kind, b) /\ target' = made.tab
      /\ tx'.rows = <<>>
  BY <1>2, <1>4, <1>5, <1>6, <1>8
<1>10. Only(target', /\ target[cur] = Absent /\ Accepts(Kind, b)
                     /\ target'[cur] = [def |-> b, rows |-> <<>>])
  BY <1>2, <1>4, <1>7, <1>9 DEF Only
<1>11. ~doubt' /\ got => target'[cur] # Absent
  <2>1. ~doubt' /\ got => \E o \in CreateOn(b) : o.ok /\ target' = o.tab
    BY <1>1, CallFacts DEF CopyInv, Shape
  <2>2. QED BY <1>4, <1>5, <1>6, <1>7, <2>1
<1>12. Kind = "sqlite" => unread' = <<>>
  BY <1>1, SqliteReads DEF TablesInv, TxInBatch
<1>13. \/ /\ said' = [said EXCEPT ![cur] = "skipped"]
          /\ pc' \in {"columns", "close"} /\ cur' = cur + 1
       \/ /\ said' = [said EXCEPT ![cur] = "created"] /\ got
          /\ \/ pc' \in {"columns", "close"} /\ cur' = cur + 1
             \/ pc' = "page" /\ cur' = cur
  BY <1>1 DEF Say, NextTable, Goto
<1>14. QED BY <1>2, <1>9, <1>10, <1>11, <1>12, <1>13 DEF b

\* BEGIN changes no table.
LEMMA BeginDoes ==
  ASSUME CopyInv, TablesInv, BeginBatch
  PROVE  /\ target' = target /\ tx'.rows = <<>> /\ (Kind = "sqlite" => unread' = <<>>)
         /\ ~doubt' /\ pc' = "insert" => ~doubt
<1>1. PICK got \in BOOLEAN : Call(BeginOn, got)
  BY DEF BeginBatch, Step
<1>2. \A o \in BeginOn : o.tab = target /\ o.tx.rows = <<>>
  BY DEF BeginOn, Outcome
<1>3. tx.rows = <<>>
  BY DEF BeginBatch, TablesInv, TxInBatch
<1>4. \/ target' = target /\ tx' = tx
      \/ \E o \in BeginOn : target' = o.tab /\ tx' = o.tx
  BY <1>1, CallFacts DEF CopyInv, Shape
<1>5. Kind = "sqlite" => unread' = <<>>
  BY <1>1, SqliteReads DEF TablesInv, TxInBatch
<1>6. ~doubt' => ~doubt
  BY <1>1, CallFacts DEF CopyInv, Shape
<1>7. QED BY <1>2, <1>3, <1>4, <1>5, <1>6

\* INSERT adds a row to a table that is there, or to the transaction.
LEMMA InsertDoes ==
  ASSUME CopyInv, TablesInv, InsertRow
  PROVE  /\ Only(target', target[cur] # Absent /\ target'[cur] # Absent /\ target'[cur].def = target[cur].def)
         /\ tx'.rows # <<>> => target'[cur] # Absent
         /\ Kind = "sqlite" => unread' = <<>>
         /\ cur \in 1..N
<1> DEFINE row == Head(page)
           outcomes == InsertOn(row, Paged.holes)
           direct == Outcome([target EXCEPT ![cur].rows = Append(@, row)], tx, TRUE)
           held == Outcome(target, [tx EXCEPT !.rows = Append(@, row)], TRUE)
<1>1. PICK got \in BOOLEAN : Call(outcomes, got)
  BY DEF InsertRow, Step
<1>2. /\ cur \in 1..N /\ DOMAIN target = 1..N /\ DOMAIN tx = {"st", "rows"}
      /\ DOMAIN target[cur] = {"def", "rows"} /\ target[cur].rows \in Seq(AllRows)
      /\ tx.rows # <<>> => target[cur] # Absent
  BY DEF InsertRow, CopyInv, InTurn, Shape, TargetShape, TxShape, TablesInv, TxInBatch
<1>3. /\ direct.tab = [target EXCEPT ![cur].rows = Append(@, row)] /\ direct.tx = tx
      /\ held.tab = target
  BY DEF Outcome
<1>4. Refused.tab = target /\ Refused.tx.rows = tx.rows
  BY <1>2, RefusedFacts
<1>5. \A o \in outcomes : o = Refused \/ (target[cur] # Absent /\ o \in {direct, held})
  BY DEF InsertOn
<1>6. direct.tab[cur].rows = Append(target[cur].rows, row) /\ direct.tab[cur].def = target[cur].def
  BY <1>2, <1>3
<1>7. direct.tab[cur] # Absent
  <2>1. Append(target[cur].rows, row) # <<>>
    BY <1>2
  <2>2. direct.tab[cur].rows # Absent.rows
    BY <1>6, <2>1 DEF Absent
  <2>3. QED BY <2>2
<1> HIDE DEF row, outcomes, held, direct
<1>8. \/ target' = target /\ tx' = tx
      \/ \E o \in outcomes : target' = o.tab /\ tx' = o.tx
  BY <1>1, CallFacts DEF CopyInv, Shape
<1>9. \/ target' = target /\ tx'.rows = tx.rows
      \/ target' = target /\ target[cur] # Absent
      \/ target' = direct.tab /\ target[cur] # Absent
  BY <1>3, <1>4, <1>5, <1>8
<1>10. \A t \in 1..N : t # cur => direct.tab[t] = target[t]
  BY <1>2, <1>3
<1>11. Kind = "sqlite" => unread' = <<>>
  BY <1>1, SqliteReads DEF TablesInv, TxInBatch
<1>12. QED BY <1>2, <1>6, <1>7, <1>9, <1>10, <1>11 DEF Only

\* COMMIT adds the rows of the transaction, and whoever has an answer to it has none open.
LEMMA CommitDoes ==
  ASSUME CopyInv, TablesInv, CommitBatch
  PROVE  /\ Only(target', target[cur] # Absent /\ target'[cur] # Absent /\ target'[cur].def = target[cur].def)
         /\ pc' = "page" => tx'.rows = <<>>
         /\ tx'.rows # <<>> => target'[cur] # Absent
         /\ Kind = "sqlite" => unread' = <<>>
         /\ cur \in 1..N
<1> DEFINE kept == Outcome([target EXCEPT ![cur].rows = @ \o tx.rows], NoTx, TRUE)
           undone == Outcome(target, NoTx, TRUE)
           busy == Outcome(target, tx, FALSE)
           lost == [undone EXCEPT !.ok = FALSE]
<1>1. PICK got \in BOOLEAN : Call(CommitOn, got) /\ pc' = IF got THEN "page" ELSE "failing"
  BY DEF CommitBatch, Step, Goto
<1>2. /\ cur \in 1..N /\ DOMAIN target = 1..N /\ DOMAIN tx = {"st", "rows"}
      /\ DOMAIN target[cur] = {"def", "rows"} /\ target[cur].rows \in Seq(AllRows) /\ tx.rows \in Seq(AllRows)
      /\ tx.rows # <<>> => target[cur] # Absent
      /\ target[cur] = Absent \/ (target[cur].def = Result[cur] /\ Todo[cur].cols # <<>>)
      /\ OneJob
  BY DEF CommitBatch, CopyInv, InTurn, Shape, TargetShape, TxShape, TablesInv, TxInBatch, Made
<1>3. Kind \in {"sqlite", "mysql", "postgresql"}
  BY KindIsKnown DEF CopyInv, Shape
<1>4. /\ kept.tab = [target EXCEPT ![cur].rows = @ \o tx.rows] /\ kept.tx = NoTx
      /\ undone.tab = target /\ undone.tx = NoTx
      /\ busy.tab = target /\ busy.tx = tx /\ ~busy.ok
      /\ lost.tab = target /\ lost.tx = NoTx
  BY DEF Outcome
<1>5. \A o \in CommitOn : o \in {kept, undone, lost} \/ (o = busy /\ Kind = "sqlite")
  <2>1. CASE tx.st = "aborted"
    BY <2>1 DEF CommitOn
  <2>2. CASE tx.st # "aborted" /\ Kind = "sqlite"
    BY <2>2 DEF CommitOn
  <2>3. CASE tx.st # "aborted" /\ Kind = "mysql"
    BY <2>3 DEF CommitOn
  <2>4. CASE tx.st # "aborted" /\ Kind = "postgresql"
    BY <2>4 DEF CommitOn
  <2>5. QED BY <1>3, <2>1, <2>2, <2>3, <2>4
<1> HIDE DEF kept, undone, busy, lost
<1>6. /\ \A t \in 1..N : t # cur => kept.tab[t] = target[t]
      /\ kept.tab[cur].rows = target[cur].rows \o tx.rows /\ kept.tab[cur].def = target[cur].def
      /\ DOMAIN kept.tab[cur] = {"def", "rows"}
  BY <1>2, <1>4
<1>7. Kind = "sqlite" => unread' = <<>>
  BY <1>1, SqliteReads DEF TablesInv, TxInBatch
<1>8. NoTx.rows = <<>>
  BY DEF NoTx
<1>9. \/ target' = target /\ tx' = tx
      \/ \E o \in CommitOn : target' = o.tab /\ tx' = o.tx
  BY <1>1, CallFacts DEF CopyInv, Shape
<1>10. /\ target' = target \/ target' = kept.tab
       /\ tx'.rows # <<>> => target' = target /\ tx' = tx
  BY <1>4, <1>5, <1>8, <1>9
<1>11. kept.tab[cur] = target[cur] \/ (target[cur] # Absent /\ kept.tab[cur] # Absent)
  <2>1. CASE target[cur] = Absent
    <3>1. tx.rows = <<>> /\ target[cur].rows = <<>>
      BY <1>2, <2>1 DEF Absent
    <3>2. target[cur].rows \o tx.rows = target[cur].rows
      BY <3>1, ConcatEmptySeq
    <3>3. kept.tab[cur] = [target[cur] EXCEPT !.rows = target[cur].rows \o tx.rows]
      BY <1>2, <1>4
    <3>4. kept.tab[cur] = target[cur]
      BY <2>1, <3>1, <3>2, <3>3 DEF Absent
    <3>5. QED BY <3>4
  <2>2. CASE target[cur] # Absent
    <3>1. job.tool \in Tools /\ target[cur].def = Built(job.tool, Todo[cur])
      BY <1>2, <2>2, JobFacts
    <3>2. kept.tab[cur].def # Absent.def
      BY <1>6, <3>1, BuiltIsSome DEF Absent
    <3>3. QED BY <2>2, <3>2
  <2>3. QED BY <2>1, <2>2
<1>12. Only(target', target[cur] # Absent /\ target'[cur] # Absent /\ target'[cur].def = target[cur].def)
  BY <1>6, <1>10, <1>11 DEF Only
<1>13. got => tx'.rows = <<>>
  <2>1. CASE got /\ Kind = "sqlite"
    <3>1. \E o \in CommitOn : o.ok /\ tx' = o.tx
      BY <1>1, <2>1, SqliteReads DEF TablesInv, TxInBatch
    <3>2. QED BY <1>4, <1>5, <1>8, <3>1
  <2>2. CASE got /\ Kind # "sqlite"
    <3>1. \E o \in CommitOn : tx' = o.tx
      BY <1>1, <2>2 DEF Call, Apply
    <3>2. QED BY <1>4, <1>5, <1>8, <2>2, <3>1
  <2>3. QED BY <2>1, <2>2
<1>14. QED BY <1>1, <1>2, <1>7, <1>10, <1>12, <1>13

\* The steps that reach the target.
Reaching == DropOld \/ CreateTable \/ BeginBatch \/ InsertRow \/ CommitBatch

\* The other steps leave the tables alone, and what a run that ended had open is gone.
LEMMA QuietSteps ==
  ASSUME TablesInv, [Next]_vars, ~Reaching
  PROVE  /\ target' = target
         /\ tx'.rows = <<>> \/ (tx' = tx /\ pc' = pc /\ cur' = cur)
         /\ unread' = unread \/ unread' = <<>>
<1>1. ASSUME NEW how, Exit(how)
      PROVE  target' = target /\ tx'.rows = <<>> /\ unread' = <<>>
  BY <1>1 DEF Exit, NoTx
<1>2. CASE \E how \in Ended : Exit(how)
  BY <1>1, <1>2
<1>3. CASE UNCHANGED vars
  BY <1>3 DEF vars, progVars, dbVars
<1>4. CASE Next /\ ~\E how \in Ended : Exit(how)
  <2>1. pc \notin {"insert", "commit", "failing"} /\ target' = target /\ tx' = tx /\ unread' = unread
    BY <1>4 DEF Next, Program, Reaching, dbVars, ParseArgs, Connect, FetchColumns, ReadPage, Failing, Close,
       Killed, Rerun, Ended
  <2>2. tx.rows = <<>>
    BY <2>1 DEF TablesInv, TxInBatch
  <2>3. QED BY <2>1, <2>2
<1>5. QED BY <1>2, <1>3, <1>4

LEMMA TablesInit == ASSUME Init PROVE TablesInv
<1>1. OneJob
  BY DEF Init, OneJob
<1>2. PICK old \in SUBSET {t \in DOMAIN Result : Accepts(Kind, Result[t])} :
        target = [t \in 1..N |-> IF t \in old THEN [def |-> Result[t], rows |-> Stale] ELSE Absent]
  BY DEF Init
<1>3. Made
  <2>1. \A t \in DOMAIN Result : Todo[t].cols # <<>>
    BY <1>1, JobFacts
  <2>2. QED BY <1>2, <2>1 DEF Made
<1>4. HasColumns /\ TxInBatch
  BY DEF Init, HasColumns, TxInBatch, NoTx, Copying
<1>5. QED BY <1>1, <1>3, <1>4 DEF TablesInv

LEMMA TablesStep ==
  ASSUME CopyInv, TablesInv, [Next]_vars
  PROVE  TablesInv'
<1>1. job' = job
  BY DEF Next, Program, Killed, Rerun, ParseArgs, Connect, FetchColumns, DropOld, CreateTable, ReadPage,
     BeginBatch, InsertRow, CommitBatch, Failing, Close, Exit, Goto, NextTable, Step, vars, progVars
<1>2. OneJob' /\ N' = N /\ Kind' = Kind /\ Todo' = Todo /\ Result' = Result
  BY <1>1 DEF TablesInv, OneJob, N, Kind, Todo, Result
<1>3. HasColumns'
  <2>1. pc' \in {"drop", "create"} \cup Copying => cur' = cur /\ Source.cols # <<>>
    <3>1. CASE \E how \in Ended : Exit(how)
      BY <3>1 DEF Exit, Ended, Copying
    <3>2. CASE UNCHANGED vars
      BY <3>2 DEF vars, progVars, TablesInv, HasColumns
    <3>3. CASE FetchColumns /\ ~\E how \in Ended : Exit(how)
      BY <3>3 DEF FetchColumns, Goto, NextTable, Ended, Copying
    <3>4. CASE (ParseArgs \/ Connect \/ Rerun) /\ ~\E how \in Ended : Exit(how)
      BY <3>4 DEF ParseArgs, Connect, Rerun, Goto, Ended, Copying
    <3>5. CASE DropOld \/ CreateTable \/ BeginBatch \/ InsertRow \/ CommitBatch
      BY <3>5 DEF DropOld, CreateTable, BeginBatch, InsertRow, CommitBatch, Step, Goto, NextTable, Copying,
         TablesInv, HasColumns
    <3>6. CASE ReadPage /\ ~\E how \in Ended : Exit(how)
      BY <3>6 DEF ReadPage, Goto, NextTable, Copying, TablesInv, HasColumns, Ended
    <3>7. QED BY <3>1, <3>2, <3>3, <3>4, <3>5, <3>6 DEF Next, Program, Failing, Close, Killed, Ended
  <2>2. QED BY <1>1, <2>1 DEF HasColumns, Source, Todo
<1>4. CASE ~Reaching
  <2>1. /\ target' = target
        /\ tx'.rows = <<>> \/ (tx' = tx /\ pc' = pc /\ cur' = cur)
        /\ unread' = unread \/ unread' = <<>>
    BY <1>4, QuietSteps
  <2>2. Made' /\ TxInBatch'
    BY <1>2, <2>1 DEF TablesInv, Made, TxInBatch
  <2>3. QED BY <1>2, <1>3, <2>2 DEF TablesInv
<1>5. CASE DropOld
  <2>1. /\ Only(target', target'[cur] = Absent)
        /\ tx'.rows = <<>> /\ (Kind = "sqlite" => unread' = <<>>)
    BY <1>5, DropDoes
  <2>2. Made' /\ TxInBatch'
    BY <1>2, <2>1 DEF TablesInv, Made, TxInBatch, Only
  <2>3. QED BY <1>2, <1>3, <2>2 DEF TablesInv
<1>6. CASE CreateTable
  <2>1. /\ Only(target', /\ target[cur] = Absent /\ Accepts(Kind, Result[cur])
                         /\ target'[cur] = [def |-> Result[cur], rows |-> <<>>])
        /\ tx'.rows = <<>> /\ (Kind = "sqlite" => unread' = <<>>)
    BY <1>6, CreateDoes
  <2>2. Todo[cur].cols # <<>>
    BY <1>6 DEF CreateTable, TablesInv, HasColumns, Source
  <2>3. Made' /\ TxInBatch'
    BY <1>2, <2>1, <2>2 DEF TablesInv, Made, TxInBatch, Only
  <2>4. QED BY <1>2, <1>3, <2>3 DEF TablesInv
<1>7. CASE BeginBatch
  <2>1. target' = target /\ tx'.rows = <<>> /\ (Kind = "sqlite" => unread' = <<>>)
    BY <1>7, BeginDoes
  <2>2. Made' /\ TxInBatch'
    BY <1>2, <2>1 DEF TablesInv, Made, TxInBatch
  <2>3. QED BY <1>2, <1>3, <2>2 DEF TablesInv
<1>8. CASE InsertRow \/ CommitBatch
  <2>1. /\ Only(target', target[cur] # Absent /\ target'[cur] # Absent /\ target'[cur].def = target[cur].def)
        /\ pc' = "page" => tx'.rows = <<>>
        /\ tx'.rows # <<>> => target'[cur] # Absent
        /\ Kind = "sqlite" => unread' = <<>>
        /\ cur \in 1..N
    <3>1. InsertRow => pc' # "page"
      BY DEF InsertRow, Step, Goto
    <3>2. QED BY <1>8, <3>1, InsertDoes, CommitDoes
  <2>2. cur' = cur /\ pc' \in {"insert", "commit", "failing", "page"}
    BY <1>8 DEF InsertRow, CommitBatch, Step, Goto
  <2>3. Made'
    BY <1>2, <2>1 DEF TablesInv, Made, Only
  <2>4. TxInBatch'
    BY <1>2, <2>1, <2>2 DEF TxInBatch
  <2>5. QED BY <1>2, <1>3, <2>3, <2>4 DEF TablesInv
<1>9. QED BY <1>4, <1>5, <1>6, <1>7, <1>8 DEF Reaching

-----------------------------------------------------------------------------
(* The tables a run has dropped, and what it has said of each.             *)

Early == {"args", "connect", "columns", "drop"}

\* Of a table that is not reached nothing is said; one that was dropped is said to
\* be created before a page of it is read.
Said ==
  /\ fresh \subseteq 1..N /\ DOMAIN said = 1..N
  /\ \A t \in 1..N : t > cur => t \notin fresh /\ said[t] = "nothing" /\ base[t] = <<>>
  /\ cur \in 1..N /\ pc \in Early => cur \notin fresh
  /\ cur \in 1..N /\ pc \in Early \cup {"create"} => said[cur] = "nothing" /\ base[cur] = <<>>
  /\ pc \in Copying => said[cur] # "copied" /\ (cur \in fresh => said[cur] = "created")

\* Such a table is empty when its first page is read, and there once it is called created.
Fresh ==
  /\ \A t \in fresh : base[t] = <<>>
  /\ pc = "create" /\ cur \in fresh => target[cur] = Absent
  /\ pc = "page" /\ cur \in fresh /\ pages[cur] = <<>> => target[cur].rows = <<>>
  /\ \A t \in fresh : ~doubt /\ said[t] \in {"created", "copied"} => target[t] # Absent /\ Accepts(Kind, Result[t])

SaidInv == CopyInv /\ TablesInv /\ Said /\ Fresh

\* The constants of the run.
LEMMA JobNever ==
  ASSUME [Next]_vars
  PROVE  job' = job /\ N' = N /\ Kind' = Kind /\ Todo' = Todo /\ Result' = Result
<1>1. job' = job
  BY DEF Next, Program, Killed, Rerun, ParseArgs, Connect, FetchColumns, DropOld, CreateTable, ReadPage,
     BeginBatch, InsertRow, CommitBatch, Failing, Close, Exit, Goto, NextTable, Step, vars, progVars
<1>2. QED BY <1>1 DEF N, Kind, Todo, Result

LEMMA SaidInit == ASSUME Init PROVE Said /\ Fresh
<1>1. /\ fresh = {} /\ cur = 1 /\ pc = "args"
      /\ said = [t \in 1..N |-> "nothing"] /\ base = [t \in 1..N |-> <<>>]
  BY DEF Init
<1>2. QED BY <1>1 DEF Said, Fresh, Early, Copying

\* What is said of one table.
LEMMA SayOne ==
  ASSUME NEW w, DOMAIN said = 1..N, said' = [said EXCEPT ![cur] = w]
  PROVE  /\ DOMAIN said' = 1..N /\ \A t \in 1..N : t # cur => said'[t] = said[t]
         /\ cur \in 1..N => said'[cur] = w
OBVIOUS

\* A step of the program that reads or says something, but reaches no target.
LEMMA SaidQuiet ==
  ASSUME SaidInv, [Next]_vars, ~Reaching, ~ReadPage \/ Exit("failed")
  PROVE  Said' /\ Fresh'
<1>1. /\ N' = N /\ Kind' = Kind /\ Todo' = Todo /\ Result' = Result
      /\ target' = target
  BY JobNever, QuietSteps DEF SaidInv
<1>2. CASE Rerun
  <2>1. /\ fresh' = {} /\ cur' = 1 /\ pc' = "args"
        /\ said' = [t \in 1..N |-> "nothing"] /\ base' = [t \in 1..N |-> <<>>]
    BY <1>2 DEF Rerun
  <2>2. QED BY <1>1, <2>1 DEF Said, Fresh, Early, Copying
<1>3. CASE \E how \in Ended : Exit(how)
  <2>1. pc' \in Ended /\ UNCHANGED <<cur, said, fresh, base, pages, doubt>>
    BY <1>3 DEF Exit
  <2>2. QED BY <1>1, <2>1 DEF SaidInv, Said, Fresh, Early, Copying, Ended
<1>4. CASE UNCHANGED vars
  <2>1. UNCHANGED <<pc, cur, said, fresh, base, pages, doubt>>
    BY <1>4 DEF vars, progVars, history
  <2>2. QED BY <1>1, <2>1 DEF SaidInv, Said, Fresh
<1>5. CASE (ParseArgs \/ Connect) /\ ~\E how \in Ended : Exit(how)
  <2>1. /\ UNCHANGED <<cur, said, fresh, base, pages, doubt>>
        /\ pc \in Early /\ pc' \in Early \cup {"close"} /\ cur = 1
    BY <1>5 DEF ParseArgs, Connect, Goto, Ended, history, Early, SaidInv, CopyInv, InTurn
  <2>2. QED BY <1>1, <2>1 DEF SaidInv, Said, Fresh, Early, Copying
<1>6. CASE FetchColumns /\ ~\E how \in Ended : Exit(how)
  <2>1. /\ UNCHANGED <<fresh, base, pages, doubt>> /\ pc \in Early
        /\ cur \in 1..N /\ cur \notin fresh /\ said[cur] = "nothing"
    BY <1>6 DEF FetchColumns, Ended, history, Early, SaidInv, CopyInv, InTurn, Said
  <2>2. CASE /\ cur' = cur + 1 /\ pc' \in {"columns", "close"}
             /\ said' = said \/ \E w : said' = [said EXCEPT ![cur] = w]
    <3>1. DOMAIN said' = 1..N /\ \A t \in 1..N : t # cur => said'[t] = said[t]
      <4>1. DOMAIN said = 1..N
        BY DEF SaidInv, Said
      <4>2. QED BY <2>2, <4>1, SayOne
    <3>2. \A t \in 1..N : t > cur => said'[t] = said[t]
      BY <2>1, <3>1
    <3>3. \A t \in 1..N : t > cur' => t > cur
      BY <2>1, <2>2
    <3>4. cur' \in 1..N => cur' > cur
      BY <2>1, <2>2
    <3>5. Said'
      BY <1>1, <2>1, <2>2, <3>1, <3>2, <3>3, <3>4 DEF SaidInv, Said, Early, Copying
    <3>6. Fresh'
      BY <1>1, <2>1, <2>2, <3>1 DEF SaidInv, Said, Fresh
    <3>7. QED BY <3>5, <3>6
  <2>3. CASE cur' = cur /\ said' = said /\ pc' \in {"drop", "page"}
    BY <1>1, <2>1, <2>3 DEF SaidInv, Said, Fresh, Early, Copying
  <2>4. QED BY <1>6, <2>2, <2>3 DEF FetchColumns, Goto, NextTable, Say, Ended
<1>7. QED BY <1>2, <1>3, <1>4, <1>5, <1>6 DEF Next, Program, Reaching, Failing, Close, Killed, Ended

\* A table that is dropped is empty until it is created.
LEMMA SaidDrop ==
  ASSUME SaidInv, DropOld
  PROVE  Said' /\ Fresh'
<1>1. N' = N /\ Kind' = Kind /\ Todo' = Todo /\ Result' = Result
  BY JobNever DEF Next, Program
<1>2. Only(target', target'[cur] = Absent) /\ cur \in 1..N
  BY DropDoes DEF SaidInv
<1>3. /\ pc = "drop" /\ pc' = "create" /\ cur' = cur /\ UNCHANGED <<said, base, pages>>
      /\ fresh' = IF target'[cur] = Absent THEN fresh \cup {cur} ELSE fresh
      /\ \E got \in BOOLEAN : Call(DropOn, got)
  BY DEF DropOld, Goto
<1>4. ~doubt' => ~doubt
  BY <1>3, CallFacts DEF SaidInv, CopyInv, Shape
<1>5. cur \notin fresh /\ said[cur] = "nothing" /\ base[cur] = <<>>
  BY <1>2, <1>3 DEF SaidInv, Said, Early
<1>6. \A t \in 1..N : t > cur => t # cur
  BY <1>2
<1>7. Said'
  BY <1>1, <1>2, <1>3, <1>5, <1>6 DEF SaidInv, Said, Early, Copying
<1>8. ASSUME NEW t \in fresh', ~doubt', said'[t] \in {"created", "copied"}
      PROVE  target'[t] # Absent /\ Accepts(Kind, Result[t])
  <2>1. t \in fresh /\ t # cur /\ t \in 1..N
    BY <1>3, <1>5, <1>8 DEF SaidInv, Said
  <2>2. target'[t] = target[t]
    BY <1>2, <2>1 DEF Only
  <2>3. QED BY <1>3, <1>4, <1>8, <2>1, <2>2 DEF SaidInv, Fresh
<1>9. cur \in fresh' => target'[cur] = Absent
  BY <1>3, <1>5
<1>10. Fresh'
  BY <1>1, <1>3, <1>5, <1>8, <1>9 DEF SaidInv, Fresh
<1>11. QED BY <1>7, <1>10

\* A table that is called created is there, and the target has accepted what was built.
LEMMA SaidCreate ==
  ASSUME SaidInv, CreateTable
  PROVE  Said' /\ Fresh'
<1>1. N' = N /\ Kind' = Kind /\ Todo' = Todo /\ Result' = Result
  BY JobNever DEF Next, Program
<1>2. /\ Only(target', /\ target[cur] = Absent /\ Accepts(Kind, Result[cur])
                       /\ target'[cur] = [def |-> Result[cur], rows |-> <<>>])
      /\ cur \in 1..N
      /\ \/ said' = [said EXCEPT ![cur] = "skipped"] /\ pc' \in {"columns", "close"} /\ cur' = cur + 1
         \/ /\ said' = [said EXCEPT ![cur] = "created"] /\ (~doubt' => target'[cur] # Absent)
            /\ \/ pc' \in {"columns", "close"} /\ cur' = cur + 1
               \/ pc' = "page" /\ cur' = cur
  BY CreateDoes DEF SaidInv
<1>3. /\ pc = "create" /\ UNCHANGED <<base, pages, fresh>>
      /\ \E got \in BOOLEAN : Call(CreateOn(Result[cur]), got)
  BY DEF CreateTable, Goto
<1>4. ~doubt' => ~doubt
  BY <1>3, CallFacts DEF SaidInv, CopyInv, Shape
<1>5. said[cur] = "nothing" /\ base[cur] = <<>> /\ (cur \in fresh => target[cur] = Absent)
  BY <1>2, <1>3 DEF SaidInv, Said, Fresh
<1>6. /\ DOMAIN said' = 1..N /\ \A t \in 1..N : t # cur => said'[t] = said[t]
      /\ said'[cur] \in {"skipped", "created"}
      /\ pc' = "page" => said'[cur] = "created"
  BY <1>2 DEF SaidInv, Said
<1>7. \A t \in 1..N : t > cur' => t > cur /\ t # cur
  BY <1>2
<1>8. cur' \in 1..N /\ cur' # cur => cur' > cur
  BY <1>2
<1>9. Said'
  BY <1>1, <1>2, <1>3, <1>5, <1>6, <1>7, <1>8 DEF SaidInv, Said, Early, Copying
<1>10. ASSUME NEW t \in fresh, ~doubt', said'[t] \in {"created", "copied"}
       PROVE  target'[t] # Absent /\ Accepts(Kind, Result[t])
  <2>1. CASE t = cur
    <3>1. said'[cur] = "created" /\ target[cur] = Absent
      BY <1>5, <1>6, <1>10, <2>1
    <3>2. said'[cur] # "skipped"
      BY <3>1
    <3>3. target'[cur] # Absent
      BY <1>2, <1>10, <3>2 DEF SaidInv, Said
    <3>4. QED BY <1>2, <2>1, <3>1, <3>3 DEF Only
  <2>2. CASE t # cur
    <3>1. t \in 1..N /\ target'[t] = target[t] /\ said'[t] = said[t]
      BY <1>2, <1>6, <2>2 DEF SaidInv, Said, Only
    <3>2. QED BY <1>4, <1>10, <3>1 DEF SaidInv, Fresh
  <2>3. QED BY <2>1, <2>2
<1>11. pc' = "page" /\ cur \in fresh => target'[cur].rows = <<>>
  BY <1>2, <1>5 DEF Only, Absent
<1>12. Fresh'
  BY <1>1, <1>2, <1>3, <1>10, <1>11 DEF SaidInv, Fresh
<1>13. QED BY <1>9, <1>12

\* Reading a page: the rows that were there are noted, none in a table that was dropped.
LEMMA SaidPage ==
  ASSUME SaidInv, ReadPage, ~Exit("failed")
  PROVE  Said' /\ Fresh'
<1>1. N' = N /\ Kind' = Kind /\ Todo' = Todo /\ Result' = Result
  BY JobNever DEF Next, Program
<1>2. /\ pc = "page" /\ UNCHANGED <<target, fresh, doubt>>
      /\ base' = IF offset = 0 THEN [base EXCEPT ![cur] = target[cur].rows] ELSE base
      /\ \/ /\ said' = [said EXCEPT ![cur] = "copied"] /\ pc' \in {"columns", "close"} /\ cur' = cur + 1
            /\ pages' = pages
         \/ pc' = "begin" /\ said' = said /\ cur' = cur
  BY DEF ReadPage, Goto, NextTable, Say, dbVars
<1>3. cur \in 1..N /\ (offset = 0 <=> pages[cur] = <<>>)
  BY <1>2 DEF SaidInv, CopyInv, InTurn
<1>4. said[cur] # "copied" /\ (cur \in fresh => said[cur] = "created")
  BY <1>2 DEF SaidInv, Said, Copying
<1>5. /\ DOMAIN said' = 1..N /\ \A t \in 1..N : t # cur => said'[t] = said[t]
      /\ cur' = cur => said' = said
  <2>1. DOMAIN said = 1..N
    BY DEF SaidInv, Said
  <2>2. cur + 1 # cur
    BY <1>3
  <2>3. QED BY <1>2, <2>1, <2>2, SayOne
<1>6. \A t \in 1..N : t # cur => base'[t] = base[t]
  BY <1>2 DEF SaidInv, CopyInv, Shape
<1>7. cur \in fresh => base'[cur] = <<>>
  <2>1. CASE offset = 0
    <3>1. cur \in fresh => target[cur].rows = <<>>
      BY <1>2, <1>3, <2>1 DEF SaidInv, Fresh
    <3>2. base'[cur] = target[cur].rows
      BY <1>2, <1>3, <2>1 DEF SaidInv, CopyInv, Shape
    <3>3. QED BY <3>1, <3>2
  <2>2. CASE offset # 0
    BY <1>2, <2>2 DEF SaidInv, Fresh
  <2>3. QED BY <2>1, <2>2
<1>8. \A t \in 1..N : t > cur' => t > cur /\ t # cur
  BY <1>2, <1>3
<1>9. cur' \in 1..N /\ cur' # cur => cur' > cur
  BY <1>2, <1>3
<1>10. Said'
  BY <1>1, <1>2, <1>4, <1>5, <1>6, <1>8, <1>9 DEF SaidInv, Said, Early, Copying
<1>11. \A t \in fresh : base'[t] = <<>>
  BY <1>6, <1>7 DEF SaidInv, Said, Fresh
<1>12. ASSUME NEW t \in fresh, ~doubt', said'[t] \in {"created", "copied"}
       PROVE  target'[t] # Absent /\ Accepts(Kind, Result[t])
  <2>1. t \in 1..N /\ said[t] \in {"created", "copied"}
    BY <1>4, <1>5, <1>12 DEF SaidInv, Said
  <2>2. QED BY <1>2, <1>12, <2>1 DEF SaidInv, Fresh
<1>13. Fresh'
  BY <1>1, <1>2, <1>11, <1>12 DEF Fresh
<1>14. QED BY <1>10, <1>13

\* The statements of a batch.
LEMMA SaidBatch ==
  ASSUME SaidInv, BeginBatch \/ InsertRow \/ CommitBatch
  PROVE  Said' /\ Fresh'
<1>1. N' = N /\ Kind' = Kind /\ Todo' = Todo /\ Result' = Result
  BY JobNever DEF Next, Program
<1>2. /\ pc \in Copying /\ pc' \in {"insert", "commit", "failing", "page"} /\ UNCHANGED <<cur, said, base, pages, fresh>>
      /\ \E outcomes : \E got \in BOOLEAN : Call(outcomes, got)
      /\ pc # "page"
  BY DEF BeginBatch, InsertRow, CommitBatch, Step, Goto, Copying
<1>3. ~doubt' => ~doubt
  BY <1>2, CallFacts DEF SaidInv, CopyInv, Shape
<1>4. cur \in 1..N /\ pages[cur] # <<>>
  BY <1>2 DEF SaidInv, CopyInv, InTurn, Copying
<1>5. \A t \in 1..N : target[t] # Absent => target'[t] # Absent
  <2>1. CASE BeginBatch
    BY <2>1, BeginDoes DEF SaidInv
  <2>2. CASE InsertRow \/ CommitBatch
    <3>1. Only(target', target[cur] # Absent /\ target'[cur] # Absent /\ target'[cur].def = target[cur].def)
      BY <2>2, InsertDoes, CommitDoes DEF SaidInv
    <3>2. QED BY <3>1 DEF Only
  <2>3. QED BY <2>1, <2>2
<1>6. Said'
  BY <1>1, <1>2 DEF SaidInv, Said, Early, Copying
<1>7. Fresh'
  BY <1>1, <1>2, <1>3, <1>4, <1>5 DEF SaidInv, Said, Fresh
<1>8. QED BY <1>6, <1>7

LEMMA SaidStep ==
  ASSUME SaidInv, [Next]_vars
  PROVE  SaidInv'
<1>1. CopyInv'
  BY CopyStep DEF SaidInv
<1>2. TablesInv'
  BY TablesStep DEF SaidInv
<1>3. Said' /\ Fresh'
  BY SaidQuiet, SaidDrop, SaidCreate, SaidPage, SaidBatch DEF Reaching
<1>4. QED BY <1>1, <1>2, <1>3 DEF SaidInv

-----------------------------------------------------------------------------
(* The same rows.                                                          *)

\* f takes the positions 1..n onto themselves, each from one other.
Reorders(n, f) ==
  /\ f \in [1..n -> 1..n]
  /\ \A i, j \in 1..n : f[i] = f[j] => i = j
  /\ \A m \in 1..n : \E i \in 1..n : f[i] = m

\* Sequences that are each other's reordering hold every row as often.
LEMMA ReorderedSame ==
  ASSUME NEW n \in Nat, NEW f, Reorders(n, f), NEW s, NEW t,
         DOMAIN s = 1..n, DOMAIN t = 1..n, \A i \in 1..n : s[i] = t[f[i]]
  PROVE  SameRows(s, t)
<1>1. ASSUME NEW r PROVE Copies(s, r) = Copies(t, r)
  <2> DEFINE P == {i \in 1..n : s[i] = r}
             Q == {i \in 1..n : t[i] = r}
             g == [i \in P |-> f[i]]
  <2>1. \A i \in P : f[i] \in Q
    BY DEF Reorders
  <2>2. g \in [P -> Q]
    BY <2>1
  <2>3. \A i, j \in P : g[i] = g[j] => i = j
    BY DEF Reorders
  <2>4. ASSUME NEW m \in Q PROVE \E i \in P : g[i] = m
    <3>1. PICK i \in 1..n : f[i] = m
      BY DEF Reorders
    <3>2. i \in P
      BY <3>1
    <3>3. QED BY <3>1, <3>2
  <2>5. IsFiniteSet(P)
    <3>1. IsFiniteSet(1..n)
      <4>1. 1 \in Int /\ n \in Int
        OBVIOUS
      <4>2. QED BY <4>1, FS_Interval
    <3>2. P \in SUBSET (1..n)
      OBVIOUS
    <3>3. QED BY <3>1, <3>2, FS_Subset
  <2>6. Copies(s, r) = Cardinality(P) /\ Copies(t, r) = Cardinality(Q)
    BY DEF Copies
  <2> HIDE DEF P, Q, g
  <2>7. g \in Bijection(P, Q)
    BY <2>2, <2>3, <2>4 DEF Bijection, Injection, Surjection, IsInjective
  <2>8. Cardinality(Q) = Cardinality(P)
    BY <2>5, <2>7, FS_Bijection DEF ExistsBijection
  <2>9. QED BY <2>6, <2>8
<1>2. QED BY <1>1 DEF SameRows

\* So they do behind the same rows.
LEMMA Shuffled ==
  ASSUME NEW S, NEW b \in Seq(S), NEW c \in Seq(S), NEW d \in Seq(S), Len(c) = Len(d)
  PROVE  \A f : Reorders(Len(c), f) /\ (\A i \in 1..Len(c) : c[i] = d[f[i]]) => SameRows(b \o c, b \o d)
<1> DEFINE B == Len(b)
           L == Len(c)
           s == b \o c
           t == b \o d
<1>1. B \in Nat /\ L \in Nat /\ Len(d) = L
  OBVIOUS
<1>2. ASSUME NEW e \in Seq(S)
      PROVE  /\ DOMAIN (b \o e) = 1..(Len(b) + Len(e))
             /\ \A i \in 1..Len(b) : (b \o e)[i] = b[i]
             /\ \A i \in 1..Len(e) : (b \o e)[Len(b) + i] = e[i]
  BY Joined
<1>3. /\ DOMAIN s = 1..(B + L)
      /\ \A i \in 1..B : s[i] = b[i]
      /\ \A i \in 1..L : s[B + i] = c[i]
  BY <1>2
<1>4. /\ DOMAIN t = 1..(B + L)
      /\ \A i \in 1..B : t[i] = b[i]
      /\ \A i \in 1..L : t[B + i] = d[i]
  BY <1>1, <1>2
<1>5. SUFFICES ASSUME NEW f, Reorders(L, f), \A i \in 1..L : c[i] = d[f[i]]
               PROVE  SameRows(s, t)
  OBVIOUS
<1> DEFINE F == [i \in 1..(B + L) |-> IF i <= B THEN i ELSE B + f[i - B]]
<1>6. /\ f \in [1..L -> 1..L]
      /\ \A i, j \in 1..L : f[i] = f[j] => i = j
      /\ \A m \in 1..L : \E i \in 1..L : f[i] = m
      /\ \A i \in 1..L : c[i] = d[f[i]]
  BY <1>5 DEF Reorders
<1> HIDE DEF B, L, s, t
<1>7. \A i \in 1..(B + L) : i \in 1..B \/ \E k \in 1..L : i = B + k
  <2>1. \A i \in 1..(B + L) : ~(i <= B) => i - B \in 1..L /\ i = B + (i - B)
    BY <1>1
  <2>2. \A i \in 1..(B + L) : i <= B => i \in 1..B
    BY <1>1
  <2>3. QED BY <2>1, <2>2
<1>8. \A i \in 1..B : i \in 1..(B + L) /\ F[i] = i
  BY <1>1
<1>9. ASSUME NEW k \in 1..L
      PROVE  /\ B + k \in 1..(B + L) /\ F[B + k] = B + f[k] /\ f[k] \in 1..L
             /\ B + f[k] \in 1..(B + L)
  <2>1. B + k \in 1..(B + L) /\ ~(B + k <= B) /\ (B + k) - B = k
    BY <1>1
  <2>2. F[B + k] = B + f[k]
    BY <2>1
  <2>3. f[k] \in 1..L
    BY <1>6
  <2>4. B + f[k] \in 1..(B + L)
    BY <1>1, <2>3
  <2>5. QED BY <2>1, <2>2, <2>3, <2>4
<1>10. F = [i \in 1..(B + L) |-> F[i]]
  OBVIOUS
<1> HIDE DEF F
<1>11. ASSUME NEW i \in 1..(B + L) PROVE F[i] \in 1..(B + L)
  <2>1. ASSUME NEW k \in 1..L, i = B + k PROVE F[i] \in 1..(B + L)
    <3>1. F[B + k] = B + f[k] /\ B + f[k] \in 1..(B + L)
      BY <1>9
    <3>2. QED BY <2>1, <3>1
  <2>2. CASE i \in 1..B
    <3>1. F[i] = i
      BY <1>8, <2>2
    <3>2. QED BY <3>1
  <2>3. QED BY <1>7, <2>1, <2>2
<1>12. F \in [1..(B + L) -> 1..(B + L)]
  BY <1>10, <1>11
<1>13. ASSUME NEW i \in 1..(B + L), NEW j \in 1..(B + L), F[i] = F[j] PROVE i = j
  <2>1. CASE i \in 1..B /\ j \in 1..B
    BY <1>8, <1>13, <2>1
  <2>2. ASSUME NEW a \in 1..B, NEW k \in 1..L, F[a] = F[B + k] PROVE FALSE
    <3>1. a = B + f[k] /\ f[k] \in 1..L
      BY <1>8, <1>9, <2>2
    <3>2. QED BY <1>1, <3>1
  <2>3. ASSUME NEW k \in 1..L, NEW l \in 1..L, F[B + k] = F[B + l] PROVE k = l
    <3>1. B + f[k] = B + f[l] /\ f[k] \in 1..L /\ f[l] \in 1..L
      BY <1>9, <2>3
    <3>2. f[k] = f[l]
      BY <1>1, <3>1
    <3>3. QED BY <1>6, <3>2
  <2>4. QED BY <1>7, <1>13, <2>1, <2>2, <2>3
<1>14. ASSUME NEW m \in 1..(B + L) PROVE \E i \in 1..(B + L) : F[i] = m
  <2>1. CASE m \in 1..B
    BY <1>8, <2>1
  <2>2. ASSUME NEW k \in 1..L, m = B + k PROVE \E i \in 1..(B + L) : F[i] = m
    <3>1. PICK i \in 1..L : f[i] = k
      BY <1>6
    <3>2. B + i \in 1..(B + L) /\ F[B + i] = B + f[i]
      BY <1>9
    <3>3. QED BY <2>2, <3>1, <3>2
  <2>3. QED BY <1>7, <2>1, <2>2
<1>15. Reorders(B + L, F)
  BY <1>12, <1>13, <1>14 DEF Reorders
<1>16. ASSUME NEW i \in 1..(B + L) PROVE s[i] = t[F[i]]
  <2>1. CASE i \in 1..B
    BY <1>3, <1>4, <1>8, <2>1
  <2>2. ASSUME NEW k \in 1..L, i = B + k PROVE s[i] = t[F[i]]
    <3>1. s[B + k] = c[k] /\ c[k] = d[f[k]]
      BY <1>3, <1>6
    <3>2. F[B + k] = B + f[k] /\ t[B + f[k]] = d[f[k]]
      BY <1>4, <1>9
    <3>3. QED BY <2>2, <3>1, <3>2
  <2>3. QED BY <1>7, <2>1, <2>2
<1>17. B + L \in Nat
  BY <1>1
<1>18. SameRows(s, t)
  BY <1>3, <1>4, <1>15, <1>16, <1>17, ReorderedSame
<1>19. QED BY <1>18 DEF s, t

\* An injection of 1..n into itself reaches every position.
LEMMA InjectionReorders ==
  ASSUME NEW n \in Nat, NEW f \in [1..n -> 1..n], \A i, j \in 1..n : f[i] = f[j] => i = j
  PROVE  Reorders(n, f)
<1> DEFINE P == 1..n
<1>1. IsFiniteSet(P)
  <2>1. 1 \in Int /\ n \in Int
    OBVIOUS
  <2>2. QED BY <2>1, FS_Interval
<1>2. f \in [P -> P] /\ \A i, j \in P : f[i] = f[j] => i = j
  OBVIOUS
<1> HIDE DEF P
<1>3. f \in Injection(P, P)
  BY <1>2 DEF Injection, IsInjective
<1>4. f \in Surjection(P, P)
  BY <1>1, <1>3, FS_Injection
<1>5. \A m \in P : \E i \in P : f[i] = m
  BY <1>4 DEF Surjection
<1>6. QED BY <1>2, <1>5 DEF Reorders, P

\* The order by key and then by the rest.
UpTo(a, b) == IF a.k = b.k THEN a.r <= b.r ELSE a.k <= b.k

Sorted(n, s, p) == \A i, j \in 1..n : i < j => UpTo(s[p[i]], s[p[j]])

LEMMA UpToFacts ==
  ASSUME NEW a \in [k : Nat, r : Nat], NEW b \in [k : Nat, r : Nat]
  PROVE  /\ UpTo(a, a)
         /\ UpTo(a, b) \/ UpTo(b, a)
         /\ UpTo(a, b) /\ UpTo(b, a) => a = b
         /\ \A c \in [k : Nat, r : Nat] : UpTo(a, b) /\ UpTo(b, c) => UpTo(a, c)
<1>1. a.k \in Nat /\ a.r \in Nat /\ b.k \in Nat /\ b.r \in Nat
  OBVIOUS
<1>2. UpTo(a, a) /\ (UpTo(a, b) \/ UpTo(b, a))
  BY <1>1 DEF UpTo
<1>3. ASSUME UpTo(a, b), UpTo(b, a) PROVE a = b
  <2>1. a.k = b.k /\ a.r = b.r
    BY <1>1, <1>3 DEF UpTo
  <2>2. a = [k |-> a.k, r |-> a.r] /\ b = [k |-> b.k, r |-> b.r]
    OBVIOUS
  <2>3. QED BY <2>1, <2>2
<1>4. ASSUME NEW c \in [k : Nat, r : Nat], UpTo(a, b), UpTo(b, c) PROVE UpTo(a, c)
  <2>1. c.k \in Nat /\ c.r \in Nat
    OBVIOUS
  <2>2. QED BY <1>1, <1>4, <2>1 DEF UpTo
<1>5. QED BY <1>2, <1>3, <1>4

\* The i-th row of one sorted order is not above that of another: else the first i
\* rows of this order would all be among the first i - 1 of the other.
LEMMA SortedNotAbove ==
  ASSUME NEW n \in Nat, NEW s, \A i \in 1..n : s[i] \in [k : Nat, r : Nat],
         NEW p, NEW q, Reorders(n, p), Reorders(n, q), Sorted(n, s, p), Sorted(n, s, q), NEW i \in 1..n
  PROVE  UpTo(s[q[i]], s[p[i]])
<1>1. SUFFICES ASSUME ~UpTo(s[q[i]], s[p[i]]) PROVE FALSE
  OBVIOUS
<1> DEFINE R == [k : Nat, r : Nat]
           at(m) == CHOOSE j \in 1..n : q[j] = m
           h == [j \in 1..i |-> at(p[j])]
<1>2. \A j \in 1..n : p[j] \in 1..n /\ q[j] \in 1..n /\ s[p[j]] \in R /\ s[q[j]] \in R
  BY DEF Reorders
<1>3. \A m \in 1..n : at(m) \in 1..n /\ q[at(m)] = m
  BY DEF Reorders
<1>4. ASSUME NEW j \in 1..i
      PROVE  j \in 1..n /\ h[j] \in 1..n /\ q[h[j]] = p[j]
  <2>1. j \in 1..n
    OBVIOUS
  <2>2. h[j] = at(p[j])
    OBVIOUS
  <2>3. QED BY <1>2, <1>3, <2>1, <2>2
<1> HIDE DEF h, R
<1>5. ASSUME NEW j \in 1..i PROVE h[j] \in 1..(i - 1)
  <2>1. j \in 1..n /\ h[j] \in 1..n /\ q[h[j]] = p[j]
    BY <1>4
  <2>2. UpTo(s[p[j]], s[p[i]])
    <3>1. CASE j = i
      BY <1>2, <3>1, UpToFacts DEF R
    <3>2. CASE j # i
      <4>1. j < i
        BY <3>2
      <4>2. QED BY <2>1, <4>1 DEF Sorted
    <3>3. QED BY <3>1, <3>2
  <2>3. ASSUME ~(h[j] < i) PROVE FALSE
    <3>1. UpTo(s[q[i]], s[q[h[j]]])
      <4>1. CASE h[j] = i
        BY <1>2, <4>1, UpToFacts DEF R
      <4>2. CASE h[j] # i
        <5>1. i < h[j]
          BY <2>1, <2>3, <4>2
        <5>2. QED BY <2>1, <5>1 DEF Sorted
      <4>3. QED BY <4>1, <4>2
    <3>2. UpTo(s[q[i]], s[p[j]])
      BY <2>1, <3>1
    <3>3. UpTo(s[q[i]], s[p[i]])
      BY <1>2, <2>1, <2>2, <3>2, UpToFacts DEF R
    <3>4. QED BY <1>1, <3>3
  <2>4. QED BY <2>1, <2>3
<1>6. h \in [1..i -> 1..(i - 1)]
  <2>1. h = [j \in 1..i |-> h[j]]
    BY DEF h
  <2>2. QED BY <1>5, <2>1
<1>7. ASSUME NEW a \in 1..i, NEW b \in 1..i, h[a] = h[b] PROVE a = b
  <2>1. p[a] = p[b] /\ a \in 1..n /\ b \in 1..n
    BY <1>4, <1>7
  <2>2. QED BY <2>1 DEF Reorders
<1>8. /\ IsFiniteSet(1..i) /\ Cardinality(1..i) = i
      /\ IsFiniteSet(1..(i - 1)) /\ Cardinality(1..(i - 1)) = i - 1
  <2>1. 1 \in Int /\ i \in Int /\ i - 1 \in Int /\ ~(1 > i) /\ i - 1 + 1 = i
    OBVIOUS
  <2>2. /\ IsFiniteSet(1..i) /\ Cardinality(1..i) = IF 1 > i THEN 0 ELSE i - 1 + 1
        /\ IsFiniteSet(1..(i - 1)) /\ Cardinality(1..(i - 1)) = IF 1 > i - 1 THEN 0 ELSE (i - 1) - 1 + 1
    BY <2>1, FS_Interval
  <2>3. QED BY <2>1, <2>2
<1>9. \E x, y \in 1..i : x # y /\ h[x] = h[y]
  <2>1. Cardinality(1..(i - 1)) < Cardinality(1..i)
    BY <1>8
  <2>2. QED BY <1>6, <1>8, <2>1, FS_PigeonHole
<1>10. QED BY <1>7, <1>9

\* So two sorted orders give the same rows.
LEMMA SortedAgree ==
  ASSUME NEW n \in Nat, NEW s, \A i \in 1..n : s[i] \in [k : Nat, r : Nat],
         NEW p, NEW q, Reorders(n, p), Reorders(n, q), Sorted(n, s, p), Sorted(n, s, q),
         NEW i \in 1..n
  PROVE  s[p[i]] = s[q[i]]
<1>1. UpTo(s[q[i]], s[p[i]])
  BY SortedNotAbove
<1>2. UpTo(s[p[i]], s[q[i]])
  BY SortedNotAbove
<1>3. s[p[i]] \in [k : Nat, r : Nat] /\ s[q[i]] \in [k : Nat, r : Nat]
  BY DEF Reorders
<1>4. QED BY <1>1, <1>2, <1>3, UpToFacts

\* Where the rows of one sequence are in another.
Places(c, d) == [i \in 1..Len(c) |-> CHOOSE m \in 1..Len(d) : c[i] = d[m]]

Matches(c, d, f) == \A i \in 1..Len(c) : c[i] = d[f[i]]

\* A sequence that names no row twice, and as many as there are, names each.
LEMMA NamesEach ==
  ASSUME NEW S, NEW c \in Seq(S), NEW d \in Seq(S), Len(c) = Len(d), Once(c),
         \A i \in 1..Len(c) : \E m \in 1..Len(d) : c[i] = d[m]
  PROVE  Reorders(Len(c), Places(c, d)) /\ Matches(c, d, Places(c, d))
<1> DEFINE L == Len(c)
           f == Places(c, d)
<1>1. L \in Nat /\ DOMAIN c = 1..L /\ Len(d) = L
  OBVIOUS
<1>2. f = [i \in 1..L |-> CHOOSE m \in 1..L : c[i] = d[m]]
  BY <1>1 DEF Places
<1>3. \A i \in 1..L : f[i] \in 1..L /\ c[i] = d[f[i]]
  BY <1>1, <1>2
<1>4. f \in [1..L -> 1..L]
  BY <1>2, <1>3
<1> HIDE DEF f, L
<1>5. ASSUME NEW i \in 1..L, NEW j \in 1..L, f[i] = f[j] PROVE i = j
  <2>1. c[i] = d[f[i]] /\ c[j] = d[f[j]]
    BY <1>3
  <2>2. c[i] = c[j]
    BY <1>5, <2>1
  <2>3. QED BY <1>1, <2>2 DEF Once
<1>6. Reorders(L, f)
  BY <1>1, <1>4, <1>5, InjectionReorders
<1>7. QED BY <1>3, <1>6 DEF L, f, Matches

-----------------------------------------------------------------------------
(* The order of the pages.                                                 *)

\* An order of the source is a reordering of its rows, sorted where every column is named.
LEMMA OrderFacts ==
  ASSUME OneJob, cur \in 1..N
  PROVE  /\ Len(Source.rows) \in Nat /\ DOMAIN Source.rows = 1..Len(Source.rows)
         /\ Source.rows \in Seq([k : Nat, r : Nat])
         /\ \A p \in Orders : /\ Len(p) = Len(Source.rows)
                              /\ Reorders(Len(Source.rows), p)
                              /\ Len(Paged.order) = Len(Source.cols) => Sorted(Len(Source.rows), Source.rows, p)
<1> DEFINE n == Len(Source.rows)
           rows == Source.rows
<1>1. rows \in Seq([k : Nat, r : Nat])
  BY JobFacts DEF IsTable, Source
<1>2. n \in Nat /\ DOMAIN rows = 1..n
  BY <1>1
<1>3. IsFiniteSet(1..n) /\ Cardinality(1..n) = n
  <2>1. 1 \in Int /\ n \in Int
    BY <1>2
  <2>2. IsFiniteSet(1..n) /\ Cardinality(1..n) = IF 1 > n THEN 0 ELSE n - 1 + 1
    BY <2>1, FS_Interval
  <2>3. QED BY <1>2, <2>2
<1>4. ASSUME NEW p \in Orders
      PROVE  /\ Len(p) = n /\ Reorders(n, p)
             /\ Len(Paged.order) = Len(Source.cols) => Sorted(n, rows, p)
  <2>1. /\ p \in SetToSeqs(1..n)
        /\ Len(Paged.order) = Len(Source.cols) => \A i, j \in DOMAIN p : i < j => UpTo(rows[p[i]], rows[p[j]])
    BY <1>2 DEF Orders, UpTo
  <2>2. p \in [1..n -> 1..n] /\ \A i, j \in 1..n : i # j => p[i] # p[j]
    BY <1>3, <2>1 DEF SetToSeqs
  <2> HIDE DEF n, rows
  <2>3. Len(p) = n /\ DOMAIN p = 1..n
    BY <1>2, <2>2
  <2>4. Reorders(n, p)
    BY <1>2, <2>2, InjectionReorders
  <2>5. QED BY <2>1, <2>3, <2>4 DEF Sorted
<1>5. QED BY <1>1, <1>2, <1>4

-----------------------------------------------------------------------------
(* What a program makes of a table, for every table a catalog may list.    *)

Sources == {"mysql", "postgresql", "sqlite"}

\* The column each source tells of a column of a table; the UNIQUE of one aside.
LEMMA ColumnsFacts ==
  ASSUME NEW tool \in Tools, NEW t, IsTable(Main(tool).source, t)
  PROVE  LET cols == Columns(tool, t)
             source == Main(tool).source
         IN  /\ source \in Sources /\ cols \in Seq(ToSet(cols)) /\ Len(cols) = Len(t.cols)
             /\ Len(t.cols) \in Nat /\ DOMAIN t.cols = 1..Len(t.cols) /\ DOMAIN cols = 1..Len(t.cols)
             /\ \A i \in 1..Len(t.cols) :
                  /\ cols[i].name = t.cols[i].name /\ cols[i].type = t.cols[i].type
                  /\ cols[i].def = (IF source = "mysql" THEN "none" ELSE t.cols[i].def)
                  /\ cols[i].nullable = ~t.cols[i].notnull
                  /\ cols[i].primary = (t.cols[i].name \in ToSet(t.pkey))
                  /\ IsColumn(source, t.cols[i])
                  /\ source = "mysql" => cols[i].auto = t.cols[i].auto
                  /\ source = "postgresql" => cols[i].auto = (t.cols[i].def = "nextval")
                  /\ source = "sqlite" => cols[i].auto = (t.cols[i].name \in ToSet(t.pkey) /\ t.cols[i].type \in SqliteInt)
<1> DEFINE cols == Columns(tool, t)
           source == Main(tool).source
<1>1. source \in Sources
  BY DEF Sources, Main, Tools, M2SMain, M2PMain, P2SMain, P2MMain, S2MMain, S2PMain
<1>2. /\ t.cols \in Seq(ToSet(t.cols)) /\ Len(t.cols) \in Nat /\ DOMAIN t.cols = 1..Len(t.cols)
      /\ \A i \in DOMAIN t.cols : IsColumn(source, t.cols[i])
  BY DEF IsTable
<1>3. \/ source = "mysql" /\ cols = MysqlColumns(t)
      \/ source = "postgresql" /\ cols = PgColumns(t)
      \/ source = "sqlite" /\ cols = SqliteColumns(t)
  BY <1>1 DEF Sources, Columns
<1> HIDE DEF cols, source
<1>4. DOMAIN cols = 1..Len(t.cols)
  BY <1>2, <1>3 DEF MysqlColumns, PgColumns, SqliteColumns
<1>5. cols \in Seq(ToSet(cols)) /\ Len(cols) = Len(t.cols)
  <2>1. cols = [i \in 1..Len(t.cols) |-> cols[i]]
    BY <1>2, <1>3, <1>4 DEF MysqlColumns, PgColumns, SqliteColumns
  <2>2. \A i \in 1..Len(t.cols) : cols[i] \in ToSet(cols)
    BY <1>4 DEF ToSet
  <2>3. cols \in [1..Len(t.cols) -> ToSet(cols)]
    BY <2>1, <2>2
  <2>4. QED BY <1>2, <2>3
<1>6. ASSUME NEW i \in 1..Len(t.cols)
      PROVE  /\ cols[i].name = t.cols[i].name /\ cols[i].type = t.cols[i].type
             /\ cols[i].def = (IF source = "mysql" THEN "none" ELSE t.cols[i].def)
             /\ cols[i].nullable = ~t.cols[i].notnull
             /\ cols[i].primary = (t.cols[i].name \in ToSet(t.pkey))
             /\ source = "mysql" => cols[i].auto = t.cols[i].auto
             /\ source = "postgresql" => cols[i].auto = (t.cols[i].def = "nextval")
             /\ source = "sqlite" => cols[i].auto = (t.cols[i].name \in ToSet(t.pkey) /\ t.cols[i].type \in SqliteInt)
  <2>1. CASE source = "mysql" /\ cols = MysqlColumns(t)
    BY <1>2, <2>1 DEF MysqlColumns
  <2>2. CASE source = "postgresql" /\ cols = PgColumns(t)
    BY <1>2, <2>2 DEF PgColumns
  <2>3. CASE source = "sqlite" /\ cols = SqliteColumns(t)
    BY <1>2, <2>3 DEF SqliteColumns
  <2>4. QED BY <1>3, <2>1, <2>2, <2>3
<1>7. QED BY <1>1, <1>2, <1>4, <1>5, <1>6 DEF cols, source

\* The names of the key columns that are not in X.
LEMMA PrimaryOf ==
  ASSUME NEW V, NEW cols \in Seq(V), NEW X
  PROVE  /\ ToSet(Primary(cols)) = {cols[i].name : i \in {j \in DOMAIN cols : cols[j].primary}}
         /\ ToSet(Primary(Retain(cols, X))) =
              {cols[i].name : i \in {j \in DOMAIN cols : cols[j].primary /\ cols[j] \notin X}}
         /\ Primary(cols) = <<>> => \A j \in DOMAIN cols : ~cols[j].primary
<1>1. ASSUME NEW q \in Seq(V)
      PROVE  /\ ToSet(Primary(q)) = {q[i].name : i \in {j \in DOMAIN q : q[j].primary}}
             /\ Primary(q) = <<>> => \A j \in DOMAIN q : ~q[j].primary
  <2> DEFINE S == {c \in ToSet(q) : ~c.primary}
             r == Retain(q, S)
  <2>1. r \in Seq(V) /\ \A u : Queues(r, u) <=> u \notin S /\ Queues(q, u)
    BY RetainFacts
  <2>2. Primary(q) = [i \in DOMAIN r |-> r[i].name]
    BY DEF Primary, Names
  <2>3. \A i \in DOMAIN q : q[i] \in S <=> ~q[i].primary
    BY DEF ToSet
  <2> HIDE DEF S, r
  <2>4. ASSUME NEW i \in DOMAIN r PROVE \E j \in DOMAIN q : q[j] = r[i] /\ q[j].primary
    <3>1. r[i] \notin S /\ Queues(q, r[i])
      BY <2>1 DEF Queues
    <3>2. QED BY <2>3, <3>1 DEF Queues
  <2>5. ASSUME NEW j \in DOMAIN q, q[j].primary PROVE \E i \in DOMAIN r : r[i] = q[j]
    <3>1. q[j] \notin S /\ Queues(q, q[j])
      BY <2>3, <2>5 DEF Queues
    <3>2. QED BY <2>1, <3>1 DEF Queues
  <2>6. ToSet(Primary(q)) = {r[i].name : i \in DOMAIN r}
    BY <2>2 DEF ToSet
  <2>7. ToSet(Primary(q)) = {q[i].name : i \in {j \in DOMAIN q : q[j].primary}}
    BY <2>4, <2>5, <2>6
  <2>8. ASSUME Primary(q) = <<>>, NEW j \in DOMAIN q, q[j].primary PROVE FALSE
    <3>1. PICK i \in DOMAIN r : r[i] = q[j]
      BY <2>5, <2>8
    <3>2. DOMAIN Primary(q) = DOMAIN r
      BY <2>2
    <3>3. DOMAIN <<>> = {}
      OBVIOUS
    <3>4. QED BY <2>8, <3>1, <3>2, <3>3
  <2>9. QED BY <2>7, <2>8
<1> DEFINE r == Retain(cols, X)
<1>2. r \in Seq(V) /\ \A u : Queues(r, u) <=> u \notin X /\ Queues(cols, u)
  BY RetainFacts
<1> HIDE DEF r
<1>3. ToSet(Primary(r)) = {r[i].name : i \in {j \in DOMAIN r : r[j].primary}}
  BY <1>1, <1>2
<1>4. ASSUME NEW i \in DOMAIN r PROVE \E j \in DOMAIN cols : cols[j] = r[i] /\ cols[j] \notin X
  <2>1. r[i] \notin X /\ Queues(cols, r[i])
    BY <1>2 DEF Queues
  <2>2. QED BY <2>1 DEF Queues
<1>5. ASSUME NEW j \in DOMAIN cols, cols[j] \notin X PROVE \E i \in DOMAIN r : r[i] = cols[j]
  <2>1. Queues(cols, cols[j])
    BY DEF Queues
  <2>2. QED BY <1>2, <1>5, <2>1 DEF Queues
<1>6. ToSet(Primary(r)) = {cols[i].name : i \in {j \in DOMAIN cols : cols[j].primary /\ cols[j] \notin X}}
  BY <1>3, <1>4, <1>5
<1>7. QED BY <1>1, <1>6 DEF r

\* The columns of which a program makes a key in the declaration of the column.
Inline(tool, c) ==
  CASE tool \in {"mysql2sqlite", "postgres2sqlite"} -> c.auto /\ c.primary
    [] tool = "sqlite2mysql" -> c.auto
    [] OTHER -> FALSE

\* The columns a program makes, one of each it has read, and the key apart from those.
LEMMA BuiltColumns ==
  ASSUME NEW tool \in Tools, NEW t, IsTable(Main(tool).source, t)
  PROVE  LET cols == Columns(tool, t)
             b == Built(tool, t)
         IN  /\ DOMAIN b.cols = DOMAIN cols
             /\ \A i \in DOMAIN cols : b.cols[i].name = cols[i].name /\ b.cols[i].inline = Inline(tool, cols[i])
             /\ ToSet(b.primary) = {cols[i].name : i \in {j \in DOMAIN cols : cols[j].primary /\ ~Inline(tool, cols[j])}}
<1> DEFINE cols == Columns(tool, t)
           b == Built(tool, t)
<1>1. cols \in Seq(ToSet(cols))
  BY ColumnsFacts
<1>2. PICK groups : b = CASE tool = "mysql2sqlite" -> M2SCreate(cols, groups)
                          [] tool = "mysql2postgresql" -> M2PCreate(cols, groups)
                          [] tool = "postgres2sqlite" -> P2SCreate(cols, groups)
                          [] tool = "postgresql2mysql" -> P2MCreate(cols, groups)
                          [] tool = "sqlite2mysql" -> S2MCreate(cols, groups)
                          [] tool = "sqlite2postgres" -> S2PCreate(cols, groups)
  BY DEF Built
<1> HIDE DEF cols, b
<1> DEFINE X == {c \in ToSet(cols) : Inline(tool, c)}
<1>3. \A j \in DOMAIN cols : cols[j] \in X <=> Inline(tool, cols[j])
  BY DEF ToSet
<1>4. /\ ToSet(Primary(cols)) = {cols[i].name : i \in {j \in DOMAIN cols : cols[j].primary}}
      /\ ToSet(Primary(Retain(cols, X))) =
           {cols[i].name : i \in {j \in DOMAIN cols : cols[j].primary /\ cols[j] \notin X}}
  BY <1>1, PrimaryOf
<1>5. ToSet(Primary(Retain(cols, X))) =
        {cols[i].name : i \in {j \in DOMAIN cols : cols[j].primary /\ ~Inline(tool, cols[j])}}
  BY <1>3, <1>4
<1>6. CASE tool = "mysql2sqlite"
  <2>1. b = M2SCreate(cols, groups)
    BY <1>2, <1>6
  <2>2. \A c : Inline(tool, c) = (c.auto /\ c.primary)
    BY <1>6 DEF Inline
  <2>3. b.primary = Primary(Retain(cols, X))
    BY <2>1, <2>2 DEF M2SCreate
  <2>4. DOMAIN b.cols = DOMAIN cols
    BY <2>1 DEF M2SCreate
  <2>5. \A i \in DOMAIN cols : b.cols[i].name = cols[i].name /\ b.cols[i].inline = Inline(tool, cols[i])
    BY <2>1, <2>2 DEF M2SCreate, Plain
  <2>6. QED BY <1>5, <2>3, <2>4, <2>5 DEF b, cols
<1>7. CASE tool = "postgres2sqlite"
  <2>1. b = P2SCreate(cols, groups)
    BY <1>2, <1>7
  <2>2. \A c : Inline(tool, c) = (c.auto /\ c.primary)
    BY <1>7 DEF Inline
  <2>3. b.primary = Primary(Retain(cols, X))
    BY <2>1, <2>2 DEF P2SCreate
  <2>4. DOMAIN b.cols = DOMAIN cols
    BY <2>1 DEF P2SCreate
  <2>5. \A i \in DOMAIN cols : b.cols[i].name = cols[i].name /\ b.cols[i].inline = Inline(tool, cols[i])
    BY <2>1, <2>2 DEF P2SCreate, Plain
  <2>6. QED BY <1>5, <2>3, <2>4, <2>5 DEF b, cols
<1>8. CASE tool = "sqlite2mysql"
  <2>1. b = S2MCreate(cols, groups)
    BY <1>2, <1>8
  <2>2. \A c : Inline(tool, c) = c.auto
    BY <1>8 DEF Inline
  <2>3. b.primary = Primary(Retain(cols, X))
    BY <2>1, <2>2 DEF S2MCreate
  <2>4. DOMAIN b.cols = DOMAIN cols
    BY <2>1 DEF S2MCreate
  <2>5. \A i \in DOMAIN cols : cols[i].auto \in BOOLEAN
    <3>1. Main(tool).source = "sqlite"
      BY <1>8 DEF Main, S2MMain
    <3>2. /\ DOMAIN cols = 1..Len(t.cols)
          /\ \A i \in 1..Len(t.cols) :
               cols[i].auto = (t.cols[i].name \in ToSet(t.pkey) /\ t.cols[i].type \in SqliteInt)
      BY <3>1, ColumnsFacts DEF cols
    <3>3. QED BY <3>2
  <2>6. ASSUME NEW i \in DOMAIN cols PROVE b.cols[i].name = cols[i].name /\ b.cols[i].inline = Inline(tool, cols[i])
    <3>1. CASE cols[i].auto
      BY <2>1, <2>2, <2>5, <3>1 DEF S2MCreate, Plain
    <3>2. CASE ~cols[i].auto
      BY <2>1, <2>2, <2>5, <3>2 DEF S2MCreate, Plain
    <3>3. QED BY <3>1, <3>2
  <2>7. QED BY <1>5, <2>3, <2>4, <2>6 DEF b, cols
<1>9. CASE tool \in {"mysql2postgresql", "postgresql2mysql", "sqlite2postgres"}
  <2>1. b \in {M2PCreate(cols, groups), P2MCreate(cols, groups), S2PCreate(cols, groups)}
    BY <1>2, <1>9
  <2>2. \A c : Inline(tool, c) = FALSE
    BY <1>9 DEF Inline
  <2>3. b.primary = Primary(cols) /\ DOMAIN b.cols = DOMAIN cols
    <3>1. CASE b = M2PCreate(cols, groups)
      BY <3>1 DEF M2PCreate
    <3>2. CASE b = P2MCreate(cols, groups)
      BY <3>2 DEF P2MCreate
    <3>3. CASE b = S2PCreate(cols, groups)
      BY <3>3 DEF S2PCreate
    <3>4. QED BY <2>1, <3>1, <3>2, <3>3
  <2>4. \A i \in DOMAIN cols : b.cols[i].name = cols[i].name /\ b.cols[i].inline = FALSE
    <3>1. CASE b = M2PCreate(cols, groups)
      BY <3>1 DEF M2PCreate, Plain
    <3>2. CASE b = P2MCreate(cols, groups)
      BY <3>2 DEF P2MCreate, Plain
    <3>3. CASE b = S2PCreate(cols, groups)
      BY <3>3 DEF S2PCreate, Plain
    <3>4. QED BY <2>1, <3>1, <3>2, <3>3
  <2>5. QED BY <1>4, <2>2, <2>3, <2>4 DEF b, cols
<1>10. QED BY <1>6, <1>7, <1>8, <1>9 DEF Tools

\* The key of the new table is the key of the old one.
LEMMA KeyBuilt ==
  ASSUME NEW tool \in Tools, NEW t, IsTable(Main(tool).source, t)
  PROVE  KeyOf(Built(tool, t)) = ToSet(t.pkey)
<1> DEFINE cols == Columns(tool, t)
           b == Built(tool, t)
           n == Len(t.cols)
<1>1. /\ DOMAIN b.cols = DOMAIN cols
      /\ \A i \in DOMAIN cols : b.cols[i].name = cols[i].name /\ b.cols[i].inline = Inline(tool, cols[i])
      /\ ToSet(b.primary) = {cols[i].name : i \in {j \in DOMAIN cols : cols[j].primary /\ ~Inline(tool, cols[j])}}
  BY BuiltColumns
<1>2. /\ DOMAIN cols = 1..n /\ DOMAIN t.cols = 1..n
      /\ \A i \in 1..n : cols[i].name = t.cols[i].name /\ cols[i].primary = (t.cols[i].name \in ToSet(t.pkey))
  BY ColumnsFacts
<1>3. ASSUME NEW i \in 1..n, Inline(tool, cols[i]) PROVE cols[i].primary
  <2>1. CASE tool \in {"mysql2sqlite", "postgres2sqlite"}
    BY <1>3, <2>1 DEF Inline
  <2>2. CASE tool = "sqlite2mysql"
    <3>1. cols[i].auto
      BY <1>3, <2>2 DEF Inline
    <3>2. Main(tool).source = "sqlite"
      BY <2>2 DEF Main, S2MMain
    <3>3. cols[i].auto = (t.cols[i].name \in ToSet(t.pkey) /\ t.cols[i].type \in SqliteInt)
      BY <3>2, ColumnsFacts
    <3>4. QED BY <1>2, <3>1, <3>3
  <2>3. QED BY <1>3, <2>1, <2>2 DEF Inline
<1>4. \A u \in ToSet(t.pkey) : \E i \in 1..n : t.cols[i].name = u
  <2>1. t.pkey \in Seq(ToSet(Names(t.cols)))
    BY DEF IsTable
  <2>2. \A u \in ToSet(t.pkey) : u \in ToSet(Names(t.cols))
    BY <2>1 DEF ToSet
  <2>3. QED BY <1>2, <2>2 DEF ToSet, Names
<1> HIDE DEF b, cols, n
<1>5. KeyOf(b) = ToSet(b.primary) \cup {b.cols[i].name : i \in {j \in DOMAIN b.cols : b.cols[j].inline}}
  BY DEF KeyOf
<1>6. \A u : u \in KeyOf(b) <=> \E i \in 1..n : cols[i].name = u /\ cols[i].primary
  <2>1. ASSUME NEW u \in KeyOf(b) PROVE \E i \in 1..n : cols[i].name = u /\ cols[i].primary
    BY <1>1, <1>2, <1>3, <1>5
  <2>2. ASSUME NEW i \in 1..n, cols[i].primary PROVE cols[i].name \in KeyOf(b)
    <3>1. CASE Inline(tool, cols[i])
      BY <1>1, <1>2, <1>5, <3>1
    <3>2. CASE ~Inline(tool, cols[i])
      BY <1>1, <1>2, <1>5, <2>2, <3>2
    <3>3. QED BY <3>1, <3>2
  <2>3. QED BY <2>1, <2>2
<1>7. \A u : u \in KeyOf(b) <=> u \in ToSet(t.pkey)
  <2>1. ASSUME NEW u \in KeyOf(b) PROVE u \in ToSet(t.pkey)
    <3>1. PICK i \in 1..n : cols[i].name = u /\ cols[i].primary
      BY <1>6
    <3>2. QED BY <1>2, <3>1
  <2>2. ASSUME NEW u \in ToSet(t.pkey) PROVE u \in KeyOf(b)
    <3>1. PICK i \in 1..n : t.cols[i].name = u
      BY <1>4
    <3>2. cols[i].name = u /\ cols[i].primary
      BY <1>2, <3>1
    <3>3. QED BY <1>6, <3>2
  <2>3. QED BY <2>1, <2>2
<1>8. QED BY <1>7 DEF b

\* The pages come in the order of a key or in that of all columns.
LEMMA KeyedOrByAll ==
  ASSUME NEW tool \in Tools, NEW t, IsTable(Main(tool).source, t)
  PROVE  Len(Migrate(tool, t).order) = Len(t.cols) \/ KeyOf(Built(tool, t)) # {}
<1> DEFINE cols == Columns(tool, t)
<1>1. cols \in Seq(ToSet(cols)) /\ Len(cols) = Len(t.cols) /\ DOMAIN cols = 1..Len(t.cols) /\ Len(t.cols) \in Nat
  BY ColumnsFacts
<1>2. Migrate(tool, t).order = PageOrder(cols)
  BY DEF Tools, Migrate, M2SMigrate, M2PMigrate, P2SMigrate, P2MMigrate, S2MMigrate, S2PMigrate, Paging
<1>3. ToSet(Primary(cols)) = {cols[i].name : i \in {j \in DOMAIN cols : cols[j].primary}}
  BY <1>1, PrimaryOf
<1>4. \A i \in 1..Len(t.cols) : cols[i].name = t.cols[i].name /\ cols[i].primary = (t.cols[i].name \in ToSet(t.pkey))
  BY ColumnsFacts
<1> HIDE DEF cols
<1>5. CASE Primary(cols) = <<>>
  <2>1. PageOrder(cols) = Names(cols)
    BY <1>5 DEF PageOrder
  <2>2. Names(cols) = [i \in 1..Len(t.cols) |-> cols[i].name]
    BY <1>1 DEF Names
  <2>3. Len(Names(cols)) = Len(t.cols)
    BY <1>1, <2>2
  <2>4. QED BY <1>2, <2>1, <2>3
<1>6. CASE \E j \in DOMAIN cols : cols[j].primary
  <2>1. PICK j \in DOMAIN cols : cols[j].primary
    BY <1>6
  <2>2. t.cols[j].name \in ToSet(t.pkey)
    BY <1>1, <1>4, <2>1
  <2>3. QED BY <2>2, KeyBuilt
<1>7. CASE Primary(cols) # <<>> /\ ~\E j \in DOMAIN cols : cols[j].primary
  <2> DEFINE r == Retain(cols, {c \in ToSet(cols) : ~c.primary})
  <2>1. r \in Seq(ToSet(cols)) /\ \A u : Queues(r, u) <=> u \notin {c \in ToSet(cols) : ~c.primary} /\ Queues(cols, u)
    BY <1>1, RetainFacts
  <2>2. ASSUME NEW u, Queues(r, u) PROVE FALSE
    <3>1. u \notin {c \in ToSet(cols) : ~c.primary} /\ Queues(cols, u)
      BY <2>1, <2>2
    <3>2. PICK j \in DOMAIN cols : cols[j] = u
      BY <3>1 DEF Queues
    <3>3. u \in ToSet(cols) /\ ~u.primary
      BY <1>7, <3>2 DEF ToSet
    <3>4. QED BY <3>1, <3>3
  <2>3. Primary(cols) = [i \in DOMAIN r |-> r[i].name]
    BY DEF Primary, Names
  <2> HIDE DEF r
  <2>4. DOMAIN r = {}
    BY <2>2 DEF Queues
  <2>5. r = <<>>
    BY <2>1, <2>4
  <2>6. Primary(cols) = <<>>
    BY <2>3, <2>5
  <2>7. QED BY <1>7, <2>6
<1>8. QED BY <1>5, <1>6, <1>7

-----------------------------------------------------------------------------
(* A table that is reported copied holds every row of the source once.     *)

RowsRead   == FlattenSeq(pages[cur])
RowsBefore == FlattenSeq(Front(pages[cur]))
ByAll      == Len(Paged.order) = Len(Source.cols)

\* The pages are what the offset says of the source, in an order by every column
\* where no key names the rows.
ReadInTurn ==
  pc \in Copying =>
    /\ Len(RowsRead) = IF pc = "page" THEN offset ELSE offset + Len(Last(pages[cur]))
    /\ Len(RowsRead) <= Len(Source.rows)
    /\ \A i \in 1..Len(RowsRead) : \E m \in 1..Len(Source.rows) : RowsRead[i] = Source.rows[m]
    /\ ByAll /\ RowsRead # <<>> => \E p \in Orders : \A i \in 1..Len(RowsRead) : RowsRead[i] = Source.rows[p[i]]

\* Where one does, no row is in the table twice: the target would have refused it.
NoneTwice ==
  ~doubt /\ pc \in Copying /\ KeyOf(Result[cur]) # {} =>
    /\ pc = "page" => Once(RowsRead)
    /\ pc = "begin" => Once(RowsBefore)
    /\ pc \in {"insert", "commit"} => Once(RowsBefore \o tx.rows)

Whole ==
  ~doubt /\ job.batch > 0 =>
    \A t \in 1..N : said[t] = "copied" => SameRows(target[t].rows, base[t] \o Todo[t].rows)

WholeInv == SaidInv /\ ReadInTurn /\ NoneTwice /\ Whole

LEMMA WholeInit == ASSUME Init PROVE ReadInTurn /\ NoneTwice /\ Whole
<1>1. pc = "args" /\ said = [t \in 1..N |-> "nothing"]
  BY DEF Init
<1>2. QED BY <1>1 DEF ReadInTurn, NoneTwice, Whole, Copying

\* What the rows of the pages are.
LEMMA RowsShape ==
  ASSUME Shape, cur \in 1..N
  PROVE  /\ RowsRead \in Seq(AllRows) /\ Source.rows \in Seq(AllRows) /\ base[cur] \in Seq(AllRows)
         /\ pages[cur] = <<>> => RowsRead = <<>>
         /\ pages[cur] # <<>> => /\ RowsBefore \in Seq(AllRows) /\ Last(pages[cur]) \in Seq(AllRows)
                                 /\ RowsRead = RowsBefore \o Last(pages[cur])
<1> DEFINE q == pages[cur]
           P == Seq(AllRows) \ {<<>>}
<1>1. q \in Seq(P) /\ base[cur] \in Seq(AllRows)
  BY DEF Shape
<1>2. P \subseteq Seq(AllRows)
  OBVIOUS
<1> HIDE DEF P, q
<1>3. q \in Seq(Seq(AllRows))
  BY <1>1, <1>2, SeqMonotonic
<1>4. <<>> \in Seq(AllRows)
  OBVIOUS
<1>5. FlattenSeq(q) \in Seq(AllRows)
  BY <1>3, <1>4, FlattenAppend
<1>6. Source.rows \in Seq(AllRows)
  <2>1. Source.rows \in Seq(ToSet(Source.rows)) /\ ToSet(Source.rows) \subseteq AllRows
    BY DEF Shape, JobShape, Source, AllRows
  <2>2. QED BY <2>1, SeqMonotonic
<1>7. q = <<>> => FlattenSeq(q) = <<>>
  BY FlattenEmpty
<1>8. ASSUME q # <<>>
      PROVE  /\ FlattenSeq(Front(q)) \in Seq(AllRows) /\ Last(q) \in Seq(AllRows)
             /\ FlattenSeq(q) = FlattenSeq(Front(q)) \o Last(q)
  <2>1. Front(q) \in Seq(Seq(AllRows)) /\ Last(q) \in Seq(AllRows) /\ Append(Front(q), Last(q)) = q
    BY <1>3, <1>8, FrontThenLast
  <2>2. /\ FlattenSeq(Front(q)) \in Seq(AllRows)
        /\ FlattenSeq(Append(Front(q), Last(q))) = FlattenSeq(Front(q)) \o Last(q)
    BY <2>1, FlattenAppend
  <2>3. QED BY <2>1, <2>2
<1>9. QED BY <1>1, <1>5, <1>6, <1>7, <1>8 DEF RowsRead, RowsBefore, q

\* The table under way has a key, or its pages are ordered by every column.
LEMMA UnderWay ==
  ASSUME SaidInv, pc \in Copying
  PROVE  /\ cur \in 1..N /\ OneJob /\ Shape
         /\ ByAll \/ KeyOf(Result[cur]) # {}
<1>1. cur \in 1..N /\ OneJob /\ Shape /\ Source.cols # <<>>
  BY DEF SaidInv, CopyInv, InTurn, TablesInv, HasColumns, Copying
<1>2. /\ job.tool \in Tools /\ IsTable(Main(job.tool).source, Todo[cur])
      /\ Result[cur] = Built(job.tool, Todo[cur]) /\ Paged = Migrate(job.tool, Todo[cur])
  BY <1>1, JobFacts DEF Source, Paged
<1>3. QED BY <1>1, <1>2, KeyedOrByAll DEF ByAll, Source

\* A table that was copied stays as it is.
LEMMA WholeStays ==
  ASSUME Whole, UNCHANGED job, ~doubt' => ~doubt,
         \A t \in 1..N : said'[t] = "copied" => /\ said[t] = "copied"
                                                /\ target'[t] = target[t] /\ base'[t] = base[t]
  PROVE  Whole'
<1>1. N' = N /\ Todo' = Todo
  BY DEF N, Todo
<1>2. QED BY <1>1 DEF Whole

\* A list over a range of numbers that is not empty has their length.
LEMMA RangeLength ==
  ASSUME NEW V, NEW k \in Int, NEW s \in [1..k -> V], s # <<>>
  PROVE  s \in Seq(V) /\ Len(s) = k /\ k >= 1
<1>1. s \in Seq(V) /\ s # <<>>
  BY RangeIsSeq
<1>2. Len(s) \in Nat /\ Len(s) # 0 /\ DOMAIN s = 1..Len(s) /\ DOMAIN s = 1..k
  BY <1>1
<1>3. 1 \in 1..Len(s)
  BY <1>2
<1>4. k >= 1
  BY <1>2, <1>3
<1>5. k \in 1..Len(s) /\ Len(s) \in 1..k
  <2>1. k \in 1..k /\ Len(s) \in 1..Len(s)
    BY <1>2, <1>4
  <2>2. QED BY <1>2, <2>1
<1>6. QED BY <1>1, <1>2, <1>4, <1>5

LEMMA MembersIn == ASSUME NEW S, NEW q \in Seq(S) PROVE \A i \in DOMAIN q : q[i] \in S
OBVIOUS

\* Rows that are all of the source, that are its first ones in an order, or the next ones.
ReadFrom(rows, s, n)    == \A i \in 1..Len(rows) : \E m \in 1..n : rows[i] = s[m]
ReadAs(rows, s, p)      == \A i \in 1..Len(rows) : rows[i] = s[p[i]]
ReadNext(rows, s, p, k) == \A i \in 1..Len(rows) : rows[i] = s[p[k + i]]

\* The rows of a page: as many as there are up to the batch.
LEMMA PageRows ==
  ASSUME Shape, cur \in 1..N, NEW p \in Orders, NEW rows,
         rows = [i \in 1..Min({job.batch, Len(p) - offset}) |-> Source.rows[p[offset + i]]]
  PROVE  /\ rows # <<>> => /\ rows \in Seq(AllRows) /\ Len(rows) + offset <= Len(p)
                           /\ ReadNext(rows, Source.rows, p, offset)
         /\ rows = <<>> /\ job.batch > 0 => Len(p) <= offset
<1> DEFINE k == Min({job.batch, Len(p) - offset})
<1>1. Len(p) \in Nat /\ job.batch \in Nat /\ offset \in Nat
  BY OrdersAreOrders DEF Shape, JobShape
<1>2. k \in {job.batch, Len(p) - offset}
  <2>1. \E x \in {job.batch, Len(p) - offset} : \A y \in {job.batch, Len(p) - offset} : x <= y
    BY <1>1
  <2>2. QED BY <2>1 DEF Min
<1>3. k \in Int /\ k <= Len(p) - offset
  <2>1. job.batch \in Int /\ Len(p) - offset \in Int
    BY <1>1
  <2>2. QED BY <2>1, SmallerOfTwo
<1>4. rows = [i \in 1..k |-> Source.rows[p[offset + i]]]
  OBVIOUS
<1> HIDE DEF k
<1>5. DOMAIN rows = 1..k /\ \A i \in 1..k : rows[i] = Source.rows[p[offset + i]]
  BY <1>4
<1>6. ASSUME rows # <<>>
      PROVE  /\ rows \in Seq(AllRows) /\ Len(rows) + offset <= Len(p)
             /\ ReadNext(rows, Source.rows, p, offset)
  <2>1. rows \in Seq(AllRows) \ {<<>>}
    BY <1>6, PageFacts
  <2>2. rows \in [1..k -> AllRows]
    <3>1. rows = [i \in 1..k |-> rows[i]]
      BY <1>4, <1>5
    <3>2. \A i \in DOMAIN rows : rows[i] \in AllRows
      BY <2>1, MembersIn
    <3>3. QED BY <1>5, <3>1, <3>2
  <2>3. Len(rows) = k
    BY <1>3, <1>6, <2>2, RangeLength
  <2>4. Len(rows) + offset <= Len(p)
    <3>1. \A l, o, q, m \in Int : m <= q - o /\ l = m => l + o <= q
      OBVIOUS
    <3>2. Len(p) \in Int /\ offset \in Int
      BY <1>1
    <3>3. QED BY <1>3, <2>3, <3>1, <3>2
  <2>5. \A i \in 1..Len(rows) : rows[i] = Source.rows[p[offset + i]]
    BY <1>5, <2>3
  <2>6. rows \in Seq(AllRows)
    BY <2>1
  <2>7. QED BY <2>4, <2>5, <2>6 DEF ReadNext
<1>7. ASSUME rows = <<>>, job.batch > 0 PROVE Len(p) <= offset
  <2>1. DOMAIN rows = {}
    <3>1. DOMAIN <<>> = {}
      OBVIOUS
    <3>2. rows = <<>>
      BY <1>7
    <3>3. QED BY <3>1, <3>2
  <2>2. ~(k >= 1)
    <3>1. k >= 1 => 1 \in 1..k
      BY <1>3
    <3>2. QED BY <1>5, <2>1, <3>1
  <2>3. QED BY <1>1, <1>2, <1>3, <1>7, <2>2
<1>8. QED BY <1>6, <1>7

\* Rows of the source and the next ones of an order are rows of the source, its
\* first ones in that order if the others were.
LEMMA ReadOn ==
  ASSUME NEW S, NEW old \in Seq(S), NEW rows \in Seq(S), NEW s, NEW n \in Nat, NEW p, Reorders(n, p),
         Len(old) + Len(rows) <= n, NEW all, ReadFrom(old, s, n), all => ReadAs(old, s, p),
         ReadNext(rows, s, p, Len(old))
  PROVE  /\ Len(old \o rows) = Len(old) + Len(rows)
         /\ ReadFrom(old \o rows, s, n)
         /\ all => ReadAs(old \o rows, s, p)
<1> DEFINE c == old \o rows
           o == Len(old)
           k == Len(rows)
<1>1. /\ o \in Nat /\ k \in Nat /\ Len(c) = o + k
      /\ \A i \in 1..o : c[i] = old[i]
      /\ \A i \in 1..k : c[o + i] = rows[i]
  <2>1. ASSUME NEW a \in Seq(S), NEW b \in Seq(S)
        PROVE  /\ Len(a) \in Nat /\ Len(a \o b) = Len(a) + Len(b)
               /\ \A i \in 1..Len(a) : (a \o b)[i] = a[i]
               /\ \A i \in 1..Len(b) : (a \o b)[Len(a) + i] = b[i]
    BY Joined
  <2>2. QED BY <2>1
<1>2. /\ o + k <= n
      /\ \A i \in 1..o : \E m \in 1..n : old[i] = s[m]
      /\ all => \A i \in 1..o : old[i] = s[p[i]]
      /\ \A i \in 1..k : rows[i] = s[p[o + i]]
  BY DEF ReadFrom, ReadAs, ReadNext
<1> HIDE DEF c, o, k
<1>3. ASSUME NEW i \in 1..(o + k)
      PROVE  (\E m \in 1..n : c[i] = s[m]) /\ (all => c[i] = s[p[i]])
  <2>1. CASE i <= o
    <3>1. i \in 1..o
      BY <1>1, <2>1
    <3>2. c[i] = old[i] /\ (\E m \in 1..n : old[i] = s[m]) /\ (all => old[i] = s[p[i]])
      BY <1>1, <1>2, <3>1
    <3>3. QED BY <3>2
  <2>2. CASE ~(i <= o)
    <3>1. i - o \in 1..k /\ o + (i - o) = i /\ i \in 1..n
      BY <1>1, <1>2, <2>2
    <3>2. c[i] = rows[i - o] /\ rows[i - o] = s[p[i]]
      BY <1>1, <1>2, <3>1
    <3>3. p[i] \in 1..n
      BY <3>1 DEF Reorders
    <3>4. QED BY <3>2, <3>3
  <2>3. QED BY <2>1, <2>2
<1>4. QED BY <1>1, <1>3 DEF c, o, k, ReadFrom, ReadAs

\* What was read so far is read from any order, when the orders are by every column.
LEMMA ReadSoFar ==
  ASSUME WholeInv, pc = "page", ByAll, NEW p \in Orders
  PROVE  \A i \in 1..Len(RowsRead) : RowsRead[i] = Source.rows[p[i]]
<1> DEFINE n == Len(Source.rows)
           s == Source.rows
           old == RowsRead
           R == [k : Nat, r : Nat]
<1>1. cur \in 1..N /\ OneJob /\ Shape
  BY UnderWay DEF WholeInv, Copying
<1>2. n \in Nat /\ DOMAIN s = 1..n /\ s \in Seq(R)
  BY <1>1, OrderFacts
<1>3. \A o \in Orders : Reorders(n, o) /\ Sorted(n, s, o)
  BY <1>1, OrderFacts DEF ByAll
<1>4. /\ Len(old) <= n
      /\ old # <<>> => \E o \in Orders : \A i \in 1..Len(old) : old[i] = s[o[i]]
  BY DEF WholeInv, ReadInTurn, Copying
<1>5. old \in Seq(AllRows)
  BY <1>1, RowsShape
<1> HIDE DEF n, s, old, R
<1>6. \A j \in 1..n : s[j] \in R
  BY <1>2
<1>7. CASE old = <<>>
  <2>1. Len(old) = 0
    BY <1>7
  <2>2. QED BY <2>1 DEF old
<1>8. CASE old # <<>>
  <2>1. PICK o \in Orders : \A i \in 1..Len(old) : old[i] = s[o[i]]
    BY <1>4, <1>8
  <2>2. \A i \in 1..n : s[o[i]] = s[p[i]]
    <3>1. Reorders(n, o) /\ Sorted(n, s, o) /\ Reorders(n, p) /\ Sorted(n, s, p)
      BY <1>3
    <3>2. \A i \in 1..n : s[i] \in [k : Nat, r : Nat]
      BY <1>6 DEF R
    <3>3. n \in Nat
      BY <1>2
    <3>4. ASSUME NEW i \in 1..n PROVE s[o[i]] = s[p[i]]
      <4>1. Sorted(n, s, o) /\ Sorted(n, s, p)
        BY <3>1
      <4>2. QED BY <3>1, <3>2, <3>3, <4>1, SortedAgree
    <3>5. QED BY <3>4
  <2>3. Len(old) \in Nat
    BY <1>5
  <2>4. \A i \in 1..Len(old) : i \in 1..n
    BY <1>2, <1>4, <2>3
  <2>5. \A i \in 1..Len(old) : old[i] = s[p[i]]
    BY <2>1, <2>2, <2>4
  <2>6. QED BY <2>5 DEF old, s
<1>9. QED BY <1>7, <1>8

\* A table whose first page is still to come.
LEMMA FirstPageNext ==
  ASSUME OneJob, job' = job, pc' = "page", cur' \in 1..N, offset' = 0, pages'[cur'] = <<>>
  PROVE  ReadInTurn' /\ NoneTwice'
<1>1. RowsRead' = <<>>
  BY FlattenEmpty DEF RowsRead
<1>2. Len(Source'.rows) \in Nat
  <2>1. Todo' = Todo /\ IsTable(Main(job.tool).source, Todo[cur'])
    BY JobFacts DEF Todo
  <2>2. QED BY <2>1 DEF IsTable, Source
<1>3. Len(<<>>) = 0 /\ DOMAIN <<>> = {}
  OBVIOUS
<1>4. ReadInTurn'
  BY <1>1, <1>2, <1>3 DEF ReadInTurn
<1>5. Once(<<>>)
  BY DEF Once
<1>6. NoneTwice'
  BY <1>1, <1>5 DEF NoneTwice
<1>7. QED BY <1>4, <1>6

\* Where no page is under way there is nothing to read in turn.
LEMMA NoPage == ASSUME pc' \notin Copying PROVE ReadInTurn' /\ NoneTwice'
BY DEF ReadInTurn, NoneTwice

LEMMA WholeQuiet ==
  ASSUME WholeInv, [Next]_vars, ~Reaching, ~ReadPage \/ Exit("failed")
  PROVE  ReadInTurn' /\ NoneTwice' /\ Whole'
<1>1. job' = job /\ N' = N /\ Todo' = Todo /\ target' = target /\ OneJob
  BY JobNever, QuietSteps DEF WholeInv, SaidInv, TablesInv
<1>2. CASE Rerun
  <2>1. said' = [t \in 1..N |-> "nothing"] /\ pc' = "args"
    BY <1>2 DEF Rerun
  <2>2. QED BY <1>1, <2>1, NoPage DEF Whole, Copying
<1>3. CASE \E how \in Ended : Exit(how)
  <2>1. pc' \in Ended /\ UNCHANGED <<said, base, doubt>>
    BY <1>3 DEF Exit
  <2>2. Whole'
    BY <1>1, <2>1, WholeStays DEF WholeInv
  <2>3. QED BY <2>1, <2>2, NoPage DEF Ended, Copying
<1>4. CASE UNCHANGED vars
  <2>1. UNCHANGED <<pc, cur, offset, said, tx, base, pages, doubt>>
    BY <1>4 DEF vars, progVars, dbVars, history
  <2>2. Whole'
    BY <1>1, <2>1, WholeStays DEF WholeInv
  <2>3. RowsRead' = RowsRead /\ RowsBefore' = RowsBefore /\ Result' = Result /\ Source' = Source /\ Paged' = Paged
    BY <1>1, <2>1 DEF RowsRead, RowsBefore, Result, Source, Paged
  <2>4. Orders' = Orders /\ (ByAll' <=> ByAll)
    BY <2>3 DEF Orders, ByAll
  <2>5. ReadInTurn'
    BY <2>1, <2>3, <2>4 DEF WholeInv, ReadInTurn
  <2>6. NoneTwice'
    BY <2>1, <2>3 DEF WholeInv, NoneTwice
  <2>7. QED BY <2>2, <2>5, <2>6
<1>5. CASE (ParseArgs \/ Connect) /\ ~\E how \in Ended : Exit(how)
  <2>1. pc' \in {"connect", "close", "columns"} /\ UNCHANGED <<said, base, doubt>>
    BY <1>5 DEF ParseArgs, Connect, Goto, Ended, history
  <2>2. Whole'
    BY <1>1, <2>1, WholeStays DEF WholeInv
  <2>3. QED BY <2>1, <2>2, NoPage DEF Copying
<1>6. CASE FetchColumns /\ ~\E how \in Ended : Exit(how)
  <2>1. /\ UNCHANGED <<base, pages, doubt>>
        /\ cur \in 1..N /\ pages[cur] = <<>>
        /\ said' = said \/ said' = [said EXCEPT ![cur] = "skipped"]
        /\ \/ pc' \in {"columns", "close", "drop"}
           \/ pc' = "page" /\ cur' = cur /\ offset' = 0
    BY <1>6 DEF FetchColumns, Goto, NextTable, Say, Ended, history, WholeInv, SaidInv, CopyInv, InTurn
  <2>2. \A t \in 1..N : said'[t] = "copied" => said[t] = "copied"
    <3>1. DOMAIN said = 1..N
      BY DEF WholeInv, SaidInv, Said
    <3>2. CASE said' = [said EXCEPT ![cur] = "skipped"]
      <4>1. \A t \in 1..N : t # cur => said'[t] = said[t]
        BY <3>1, <3>2, SayOne
      <4>2. said'[cur] = "skipped"
        BY <2>1, <3>1, <3>2, SayOne
      <4>3. QED BY <4>1, <4>2
    <3>3. QED BY <2>1, <3>2
  <2>3. Whole'
    BY <1>1, <2>1, <2>2, WholeStays DEF WholeInv
  <2>4. ReadInTurn' /\ NoneTwice'
    BY <1>1, <2>1, FirstPageNext, NoPage DEF Copying
  <2>5. QED BY <2>3, <2>4
<1>7. QED BY <1>2, <1>3, <1>4, <1>5, <1>6 DEF Next, Program, Reaching, Failing, Close, Killed, Ended

\* DROP and CREATE: no page of the table is read yet.
LEMMA WholeCreate ==
  ASSUME WholeInv, DropOld \/ CreateTable
  PROVE  ReadInTurn' /\ NoneTwice' /\ Whole'
<1>1. job' = job /\ N' = N /\ Todo' = Todo /\ OneJob /\ DOMAIN said = 1..N
  BY JobNever DEF Next, Program, WholeInv, SaidInv, TablesInv, Said
<1>2. /\ cur \in 1..N /\ said[cur] = "nothing"
      /\ \A t \in 1..N : t # cur => target'[t] = target[t] /\ said'[t] = said[t]
      /\ said'[cur] \in {"nothing", "skipped", "created"}
  <2>1. CASE DropOld
    <3>1. Only(target', target'[cur] = Absent) /\ cur \in 1..N
      BY <2>1, DropDoes DEF WholeInv, SaidInv
    <3>2. pc = "drop" /\ said' = said
      BY <2>1 DEF DropOld
    <3>3. QED BY <3>1, <3>2 DEF Only, WholeInv, SaidInv, Said, Early
  <2>2. CASE CreateTable
    <3>1. /\ Only(target', /\ target[cur] = Absent /\ Accepts(Kind, Result[cur])
                           /\ target'[cur] = [def |-> Result[cur], rows |-> <<>>])
          /\ cur \in 1..N
          /\ said' = [said EXCEPT ![cur] = "skipped"] \/ said' = [said EXCEPT ![cur] = "created"]
      BY <2>2, CreateDoes DEF WholeInv, SaidInv
    <3>2. pc = "create"
      BY <2>2 DEF CreateTable
    <3>3. said[cur] = "nothing"
      BY <3>1, <3>2 DEF WholeInv, SaidInv, Said
    <3>4. (\A t \in 1..N : t # cur => said'[t] = said[t]) /\ said'[cur] \in {"skipped", "created"}
      BY <1>1, <3>1
    <3>5. QED BY <3>1, <3>3, <3>4 DEF Only
  <2>3. QED BY <2>1, <2>2
<1>3. /\ UNCHANGED <<base, pages>> /\ (pc' = "page" => cur' = cur /\ offset' = 0)
      /\ pc' \in {"create", "columns", "close", "page"} /\ pages[cur] = <<>>
      /\ \E outcomes : \E got \in BOOLEAN : Call(outcomes, got)
  BY DEF DropOld, CreateTable, Goto, NextTable, WholeInv, SaidInv, CopyInv, InTurn
<1>4. ~doubt' => ~doubt
  BY <1>3, CallFacts DEF WholeInv, SaidInv, CopyInv, Shape
<1>5. \A t \in 1..N : said'[t] = "copied" => said[t] = "copied" /\ target'[t] = target[t] /\ base'[t] = base[t]
  BY <1>2, <1>3
<1>6. Whole'
  BY <1>1, <1>4, <1>5, WholeStays DEF WholeInv
<1>7. ReadInTurn' /\ NoneTwice'
  BY <1>1, <1>2, <1>3, FirstPageNext, NoPage DEF Copying
<1>8. QED BY <1>6, <1>7

\* The rows of a table that was read to its end are those of the source.
LEMMA CopiedWhole ==
  ASSUME WholeInv, pc = "page", Len(Source.rows) <= offset, ~doubt, NEW p \in Orders,
         NEW b \in Seq(AllRows)
  PROVE  SameRows(b \o RowsRead, b \o Source.rows)
<1> DEFINE have == RowsRead
           want == Source.rows
           n == Len(want)
<1>1. cur \in 1..N /\ OneJob /\ Shape /\ (ByAll \/ KeyOf(Result[cur]) # {})
  BY UnderWay DEF WholeInv, Copying
<1>2. n \in Nat /\ Reorders(n, p)
  BY <1>1, OrderFacts
<1>3. /\ Len(have) = offset /\ Len(have) <= n
      /\ \A i \in 1..Len(have) : \E m \in 1..n : have[i] = want[m]
  BY DEF WholeInv, ReadInTurn, Copying
<1>4. have \in Seq(AllRows) /\ want \in Seq(AllRows)
  BY <1>1, RowsShape
<1>5. ByAll => \A i \in 1..Len(have) : have[i] = want[p[i]]
  BY ReadSoFar
<1>6. ~ByAll => Once(have)
  BY <1>1 DEF WholeInv, NoneTwice, Copying
<1>7. Len(want) <= offset
  OBVIOUS
<1> HIDE DEF have, want, n
<1>8. Len(have) = Len(want) /\ Len(want) = n
  BY <1>2, <1>3, <1>4, <1>7 DEF n
<1>9. \E f : Reorders(Len(have), f) /\ \A i \in 1..Len(have) : have[i] = want[f[i]]
  <2>1. CASE ByAll
    BY <1>2, <1>5, <1>8, <2>1
  <2>2. CASE ~ByAll
    <3>1. Once(have) /\ \A i \in 1..Len(have) : \E m \in 1..Len(want) : have[i] = want[m]
      BY <1>3, <1>6, <1>8, <2>2
    <3>2. Len(have) = Len(want)
      BY <1>8
    <3>3. Reorders(Len(have), Places(have, want)) /\ Matches(have, want, Places(have, want))
      BY <1>4, <3>1, <3>2, NamesEach
    <3>4. QED BY <3>3 DEF Matches
  <2>3. QED BY <2>1, <2>2
<1>10. SameRows(b \o have, b \o want)
  BY <1>4, <1>8, <1>9, Shuffled
<1>11. QED BY <1>10 DEF have, want

\* A page is read, or the table is found to be copied.
LEMMA WholePage ==
  ASSUME WholeInv, ReadPage, ~Exit("failed")
  PROVE  ReadInTurn' /\ NoneTwice' /\ Whole'
<1>1. job' = job /\ N' = N /\ Todo' = Todo /\ Result' = Result
  BY JobNever DEF Next, Program
<1>2. PICK p \in Orders :
        LET rows == [i \in 1..Min({job.batch, Len(p) - offset}) |-> Source.rows[p[offset + i]]]
        IN \/ rows = <<>> /\ Say("copied") /\ NextTable /\ UNCHANGED <<page, pages>>
           \/ /\ rows # <<>> /\ Goto("begin") /\ page' = rows
              /\ pages' = [pages EXCEPT ![cur] = Append(@, rows)]
              /\ UNCHANGED <<said, cur>>
  BY DEF ReadPage
<1>3. PICK rows : rows = [i \in 1..Min({job.batch, Len(p) - offset}) |-> Source.rows[p[offset + i]]]
  OBVIOUS
<1>4. \/ /\ rows = <<>> /\ said' = [said EXCEPT ![cur] = "copied"] /\ pc' \in {"columns", "close"}
         /\ cur' = cur + 1 /\ pages' = pages
      \/ /\ rows # <<>> /\ pc' = "begin" /\ said' = said /\ cur' = cur
         /\ pages' = [pages EXCEPT ![cur] = Append(@, rows)]
  BY <1>2, <1>3 DEF Goto, NextTable, Say
<1>5. /\ pc = "page" /\ UNCHANGED <<target, tx, offset, doubt>>
      /\ base' = IF offset = 0 THEN [base EXCEPT ![cur] = target[cur].rows] ELSE base
  BY DEF ReadPage, dbVars
<1>6. cur \in 1..N /\ OneJob /\ Shape /\ (offset = 0 <=> pages[cur] = <<>>) /\ said[cur] # "copied" /\ DOMAIN said = 1..N
  BY <1>5, UnderWay DEF WholeInv, SaidInv, CopyInv, InTurn, Said, Copying
<1>7. \A t \in 1..N : t # cur => base'[t] = base[t]
  BY <1>5, <1>6 DEF Shape
<1>8. /\ rows # <<>> => /\ rows \in Seq(AllRows) /\ Len(rows) + offset <= Len(p)
                        /\ ReadNext(rows, Source.rows, p, offset)
      /\ rows = <<>> /\ job.batch > 0 => Len(p) <= offset
  BY <1>3, <1>6, PageRows
<1>9. Len(p) = Len(Source.rows)
  BY <1>6, OrderFacts
<1>10. CASE rows = <<>>
  <2>1. ReadInTurn' /\ NoneTwice'
    BY <1>4, <1>10, NoPage DEF Copying
  <2>2. \A t \in 1..N : t # cur => said'[t] = said[t]
    BY <1>4, <1>6, <1>10, SayOne
  <2>3. ASSUME ~doubt, job.batch > 0, NEW t \in 1..N, said'[t] = "copied"
        PROVE  SameRows(target[t].rows, base'[t] \o Todo[t].rows)
    <3>1. CASE t # cur
      BY <1>7, <2>2, <2>3, <3>1 DEF WholeInv, Whole
    <3>2. CASE t = cur
      <4>1. base'[cur] \in Seq(AllRows)
        BY <1>5, <1>6 DEF Shape, TargetShape
      <4>2. Len(Source.rows) <= offset
        BY <1>8, <1>9, <1>10, <2>3
      <4>3. SameRows(base'[cur] \o RowsRead, base'[cur] \o Source.rows)
        BY <1>5, <2>3, <4>1, <4>2, CopiedWhole
      <4>4. target[cur].rows = base'[cur] \o RowsRead
        <5>1. CASE pages[cur] = <<>>
          <6>1. base'[cur] = target[cur].rows
            BY <1>5, <1>6, <5>1 DEF Shape
          <6>2. RowsRead = <<>>
            BY <1>6, <5>1, RowsShape
          <6>3. base'[cur] \o <<>> = base'[cur]
            BY <4>1, ConcatEmptySeq
          <6>4. QED BY <6>1, <6>2, <6>3
        <5>2. CASE pages[cur] # <<>>
          BY <1>5, <1>6, <2>3, <5>2 DEF WholeInv, SaidInv, CopyInv, BatchInTx, AllPagesIn, RowsRead
        <5>3. QED BY <5>1, <5>2
      <4>5. QED BY <3>2, <4>3, <4>4 DEF Source
    <3>3. QED BY <3>1, <3>2
  <2>4. Whole'
    BY <1>1, <1>5, <2>3 DEF Whole
  <2>5. QED BY <2>1, <2>4
<1>11. CASE rows # <<>>
  <2>1. /\ pc' = "begin" /\ said' = said /\ cur' = cur /\ pages'[cur] = Append(pages[cur], rows)
    BY <1>4, <1>6, <1>11 DEF Shape
  <2>2. Whole'
    <3>1. \A t \in 1..N : said'[t] = "copied" => said[t] = "copied" /\ target'[t] = target[t] /\ base'[t] = base[t]
      BY <1>5, <1>6, <1>7, <2>1
    <3>2. QED BY <1>1, <1>5, <3>1, WholeStays DEF WholeInv
  <2>3. /\ pages'[cur] # <<>> /\ Front(pages'[cur]) = pages[cur] /\ Last(pages'[cur]) = rows
        /\ RowsRead' = RowsRead \o rows /\ RowsBefore' = RowsRead
    <3>1. pages[cur] \in Seq(Seq(AllRows)) /\ rows \in Seq(AllRows)
      <4>1. pages[cur] \in Seq(Seq(AllRows) \ {<<>>})
        BY <1>6 DEF Shape
      <4>2. Seq(AllRows) \ {<<>>} \subseteq Seq(AllRows)
        OBVIOUS
      <4>3. QED BY <1>8, <1>11, <4>1, <4>2, SeqMonotonic
    <3>2. /\ pages'[cur] # <<>> /\ Front(pages'[cur]) = pages[cur] /\ Last(pages'[cur]) = rows
      BY <2>1, <3>1, FrontAndLast
    <3>3. FlattenSeq(pages'[cur]) = FlattenSeq(pages[cur]) \o rows
      BY <2>1, <3>1, FlattenAppend
    <3>4. QED BY <2>1, <3>2, <3>3 DEF RowsRead, RowsBefore
  <2>4. /\ Source' = Source /\ Paged' = Paged /\ Orders' = Orders /\ (ByAll' <=> ByAll)
    BY <1>1, <2>1 DEF Source, Paged, Orders, ByAll
  <2>5. NoneTwice'
    BY <1>1, <1>5, <2>1, <2>3 DEF WholeInv, NoneTwice, Copying
  <2>6. /\ Len(RowsRead) = offset
        /\ \A i \in 1..Len(RowsRead) : \E m \in 1..Len(Source.rows) : RowsRead[i] = Source.rows[m]
        /\ ByAll => \A i \in 1..Len(RowsRead) : RowsRead[i] = Source.rows[p[i]]
        /\ RowsRead \in Seq(AllRows)
    BY <1>5, <1>6, ReadSoFar, RowsShape DEF WholeInv, ReadInTurn, Copying
  <2>7. /\ Len(Source.rows) \in Nat /\ Reorders(Len(Source.rows), p)
    BY <1>6, OrderFacts
  <2>8. rows \in Seq(AllRows) /\ Len(rows) \in Nat /\ Len(RowsRead) + Len(rows) <= Len(Source.rows)
    <3>1. rows \in Seq(AllRows) /\ Len(rows) + offset <= Len(Source.rows)
      BY <1>8, <1>9, <1>11
    <3>2. Len(rows) \in Nat /\ offset \in Nat
      BY <1>6, <3>1 DEF Shape
    <3>3. QED BY <2>6, <2>7, <3>1, <3>2
  <2>9. ReadNext(rows, Source.rows, p, Len(RowsRead))
    BY <1>8, <1>11, <2>6
  <2>10. PICK s : s = Source.rows
    OBVIOUS
  <2>11. PICK n : n = Len(s)
    OBVIOUS
  <2>12. /\ Len(RowsRead \o rows) = Len(RowsRead) + Len(rows)
         /\ ReadFrom(RowsRead \o rows, s, n)
         /\ ByAll => ReadAs(RowsRead \o rows, s, p)
    <3>1. n \in Nat /\ Reorders(n, p) /\ Len(RowsRead) + Len(rows) <= n
      BY <2>7, <2>8, <2>10, <2>11
    <3>2. ReadFrom(RowsRead, s, n) /\ (ByAll => ReadAs(RowsRead, s, p))
      BY <2>6, <2>10, <2>11 DEF ReadFrom, ReadAs
    <3>3. ReadNext(rows, s, p, Len(RowsRead))
      BY <2>9, <2>10
    <3>4. QED BY <2>6, <2>8, <3>1, <3>2, <3>3, ReadOn
  <2>13. /\ Len(RowsRead') = offset' + Len(Last(pages'[cur'])) /\ Len(RowsRead') <= Len(Source.rows)
    BY <1>5, <2>1, <2>3, <2>6, <2>8, <2>12
  <2>14. /\ \A i \in 1..Len(RowsRead') : \E m \in 1..Len(Source.rows) : RowsRead'[i] = Source.rows[m]
         /\ ByAll => \E o \in Orders : \A i \in 1..Len(RowsRead') : RowsRead'[i] = Source.rows[o[i]]
    BY <2>3, <2>10, <2>11, <2>12 DEF ReadFrom, ReadAs
  <2>15. ReadInTurn'
    BY <2>1, <2>4, <2>13, <2>14 DEF ReadInTurn
  <2>16. QED BY <2>2, <2>5, <2>15
<1>12. QED BY <1>10, <1>11

\* While a batch is under way what was read stays.
LEMMA ReadingStays ==
  ASSUME ReadInTurn, UNCHANGED <<job, cur, pages>>, pc \in {"begin", "insert", "commit"},
         \/ pc' \in {"insert", "commit"} /\ offset' = offset
         \/ pc' = "page" /\ offset' = offset + Len(Last(pages[cur]))
         \/ pc' = "failing"
  PROVE  ReadInTurn'
<1>1. /\ RowsRead' = RowsRead /\ Source' = Source /\ Paged' = Paged /\ Last(pages[cur])' = Last(pages[cur])
  BY DEF RowsRead, Source, Todo, Paged
<1>2. Orders' = Orders /\ (ByAll' <=> ByAll)
  BY <1>1 DEF Orders, ByAll
<1>3. CASE pc' = "failing"
  BY <1>3 DEF ReadInTurn, Copying
<1>4. CASE pc' # "failing"
  <2>1. /\ Len(RowsRead) = offset + Len(Last(pages[cur])) /\ Len(RowsRead) <= Len(Source.rows)
        /\ \A i \in 1..Len(RowsRead) : \E m \in 1..Len(Source.rows) : RowsRead[i] = Source.rows[m]
        /\ ByAll /\ RowsRead # <<>> => \E p \in Orders : \A i \in 1..Len(RowsRead) : RowsRead[i] = Source.rows[p[i]]
    BY DEF ReadInTurn, Copying
  <2>2. Len(RowsRead) = IF pc' = "page" THEN offset' ELSE offset' + Len(Last(pages[cur]))
    BY <1>4, <2>1
  <2>3. QED BY <1>1, <1>2, <2>1, <2>2 DEF ReadInTurn
<1>5. QED BY <1>3, <1>4

\* A row that the target has taken into the transaction is new there.
LEMMA InsertedOnce ==
  ASSUME WholeInv, InsertRow, ~doubt', pc' \in {"insert", "commit"}, KeyOf(Result[cur]) # {}
  PROVE  Once(RowsBefore \o tx'.rows)
<1> DEFINE row == Head(page)
           outcomes == InsertOn(row, Paged.holes)
           held == Outcome(target, [tx EXCEPT !.rows = Append(@, row)], TRUE)
           there == target[cur].rows \o tx.rows
<1>1. PICK got \in BOOLEAN :
        Call(outcomes, got) /\ Goto(IF got THEN (IF Len(page) = 1 THEN "commit" ELSE "insert") ELSE "failing")
  BY DEF InsertRow, Step
<1>2. pc = "insert" /\ got
  BY <1>1 DEF InsertRow, Goto
<1>3. ~doubt /\ \E o \in outcomes : o.ok /\ tx' = o.tx
  BY <1>1, <1>2, CallFacts DEF WholeInv, SaidInv, CopyInv, Shape
<1>4. /\ cur \in 1..N /\ OneJob /\ Shape /\ pages[cur] # <<>> /\ page # <<>>
      /\ DOMAIN tx = {"st", "rows"} /\ tx.rows \in Seq(AllRows) /\ tx.st = "open"
      /\ page \in Seq(AllRows) /\ target[cur].rows \in Seq(AllRows) /\ base[cur] \in Seq(AllRows)
      /\ target[cur].rows = base[cur] \o RowsBefore
      /\ Once(RowsBefore \o tx.rows)
      /\ Made
  BY <1>2, <1>3 DEF WholeInv, SaidInv, CopyInv, InTurn, Shape, TxShape, TargetShape, BatchInTx, FrontPagesIn,
     TablesInv, NoneTwice, Copying, RowsBefore
<1>5. \A o \in outcomes : o.ok => o = held /\ target[cur] # Absent /\ ~Collides(row)
  <2>1. ~Refused.ok
    BY <1>4, RefusedFacts
  <2>2. QED BY <1>4, <2>1 DEF InsertOn
<1>6. held.tx.rows = Append(tx.rows, row)
  BY <1>4 DEF Outcome
<1>7. row \in AllRows
  BY <1>4
<1> HIDE DEF row, outcomes, held
<1>8. tx'.rows = Append(tx.rows, row) /\ target[cur] # Absent /\ ~Collides(row)
  BY <1>3, <1>5, <1>6
<1>9. target[cur].def = Result[cur]
  BY <1>4, <1>8 DEF Made
<1>10. row \notin ToSet(there)
  BY <1>8, <1>9 DEF Collides
<1>11. RowsBefore \in Seq(AllRows)
  BY <1>4, RowsShape
<1>12. PICK a \in Seq(AllRows) : a = RowsBefore
  BY <1>11
<1>13. PICK b \in Seq(AllRows) : b = tx.rows
  BY <1>4
<1>14. there = base[cur] \o (a \o b)
  <2>1. there = (base[cur] \o a) \o b
    BY <1>4, <1>12, <1>13
  <2> HIDE DEF there
  <2>2. ASSUME NEW e \in Seq(AllRows) PROVE (e \o a) \o b = e \o (a \o b)
    BY ConcatAssociative
  <2>3. (base[cur] \o a) \o b = base[cur] \o (a \o b)
    BY <1>4, <2>2
  <2>4. QED BY <2>1, <2>3
<1>15. ~Queues(a \o b, row)
  <2>1. a \o b \in Seq(AllRows)
    OBVIOUS
  <2>2. ASSUME NEW i \in DOMAIN (a \o b), (a \o b)[i] = row PROVE FALSE
    <3>1. /\ DOMAIN (a \o b) = 1..Len(a \o b)
          /\ Len(base[cur]) \in Nat /\ Len(a \o b) \in Nat
          /\ \A j \in 1..Len(a \o b) : (base[cur] \o (a \o b))[Len(base[cur]) + j] = (a \o b)[j]
          /\ DOMAIN (base[cur] \o (a \o b)) = 1..(Len(base[cur]) + Len(a \o b))
      <4>1. ASSUME NEW e \in Seq(AllRows), NEW f \in Seq(AllRows)
            PROVE  /\ DOMAIN f = 1..Len(f) /\ Len(e) \in Nat /\ Len(f) \in Nat
                   /\ \A j \in 1..Len(f) : (e \o f)[Len(e) + j] = f[j]
                   /\ DOMAIN (e \o f) = 1..(Len(e) + Len(f))
        BY Joined
      <4>2. QED BY <1>4, <2>1, <4>1
    <3>2. Len(base[cur]) + i \in DOMAIN (base[cur] \o (a \o b))
      <4>1. i \in 1..Len(a \o b)
        BY <2>2, <3>1
      <4>2. PICK m \in Nat, n \in Nat : m = Len(base[cur]) /\ n = Len(a \o b)
        BY <3>1
      <4>3. m + i \in 1..(m + n)
        <5>1. \A j \in 1..n : m + j \in 1..(m + n)
          OBVIOUS
        <5>2. QED BY <4>1, <4>2, <5>1
      <4>4. QED BY <3>1, <4>2, <4>3
    <3>3. (base[cur] \o (a \o b))[Len(base[cur]) + i] = row
      BY <2>2, <3>1
    <3>4. row \in ToSet(there)
      BY <1>14, <3>2, <3>3 DEF ToSet
    <3>5. QED BY <1>10, <3>4
  <2>3. QED BY <2>2 DEF Queues
<1>16. a \o b \in Seq(AllRows) /\ Once(a \o b)
  BY <1>4, <1>12, <1>13
<1>17. Once(Append(a \o b, row))
  BY <1>7, <1>15, <1>16, EndAdded
<1>18. Append(a \o b, row) = a \o Append(b, row)
  <2>1. <<row>> \in Seq(AllRows) /\ Append(b, row) = b \o <<row>> /\ Append(a \o b, row) = (a \o b) \o <<row>>
    BY <1>7, <1>16, AppendIsConcat
  <2>2. (a \o b) \o <<row>> = a \o (b \o <<row>>)
    BY <2>1, ConcatAssociative
  <2>3. QED BY <2>1, <2>2
<1>19. QED BY <1>8, <1>12, <1>13, <1>17, <1>18

\* The statements of a batch.
LEMMA WholeBatch ==
  ASSUME WholeInv, BeginBatch \/ InsertRow \/ CommitBatch
  PROVE  ReadInTurn' /\ NoneTwice' /\ Whole'
<1>1. job' = job /\ N' = N /\ Todo' = Todo /\ Result' = Result
  BY JobNever DEF Next, Program
<1>2. /\ pc \in {"begin", "insert", "commit"} /\ UNCHANGED <<cur, said, base, pages, fresh>>
      /\ \E outcomes : \E got \in BOOLEAN : Call(outcomes, got)
      /\ BeginBatch => pc = "begin" /\ pc' \in {"insert", "failing"} /\ offset' = offset
      /\ InsertRow => pc' \in {"insert", "commit", "failing"} /\ offset' = offset
      /\ CommitBatch => pc = "commit" /\ pc' \in {"page", "failing"} /\ offset' = offset + Len(Last(pages[cur]))
  BY DEF BeginBatch, InsertRow, CommitBatch, Step, Goto
<1>3. ~doubt' => ~doubt
  BY <1>2, CallFacts DEF WholeInv, SaidInv, CopyInv, Shape
<1>4. cur \in 1..N /\ pages[cur] # <<>> /\ Shape /\ said[cur] # "copied"
  BY <1>2 DEF WholeInv, SaidInv, CopyInv, InTurn, Said, Copying
<1>5. \A t \in 1..N : t # cur => target'[t] = target[t]
  <2>1. CASE BeginBatch
    BY <2>1, BeginDoes DEF WholeInv, SaidInv
  <2>2. CASE InsertRow \/ CommitBatch
    <3>1. Only(target', target[cur] # Absent /\ target'[cur] # Absent /\ target'[cur].def = target[cur].def)
      BY <2>2, InsertDoes, CommitDoes DEF WholeInv, SaidInv
    <3>2. QED BY <3>1 DEF Only
  <2>3. QED BY <2>1, <2>2
<1>6. Whole'
  <2>1. \A t \in 1..N : said'[t] = "copied" => said[t] = "copied" /\ target'[t] = target[t] /\ base'[t] = base[t]
    BY <1>2, <1>4, <1>5
  <2>2. QED BY <1>1, <1>3, <2>1, WholeStays DEF WholeInv
<1>7. ReadInTurn'
  BY <1>1, <1>2, ReadingStays DEF WholeInv
<1>8. RowsRead' = RowsRead /\ RowsBefore' = RowsBefore
  BY <1>2 DEF RowsRead, RowsBefore
<1>9. NoneTwice'
  <2>1. SUFFICES ASSUME ~doubt', pc' \in Copying, KeyOf(Result[cur]) # {}
                 PROVE  /\ pc' = "page" => Once(RowsRead)
                        /\ pc' = "begin" => Once(RowsBefore)
                        /\ pc' \in {"insert", "commit"} => Once(RowsBefore \o tx'.rows)
    BY <1>1, <1>2, <1>8 DEF NoneTwice
  <2>2. ~doubt
    BY <1>3, <2>1
  <2>3. RowsBefore \in Seq(AllRows) /\ RowsRead = RowsBefore \o Last(pages[cur])
    BY <1>4, RowsShape
  <2>4. CASE BeginBatch
    <3>1. Once(RowsBefore)
      BY <1>2, <2>1, <2>2, <2>4 DEF WholeInv, NoneTwice, Copying
    <3>2. tx'.rows = <<>>
      BY <2>4, BeginDoes DEF WholeInv, SaidInv
    <3>3. RowsBefore \o <<>> = RowsBefore
      BY <2>3, ConcatEmptySeq
    <3>4. pc' = "insert"
      BY <1>2, <2>1, <2>4 DEF Copying
    <3>5. QED BY <3>1, <3>2, <3>3, <3>4
  <2>5. CASE InsertRow
    <3>1. pc' \in {"insert", "commit"}
      BY <1>2, <2>1, <2>5 DEF Copying
    <3>2. QED BY <2>1, <2>5, <3>1, InsertedOnce
  <2>6. CASE CommitBatch
    <3>1. pc = "commit" /\ pc' = "page"
      BY <1>2, <2>1, <2>6 DEF Copying
    <3>2. Once(RowsBefore \o tx.rows) /\ tx.rows = Last(pages[cur])
      BY <2>1, <2>2, <3>1 DEF WholeInv, SaidInv, CopyInv, BatchInTx, NoneTwice, Copying
    <3>3. QED BY <2>3, <3>1, <3>2
  <2>7. QED BY <2>4, <2>5, <2>6
<1>10. QED BY <1>6, <1>7, <1>9

LEMMA WholeStep == ASSUME WholeInv, [Next]_vars PROVE WholeInv'
<1>1. SaidInv'
  BY SaidStep DEF WholeInv
<1>2. ReadInTurn' /\ NoneTwice' /\ Whole'
  BY WholeQuiet, WholeCreate, WholePage, WholeBatch DEF Reaching
<1>3. QED BY <1>1, <1>2 DEF WholeInv

\* The tables a run has dropped and created stay those it has built, nothing is
\* said of a table out of turn, and a page holds what the source gives in its order.
THEOREM CopyWholeInvariant == Spec => []WholeInv
<1>1. Init => WholeInv
  BY CopyInit, TablesInit, SaidInit, WholeInit DEF WholeInv, SaidInv
<1>2. WholeInv /\ [Next]_vars => WholeInv'
  BY WholeStep
<1>3. QED BY <1>1, <1>2, PTL DEF Spec

\* A table reported copied holds every row of the source once.
THEOREM CopyLosesNoRow == Spec => []CopyIsWhole
<1>1. WholeInv => CopyIsWhole
  <2>1. SUFFICES ASSUME WholeInv, ~doubt, job.batch > 0, NEW t \in 1..N, said[t] = "copied"
                 PROVE  /\ SameRows(target[t].rows, base[t] \o Todo[t].rows)
                        /\ t \in fresh => base[t] = <<>>
    BY DEF CopyIsWhole
  <2>2. QED BY <2>1 DEF WholeInv, Whole, SaidInv, Fresh
<1>2. QED BY CopyWholeInvariant, <1>1, PTL

-----------------------------------------------------------------------------
(* The mappings of the types, for every type a catalog may name.           *)

\* Every value the column may hold arrives, unless the pair is among those that are named.
Fit(source, was, kind, now) == <<was, now>> \notin Lossy <=> Arrives(source, was, kind, now)

\* The kinds of value a column may hold and the forms a SELECT yields them in, and the
\* forms and kinds a column takes, one by one.
MysqlHolds(x, v, f) ==
  /\ x \in {"tinyint", "year"} => v = "i16" /\ f = "number"
  /\ x = "smallint" => v \in {"i16", "u16"} /\ f = "number"
  /\ x = "mediumint" => v \in {"i16", "i32"} /\ f = "number"
  /\ x = "int" => (v = "i32" /\ f = "number") \/ (v = "u32" /\ f = "text")
  /\ x = "bigint" => (v = "i64" /\ f = "number") \/ (v = "u64" /\ f = "text")
  /\ x = "decimal" => (v = "cents" /\ f = "number") \/ (v = "decimal" /\ f = "rounded")
  /\ x = "float" => v = "float" /\ f = "rounded"
  /\ x = "double" => v = "double" /\ f = "number"
  /\ x = "bit" => v \in {"bit", "bits"} /\ f \in {"text", "bytes"}
  /\ x \in {"binary", "varbinary"} => v = "bytes" /\ f \in {"text", "bytes"}
  /\ x \in {"blob", "longblob"} => v \in {"bytes", "long bytes"} /\ f = "bytes"
  /\ x = "date" => (v = "day" /\ f = "time") \/ (v = "zero" /\ f = "text")
  /\ x \in {"datetime", "timestamp"} => (v \in {"second", "micro"} /\ f = "time") \/ (v = "zero" /\ f = "text")
  /\ x = "time" => v \in {"clock", "tick", "span"} /\ f = "text"
  /\ x = "json" => v = "json" /\ f = "text"
  /\ x \in {"text", "longtext"} => v \in {"short", "long"} /\ f = "bytes"
  /\ x \in {"char", "varchar", "enum"} => v \in {"char", "short"} /\ f = "text"

LEMMA MysqlValues ==
  ASSUME NEW x, NEW v \in Values("mysql", x), NEW f \in Yields("mysql", x, v)
  PROVE  MysqlHolds(x, v, f)
<1>1. x \in {"tinyint", "year"} => v = "i16" /\ f = "number"
  BY DEF Values, Yields, MysqlYields, Short
<1>2. x = "smallint" => v \in {"i16", "u16"} /\ f = "number"
  BY DEF Values, Yields, MysqlYields, Short
<1>3. x = "mediumint" => v \in {"i16", "i32"} /\ f = "number"
  BY DEF Values, Yields, MysqlYields, Short
<1>4. x = "int" => (v = "i32" /\ f = "number") \/ (v = "u32" /\ f = "text")
  BY DEF Values, Yields, MysqlYields, Short
<1>5. x = "bigint" => (v = "i64" /\ f = "number") \/ (v = "u64" /\ f = "text")
  BY DEF Values, Yields, MysqlYields, Short
<1>6. x = "decimal" => (v = "cents" /\ f = "number") \/ (v = "decimal" /\ f = "rounded")
  BY DEF Values, Yields, MysqlYields, Short
<1>7. x = "float" => v = "float" /\ f = "rounded"
  BY DEF Values, Yields, MysqlYields, Short
<1>8. x = "double" => v = "double" /\ f = "number"
  BY DEF Values, Yields, MysqlYields, Short
<1>9. x = "bit" => v \in {"bit", "bits"} /\ f \in {"text", "bytes"}
  BY DEF Values, Yields, MysqlYields, Short
<1>10. x \in {"binary", "varbinary"} => v = "bytes" /\ f \in {"text", "bytes"}
  BY DEF Values, Yields, MysqlYields, Short
<1>11. x \in {"blob", "longblob"} => v \in {"bytes", "long bytes"} /\ f = "bytes"
  BY DEF Values, Yields, MysqlYields, Short
<1>12. x = "date" => (v = "day" /\ f = "time") \/ (v = "zero" /\ f = "text")
  BY DEF Values, Yields, MysqlYields, Short
<1>13. x \in {"datetime", "timestamp"} => (v \in {"second", "micro"} /\ f = "time") \/ (v = "zero" /\ f = "text")
  BY DEF Values, Yields, MysqlYields, Short
<1>14. x = "time" => v \in {"clock", "tick", "span"} /\ f = "text"
  BY DEF Values, Yields, MysqlYields, Short
<1>15. x = "json" => v = "json" /\ f = "text"
  BY DEF Values, Yields, MysqlYields, Short
<1>16. x \in {"text", "longtext"} => v \in {"short", "long"} /\ f = "bytes"
  BY DEF Values, Yields, MysqlYields, Short
<1>17. x \in {"char", "varchar", "enum"} => v \in {"char", "short"} /\ f = "text"
  BY DEF Values, Yields, MysqlYields, Short
<1>18. QED BY <1>1, <1>2, <1>3, <1>4, <1>5, <1>6, <1>7, <1>8, <1>9, <1>10, <1>11, <1>12, <1>13, <1>14, <1>15, <1>16, <1>17
            DEF MysqlHolds

PgHolds(x, v, f) ==
  /\ x = "int2" => v = "i16" /\ f = "number"
  /\ x = "int4" => v = "i32" /\ f = "number"
  /\ x = "int8" => v = "i64" /\ f = "number"
  /\ x = "float4" => v = "float" /\ f = "number"
  /\ x = "float8" => v = "double" /\ f = "number"
  /\ x = "numeric" => (v = "cents" /\ f = "number") \/ (v = "decimal" /\ f = "rounded")
  /\ x = "money" => v = "cents" /\ f = "text"
  /\ x = "bool" => v = "bool" /\ f = "number"
  /\ x \in {"varchar", "text", "citext", "array"} => v \in {"short", "long"} /\ f = "text"
  /\ x = "bytea" => v \in {"bytes", "long bytes"} /\ f = "bytes"
  /\ x \in {"bit", "varbit"} => v \in {"bit", "bits"} /\ f = "text"
  /\ x \in {"timestamp", "timestamptz"} => v \in {"second", "micro"} /\ f = "time"
  /\ x = "date" => v = "day" /\ f = "time"
  /\ x = "time" => v \in {"clock", "tick"} /\ f = "text"
  /\ x = "timetz" => v = "zoned" /\ f = "text"
  /\ x \in {"json", "jsonb"} => v = "json" /\ f = "text"
  /\ x \in {"bpchar", "name", "interval", "uuid", "inet", "macaddr"} => v \in {"char", "short"} /\ f = "text"

LEMMA PgValues ==
  ASSUME NEW x, NEW v \in Values("postgresql", x), NEW f \in Yields("postgresql", x, v)
  PROVE  PgHolds(x, v, f)
<1>1. x = "int2" => v = "i16" /\ f = "number"
  BY DEF Values, Yields, PgYields, Short
<1>2. x = "int4" => v = "i32" /\ f = "number"
  BY DEF Values, Yields, PgYields, Short
<1>3. x = "int8" => v = "i64" /\ f = "number"
  BY DEF Values, Yields, PgYields, Short
<1>4. x = "float4" => v = "float" /\ f = "number"
  BY DEF Values, Yields, PgYields, Short
<1>5. x = "float8" => v = "double" /\ f = "number"
  BY DEF Values, Yields, PgYields, Short
<1>6. x = "numeric" => (v = "cents" /\ f = "number") \/ (v = "decimal" /\ f = "rounded")
  BY DEF Values, Yields, PgYields, Short
<1>7. x = "money" => v = "cents" /\ f = "text"
  BY DEF Values, Yields, PgYields, Short
<1>8. x = "bool" => v = "bool" /\ f = "number"
  BY DEF Values, Yields, PgYields, Short
<1>9. x \in {"varchar", "text", "citext", "array"} => v \in {"short", "long"} /\ f = "text"
  BY DEF Values, Yields, PgYields, Short
<1>10. x = "bytea" => v \in {"bytes", "long bytes"} /\ f = "bytes"
  BY DEF Values, Yields, PgYields, Short
<1>11. x \in {"bit", "varbit"} => v \in {"bit", "bits"} /\ f = "text"
  BY DEF Values, Yields, PgYields, Short
<1>12. x \in {"timestamp", "timestamptz"} => v \in {"second", "micro"} /\ f = "time"
  BY DEF Values, Yields, PgYields, Short
<1>13. x = "date" => v = "day" /\ f = "time"
  BY DEF Values, Yields, PgYields, Short
<1>14. x = "time" => v \in {"clock", "tick"} /\ f = "text"
  BY DEF Values, Yields, PgYields, Short
<1>15. x = "timetz" => v = "zoned" /\ f = "text"
  BY DEF Values, Yields, PgYields, Short
<1>16. x \in {"json", "jsonb"} => v = "json" /\ f = "text"
  BY DEF Values, Yields, PgYields, Short
<1>17. x \in {"bpchar", "name", "interval", "uuid", "inet", "macaddr"} => v \in {"char", "short"} /\ f = "text"
  BY DEF Values, Yields, PgYields, Short
<1>18. QED BY <1>1, <1>2, <1>3, <1>4, <1>5, <1>6, <1>7, <1>8, <1>9, <1>10, <1>11, <1>12, <1>13, <1>14, <1>15, <1>16, <1>17
            DEF PgHolds

SqliteHolds(x, v, f) ==
  /\ x \in {"INT", "INTEGER", "BIGINT"} => v \in {"i32", "i64"} /\ f = "number"
  /\ x \in {"VARCHAR", "CLOB", "TEXT"} => v \in {"short", "long"} /\ f = "text"
  /\ x \in {"BLOB", ""} => v \in {"bytes", "long bytes"} /\ f = "bytes"
  /\ x \in {"REAL", "FLOAT", "DOUBLE"} => v = "double" /\ f = "number"
  /\ x \in {"NUMERIC", "DECIMAL"} => v \in {"i32", "cents"} /\ f = "number"
  /\ x = "DATE" => v = "day" /\ f = "text"
  /\ x \in {"DATETIME", "TIMESTAMP"} => v \in {"second", "micro"} /\ f = "text"
  /\ x = "TIME" => v = "clock" /\ f = "text"
  /\ x = "BOOLEAN" => v = "bool" /\ f = "number"

LEMMA SqliteValues ==
  ASSUME NEW x, NEW v \in Values("sqlite", x), NEW f \in Yields("sqlite", x, v)
  PROVE  SqliteHolds(x, v, f)
  BY DEF SqliteHolds, Values, Yields, SqliteYields, Short, SqliteInt, Text, Blob, Real, Numeric, HasDate, HasTime

SqliteTakes(y, v, f) ==
  (\/ y = "INTEGER" /\ v \in {"i16", "u16", "i32", "u32", "i64", "bool"} /\ f \in {"number", "text", "time"}
   \/ y = "REAL" /\ v \in {"i16", "u16", "i32", "float", "double", "cents"} /\ f = "number"
   \/ y = "BLOB" /\ v \in {"bytes", "long bytes", "bit", "bits"} /\ f = "bytes"
   \/ y \in {"TEXT", "DATETIME", "DATE", "TIME"}
        /\ v \in {"char", "short", "day", "second", "micro", "zero", "long", "json", "clock", "tick", "zoned", "span"} /\ f \in {"number", "text", "time"} /\ (f = "time" => v # "micro"))
  => Stores("sqlite", y, f, v)

LEMMA SqliteKeeps == ASSUME NEW y, NEW v, NEW f PROVE SqliteTakes(y, v, f)
  BY DEF SqliteTakes, Stores, Keeps, Binary, Ints32, Ints64, Short, Days

PgTakes(y, v, f) ==
  (\/ y = "SMALLINT" /\ v = "i16" /\ f \in {"number", "text", "time"}
   \/ y \in {"INTEGER", "SERIAL"} /\ v \in {"i16", "u16", "i32"} /\ f \in {"number", "text", "time"}
   \/ y \in {"BIGINT", "BIGSERIAL"}
        /\ v \in {"i16", "u16", "i32", "u32", "i64"} /\ f \in {"number", "text", "time"}
   \/ y = "NUMERIC" /\ v \in {"i16", "u16", "i32", "u32", "i64", "u64", "cents", "decimal"} /\ f = "number"
   \/ y = "REAL" /\ v = "float" /\ f \in {"number", "text", "time"}
   \/ y = "DOUBLE PRECISION" /\ v \in {"float", "double"} /\ f \in {"number", "text", "time"}
   \/ y = "BIT" /\ v = "bit" /\ f = "number"
   \/ y = "CHAR" /\ v = "char" /\ f \in {"number", "text", "time"}
   \/ y = "BYTEA" /\ v \in {"bytes", "long bytes"} /\ f = "bytes"
   \/ y = "DATE" /\ v = "day" /\ f \in {"number", "text", "time"}
   \/ y = "TIMESTAMP" /\ v \in {"day", "second", "micro"} /\ f \in {"number", "text", "time"}
   \/ y = "TIME" /\ v \in {"clock", "tick"} /\ f \in {"number", "text", "time"}
   \/ y = "JSONB" /\ v = "json" /\ f \in {"number", "text", "time"}
   \/ y = "BOOLEAN" /\ v = "bool" /\ f \in {"number", "text", "time"}
   \/ y \in {"VARCHAR", "TEXT"} /\ v \in {"char", "short", "long"} /\ f \in {"number", "text", "time"})
  => Stores("postgresql", y, f, v)

LEMMA PgKeeps == ASSUME NEW y, NEW v, NEW f PROVE PgTakes(y, v, f)
  BY DEF PgTakes, Stores, Keeps, Binary, Ints32, Ints64, Short, Days

MysqlTakes(y, v, f) ==
  (\/ y = "TINYINT(1)" /\ v = "bool" /\ f \in {"number", "text", "time"}
   \/ y = "SMALLINT" /\ v = "i16" /\ f \in {"number", "text", "time"}
   \/ y = "INT" /\ v \in {"i16", "u16", "i32"} /\ f \in {"number", "text", "time"}
   \/ y = "BIGINT" /\ v \in {"i16", "u16", "i32", "u32", "i64"} /\ f \in {"number", "text", "time"}
   \/ y = "FLOAT" /\ v = "float" /\ f \in {"number", "text", "time"}
   \/ y = "DOUBLE" /\ v \in {"float", "double"} /\ f \in {"number", "text", "time"}
   \/ y = "DECIMAL" /\ v \in {"i16", "u16", "i32", "u32"} /\ f \in {"number", "text", "time"}
   \/ y = "DECIMAL(19,2)" /\ v \in {"i16", "u16", "i32", "u32", "cents"} /\ f = "number"
   \/ y = "DECIMAL(20,10)" /\ v \in {"i16", "u16", "i32", "cents"} /\ f = "number"
   \/ y = "BIT" /\ v = "bit" /\ f = "number"
   \/ y = "CHAR(1)" /\ v = "char" /\ f \in {"number", "text", "time"}
   \/ y \in {"CHAR(36)", "VARCHAR(17)", "VARCHAR(45)", "VARCHAR(64)", "VARCHAR(255)", "TEXT"}
        /\ v \in {"char", "short"} /\ f \in {"number", "text", "time"}
   \/ y = "VARBINARY(255)" /\ v \in {"bit", "bits", "bytes"} /\ f = "bytes"
   \/ y = "BLOB" /\ v = "bytes" /\ f = "bytes"
   \/ y = "LONGBLOB" /\ v \in {"bytes", "long bytes"} /\ f = "bytes"
   \/ y = "DATE" /\ v = "day" /\ f \in {"number", "text", "time"}
   \/ y = "DATETIME" /\ v \in {"day", "second"} /\ f \in {"number", "text", "time"}
   \/ y = "TIME" /\ v \in {"clock", "span"} /\ f \in {"number", "text", "time"}
   \/ y = "LONGTEXT" /\ v \in {"char", "short", "long", "json"} /\ f \in {"number", "text", "time"})
  => Stores("mysql", y, f, v)

LEMMA MysqlKeeps == ASSUME NEW y, NEW v, NEW f PROVE MysqlTakes(y, v, f)
  BY DEF MysqlTakes, Stores, Keeps, Binary, Ints32, Ints64, Short, Days

\* The types keep what they were made from, apart from the pairs in Lossy, of which none does.
LEMMA M2SFit ==
  ASSUME job.tool = "mysql2sqlite", NEW x \in Types("mysql")
  PROVE  Fit("mysql", x, "sqlite", M2SType(x))
<1> DEFINE y == M2SType(x)
<1>1. CASE x = "bigint"
  <2>1. y = "INTEGER" /\ <<x, "INTEGER">> \in Lossy
    BY <1>1 DEF M2SType, Lossy
  <2>2. "u64" \in Values("mysql", x)
    BY <1>1 DEF Values, Short
  <2>3. "text" \in Yields("mysql", x, "u64")
    BY <1>1 DEF Yields, MysqlYields
  <2>4. ~Stores("sqlite", "INTEGER", "text", "u64")
    BY DEF Stores, Keeps, Binary, Ints32, Ints64, Short, Days
  <2>5. QED BY <2>1, <2>2, <2>3, <2>4 DEF Fit, Arrives
<1>2. CASE x = "decimal"
  <2>1. y = "REAL" /\ <<x, "REAL">> \in Lossy
    BY <1>2 DEF M2SType, Lossy
  <2>2. "decimal" \in Values("mysql", x)
    BY <1>2 DEF Values, Short
  <2>3. "rounded" \in Yields("mysql", x, "decimal")
    BY <1>2 DEF Yields, MysqlYields
  <2>4. ~Stores("sqlite", "REAL", "rounded", "decimal")
    BY DEF Stores, Keeps, Binary, Ints32, Ints64, Short, Days
  <2>5. QED BY <2>1, <2>2, <2>3, <2>4 DEF Fit, Arrives
<1>3. CASE x = "float"
  <2>1. y = "REAL" /\ <<x, "REAL">> \in Lossy
    BY <1>3 DEF M2SType, Lossy
  <2>2. "float" \in Values("mysql", x)
    BY <1>3 DEF Values, Short
  <2>3. "rounded" \in Yields("mysql", x, "float")
    BY <1>3 DEF Yields, MysqlYields
  <2>4. ~Stores("sqlite", "REAL", "rounded", "float")
    BY DEF Stores, Keeps, Binary, Ints32, Ints64, Short, Days
  <2>5. QED BY <2>1, <2>2, <2>3, <2>4 DEF Fit, Arrives
<1>4. CASE x = "bit"
  <2>1. y = "BLOB" /\ <<x, "BLOB">> \in Lossy
    BY <1>4 DEF M2SType, Lossy
  <2>2. "bit" \in Values("mysql", x)
    BY <1>4 DEF Values, Short
  <2>3. "text" \in Yields("mysql", x, "bit")
    BY <1>4 DEF Yields, MysqlYields
  <2>4. ~Stores("sqlite", "BLOB", "text", "bit")
    BY DEF Stores, Keeps, Binary, Ints32, Ints64, Short, Days
  <2>5. QED BY <2>1, <2>2, <2>3, <2>4 DEF Fit, Arrives
<1>5. CASE x \in {"binary", "varbinary"}
  <2>1. y = "BLOB" /\ <<x, "BLOB">> \in Lossy
    BY <1>5 DEF M2SType, Lossy
  <2>2. "bytes" \in Values("mysql", x)
    BY <1>5 DEF Values, Short
  <2>3. "text" \in Yields("mysql", x, "bytes")
    BY <1>5 DEF Yields, MysqlYields
  <2>4. ~Stores("sqlite", "BLOB", "text", "bytes")
    BY DEF Stores, Keeps, Binary, Ints32, Ints64, Short, Days
  <2>5. QED BY <2>1, <2>2, <2>3, <2>4 DEF Fit, Arrives
<1>6. CASE x \in {"datetime", "timestamp"}
  <2>1. y = "TEXT" /\ <<x, "TEXT">> \in Lossy
    BY <1>6 DEF M2SType, Lossy
  <2>2. "micro" \in Values("mysql", x)
    BY <1>6 DEF Values, Short
  <2>3. "time" \in Yields("mysql", x, "micro")
    BY <1>6 DEF Yields, MysqlYields
  <2>4. ~Stores("sqlite", "TEXT", "time", "micro")
    BY DEF Stores, Keeps, Binary, Ints32, Ints64, Short, Days
  <2>5. QED BY <2>1, <2>2, <2>3, <2>4 DEF Fit, Arrives
<1>7. CASE x \in {"text", "longtext"}
  <2>1. y = "TEXT" /\ <<x, "TEXT">> \in Lossy
    BY <1>7 DEF M2SType, Lossy
  <2>2. "short" \in Values("mysql", x)
    BY <1>7 DEF Values, Short
  <2>3. "bytes" \in Yields("mysql", x, "short")
    BY <1>7 DEF Yields, MysqlYields
  <2>4. ~Stores("sqlite", "TEXT", "bytes", "short")
    BY DEF Stores, Keeps, Binary, Ints32, Ints64, Short, Days
  <2>5. QED BY <2>1, <2>2, <2>3, <2>4 DEF Fit, Arrives
<1>8. CASE x \notin {"bigint", "decimal", "float", "bit", "binary", "varbinary", "datetime", "timestamp",
                     "text", "longtext"}
  <2>1. x \in {"tinyint", "year", "smallint", "mediumint", "int"} => y = "INTEGER"
    BY DEF M2SType
  <2>2. x = "double" => y = "REAL"
    BY DEF M2SType
  <2>3. x \in {"blob", "longblob"} => y = "BLOB"
    BY DEF M2SType
  <2>4. x \in {"date", "time", "json", "char", "varchar", "enum"} => y = "TEXT"
    BY DEF M2SType
  <2>5. <<x, y>> \notin Lossy
    BY <1>8, <2>1, <2>2, <2>3, <2>4 DEF Types, Lossy
  <2>6. ASSUME NEW v \in Values("mysql", x), NEW f \in Yields("mysql", x, v)
        PROVE  Stores("sqlite", y, f, v)
    <3>1. MysqlHolds(x, v, f) /\ SqliteTakes(y, v, f)
      BY MysqlValues, SqliteKeeps
    <3>2. QED BY <3>1, <1>8, <2>1, <2>2, <2>3, <2>4
               DEF MysqlHolds, SqliteTakes, Types
  <2>7. QED BY <2>5, <2>6 DEF Fit, Arrives
<1>9. QED BY <1>1, <1>2, <1>3, <1>4, <1>5, <1>6, <1>7, <1>8

LEMMA M2PFit ==
  ASSUME job.tool = "mysql2postgresql", NEW x \in Types("mysql")
  PROVE  Fit("mysql", x, "postgresql", M2PType(x))
<1> DEFINE y == M2PType(x)
<1>1. CASE x = "smallint"
  <2>1. y = "SMALLINT" /\ <<x, "SMALLINT">> \in Lossy
    BY <1>1 DEF M2PType, Lossy
  <2>2. "u16" \in Values("mysql", x)
    BY <1>1 DEF Values, Short
  <2>3. "number" \in Yields("mysql", x, "u16")
    BY <1>1 DEF Yields, MysqlYields
  <2>4. ~Stores("postgresql", "SMALLINT", "number", "u16")
    BY DEF Stores, Keeps, Binary, Ints32, Ints64, Short, Days
  <2>5. QED BY <2>1, <2>2, <2>3, <2>4 DEF Fit, Arrives
<1>2. CASE x = "int"
  <2>1. y = "INTEGER" /\ <<x, "INTEGER">> \in Lossy
    BY <1>2 DEF M2PType, Lossy
  <2>2. "u32" \in Values("mysql", x)
    BY <1>2 DEF Values, Short
  <2>3. "text" \in Yields("mysql", x, "u32")
    BY <1>2 DEF Yields, MysqlYields
  <2>4. ~Stores("postgresql", "INTEGER", "text", "u32")
    BY DEF Stores, Keeps, Binary, Ints32, Ints64, Short, Days
  <2>5. QED BY <2>1, <2>2, <2>3, <2>4 DEF Fit, Arrives
<1>3. CASE x = "bigint"
  <2>1. y = "BIGINT" /\ <<x, "BIGINT">> \in Lossy
    BY <1>3 DEF M2PType, Lossy
  <2>2. "u64" \in Values("mysql", x)
    BY <1>3 DEF Values, Short
  <2>3. "text" \in Yields("mysql", x, "u64")
    BY <1>3 DEF Yields, MysqlYields
  <2>4. ~Stores("postgresql", "BIGINT", "text", "u64")
    BY DEF Stores, Keeps, Binary, Ints32, Ints64, Short, Days
  <2>5. QED BY <2>1, <2>2, <2>3, <2>4 DEF Fit, Arrives
<1>4. CASE x = "decimal"
  <2>1. y = "NUMERIC" /\ <<x, "NUMERIC">> \in Lossy
    BY <1>4 DEF M2PType, Lossy
  <2>2. "decimal" \in Values("mysql", x)
    BY <1>4 DEF Values, Short
  <2>3. "rounded" \in Yields("mysql", x, "decimal")
    BY <1>4 DEF Yields, MysqlYields
  <2>4. ~Stores("postgresql", "NUMERIC", "rounded", "decimal")
    BY DEF Stores, Keeps, Binary, Ints32, Ints64, Short, Days
  <2>5. QED BY <2>1, <2>2, <2>3, <2>4 DEF Fit, Arrives
<1>5. CASE x = "float"
  <2>1. y = "REAL" /\ <<x, "REAL">> \in Lossy
    BY <1>5 DEF M2PType, Lossy
  <2>2. "float" \in Values("mysql", x)
    BY <1>5 DEF Values, Short
  <2>3. "rounded" \in Yields("mysql", x, "float")
    BY <1>5 DEF Yields, MysqlYields
  <2>4. ~Stores("postgresql", "REAL", "rounded", "float")
    BY DEF Stores, Keeps, Binary, Ints32, Ints64, Short, Days
  <2>5. QED BY <2>1, <2>2, <2>3, <2>4 DEF Fit, Arrives
<1>6. CASE x = "bit"
  <2>1. y = "BIT" /\ <<x, "BIT">> \in Lossy
    BY <1>6 DEF M2PType, Lossy
  <2>2. "bit" \in Values("mysql", x)
    BY <1>6 DEF Values, Short
  <2>3. "text" \in Yields("mysql", x, "bit")
    BY <1>6 DEF Yields, MysqlYields
  <2>4. ~Stores("postgresql", "BIT", "text", "bit")
    BY DEF Stores, Keeps, Binary, Ints32, Ints64, Short, Days
  <2>5. QED BY <2>1, <2>2, <2>3, <2>4 DEF Fit, Arrives
<1>7. CASE x = "binary"
  <2>1. y = "BYTEA" /\ <<x, "BYTEA">> \in Lossy
    BY <1>7 DEF M2PType, Lossy
  <2>2. "bytes" \in Values("mysql", x)
    BY <1>7 DEF Values, Short
  <2>3. "text" \in Yields("mysql", x, "bytes")
    BY <1>7 DEF Yields, MysqlYields
  <2>4. ~Stores("postgresql", "BYTEA", "text", "bytes")
    BY DEF Stores, Keeps, Binary, Ints32, Ints64, Short, Days
  <2>5. QED BY <2>1, <2>2, <2>3, <2>4 DEF Fit, Arrives
<1>8. CASE x = "varbinary"
  <2>1. y = "VARCHAR" /\ <<x, "VARCHAR">> \in Lossy
    BY <1>8 DEF M2PType, Lossy
  <2>2. "bytes" \in Values("mysql", x)
    BY <1>8 DEF Values, Short
  <2>3. "text" \in Yields("mysql", x, "bytes")
    BY <1>8 DEF Yields, MysqlYields
  <2>4. ~Stores("postgresql", "VARCHAR", "text", "bytes")
    BY DEF Stores, Keeps, Binary, Ints32, Ints64, Short, Days
  <2>5. QED BY <2>1, <2>2, <2>3, <2>4 DEF Fit, Arrives
<1>9. CASE x = "date"
  <2>1. y = "DATE" /\ <<x, "DATE">> \in Lossy
    BY <1>9 DEF M2PType, Lossy
  <2>2. "zero" \in Values("mysql", x)
    BY <1>9 DEF Values, Short
  <2>3. "text" \in Yields("mysql", x, "zero")
    BY <1>9 DEF Yields, MysqlYields
  <2>4. ~Stores("postgresql", "DATE", "text", "zero")
    BY DEF Stores, Keeps, Binary, Ints32, Ints64, Short, Days
  <2>5. QED BY <2>1, <2>2, <2>3, <2>4 DEF Fit, Arrives
<1>10. CASE x \in {"datetime", "timestamp"}
  <2>1. y = "TIMESTAMP" /\ <<x, "TIMESTAMP">> \in Lossy
    BY <1>10 DEF M2PType, Lossy
  <2>2. "zero" \in Values("mysql", x)
    BY <1>10 DEF Values, Short
  <2>3. "text" \in Yields("mysql", x, "zero")
    BY <1>10 DEF Yields, MysqlYields
  <2>4. ~Stores("postgresql", "TIMESTAMP", "text", "zero")
    BY DEF Stores, Keeps, Binary, Ints32, Ints64, Short, Days
  <2>5. QED BY <2>1, <2>2, <2>3, <2>4 DEF Fit, Arrives
<1>11. CASE x = "time"
  <2>1. y = "TIME" /\ <<x, "TIME">> \in Lossy
    BY <1>11 DEF M2PType, Lossy
  <2>2. "span" \in Values("mysql", x)
    BY <1>11 DEF Values, Short
  <2>3. "text" \in Yields("mysql", x, "span")
    BY <1>11 DEF Yields, MysqlYields
  <2>4. ~Stores("postgresql", "TIME", "text", "span")
    BY DEF Stores, Keeps, Binary, Ints32, Ints64, Short, Days
  <2>5. QED BY <2>1, <2>2, <2>3, <2>4 DEF Fit, Arrives
<1>12. CASE x \in {"text", "longtext"}
  <2>1. y = "TEXT" /\ <<x, "TEXT">> \in Lossy
    BY <1>12 DEF M2PType, Lossy
  <2>2. "short" \in Values("mysql", x)
    BY <1>12 DEF Values, Short
  <2>3. "bytes" \in Yields("mysql", x, "short")
    BY <1>12 DEF Yields, MysqlYields
  <2>4. ~Stores("postgresql", "TEXT", "bytes", "short")
    BY DEF Stores, Keeps, Binary, Ints32, Ints64, Short, Days
  <2>5. QED BY <2>1, <2>2, <2>3, <2>4 DEF Fit, Arrives
<1>13. CASE x = "char"
  <2>1. y = "CHAR" /\ <<x, "CHAR">> \in Lossy
    BY <1>13 DEF M2PType, Lossy
  <2>2. "short" \in Values("mysql", x)
    BY <1>13 DEF Values, Short
  <2>3. "text" \in Yields("mysql", x, "short")
    BY <1>13 DEF Yields, MysqlYields
  <2>4. ~Stores("postgresql", "CHAR", "text", "short")
    BY DEF Stores, Keeps, Binary, Ints32, Ints64, Short, Days
  <2>5. QED BY <2>1, <2>2, <2>3, <2>4 DEF Fit, Arrives
<1>14. CASE x \notin {"smallint", "int", "bigint", "decimal", "float", "bit", "binary", "varbinary",
                      "date", "datetime", "timestamp", "time", "text", "longtext", "char"}
  <2>1. x \in {"tinyint", "year"} => y = "SMALLINT"
    BY DEF M2PType
  <2>2. x = "mediumint" => y = "INTEGER"
    BY DEF M2PType
  <2>3. x = "double" => y = "DOUBLE PRECISION"
    BY DEF M2PType
  <2>4. x \in {"blob", "longblob"} => y = "BYTEA"
    BY DEF M2PType
  <2>5. x = "json" => y = "JSONB"
    BY DEF M2PType
  <2>6. x = "varchar" => y = "VARCHAR"
    BY DEF M2PType
  <2>7. x = "enum" => y = "TEXT"
    BY DEF M2PType
  <2>8. <<x, y>> \notin Lossy
    BY <1>14, <2>1, <2>2, <2>3, <2>4, <2>5, <2>6, <2>7 DEF Types, Lossy
  <2>9. ASSUME NEW v \in Values("mysql", x), NEW f \in Yields("mysql", x, v)
        PROVE  Stores("postgresql", y, f, v)
    <3>1. MysqlHolds(x, v, f) /\ PgTakes(y, v, f)
      BY MysqlValues, PgKeeps
    <3>2. QED BY <3>1, <1>14, <2>1, <2>2, <2>3, <2>4, <2>5, <2>6, <2>7
               DEF MysqlHolds, PgTakes, Types
  <2>10. QED BY <2>8, <2>9 DEF Fit, Arrives
<1>15. QED BY <1>1, <1>2, <1>3, <1>4, <1>5, <1>6, <1>7, <1>8, <1>9, <1>10, <1>11, <1>12, <1>13, <1>14

LEMMA P2SFit ==
  ASSUME job.tool = "postgres2sqlite", NEW x \in Types("postgresql")
  PROVE  Fit("postgresql", x, "sqlite", P2SType(x))
<1> DEFINE y == P2SType(x)
<1>1. CASE x = "numeric"
  <2>1. y = "REAL" /\ <<x, "REAL">> \in Lossy
    BY <1>1 DEF P2SType, Lossy
  <2>2. "decimal" \in Values("postgresql", x)
    BY <1>1 DEF Values, Short
  <2>3. "rounded" \in Yields("postgresql", x, "decimal")
    BY <1>1 DEF Yields, PgYields
  <2>4. ~Stores("sqlite", "REAL", "rounded", "decimal")
    BY DEF Stores, Keeps, Binary, Ints32, Ints64, Short, Days
  <2>5. QED BY <2>1, <2>2, <2>3, <2>4 DEF Fit, Arrives
<1>2. CASE x = "money"
  <2>1. y = "REAL" /\ <<x, "REAL">> \in Lossy
    BY <1>2 DEF P2SType, Lossy
  <2>2. "cents" \in Values("postgresql", x)
    BY <1>2 DEF Values, Short
  <2>3. "text" \in Yields("postgresql", x, "cents")
    BY <1>2 DEF Yields, PgYields
  <2>4. ~Stores("sqlite", "REAL", "text", "cents")
    BY DEF Stores, Keeps, Binary, Ints32, Ints64, Short, Days
  <2>5. QED BY <2>1, <2>2, <2>3, <2>4 DEF Fit, Arrives
<1>3. CASE x \in {"bit", "varbit"}
  <2>1. y = "BLOB" /\ <<x, "BLOB">> \in Lossy
    BY <1>3 DEF P2SType, Lossy
  <2>2. "bit" \in Values("postgresql", x)
    BY <1>3 DEF Values, Short
  <2>3. "text" \in Yields("postgresql", x, "bit")
    BY <1>3 DEF Yields, PgYields
  <2>4. ~Stores("sqlite", "BLOB", "text", "bit")
    BY DEF Stores, Keeps, Binary, Ints32, Ints64, Short, Days
  <2>5. QED BY <2>1, <2>2, <2>3, <2>4 DEF Fit, Arrives
<1>4. CASE x \in {"timestamp", "timestamptz"}
  <2>1. y = "DATETIME" /\ <<x, "DATETIME">> \in Lossy
    BY <1>4 DEF P2SType, Lossy
  <2>2. "micro" \in Values("postgresql", x)
    BY <1>4 DEF Values, Short
  <2>3. "time" \in Yields("postgresql", x, "micro")
    BY <1>4 DEF Yields, PgYields
  <2>4. ~Stores("sqlite", "DATETIME", "time", "micro")
    BY DEF Stores, Keeps, Binary, Ints32, Ints64, Short, Days
  <2>5. QED BY <2>1, <2>2, <2>3, <2>4 DEF Fit, Arrives
<1>5. CASE x \notin {"numeric", "money", "bit", "varbit", "timestamp", "timestamptz"}
  <2>1. x \in {"int2", "int4", "int8", "bool"} => y = "INTEGER"
    BY DEF P2SType
  <2>2. x \in {"float4", "float8"} => y = "REAL"
    BY DEF P2SType
  <2>3. x \in {"varchar", "text", "citext", "array", "json", "jsonb", "bpchar", "name", "interval",
               "uuid", "inet", "macaddr"} => y = "TEXT"
    BY DEF P2SType
  <2>4. x = "bytea" => y = "BLOB"
    BY DEF P2SType
  <2>5. x = "date" => y = "DATE"
    BY DEF P2SType
  <2>6. x \in {"time", "timetz"} => y = "TIME"
    BY DEF P2SType
  <2>7. <<x, y>> \notin Lossy
    BY <1>5, <2>1, <2>2, <2>3, <2>4, <2>5, <2>6 DEF Types, Lossy
  <2>8. ASSUME NEW v \in Values("postgresql", x), NEW f \in Yields("postgresql", x, v)
        PROVE  Stores("sqlite", y, f, v)
    <3>1. PgHolds(x, v, f) /\ SqliteTakes(y, v, f)
      BY PgValues, SqliteKeeps
    <3>2. QED BY <3>1, <1>5, <2>1, <2>2, <2>3, <2>4, <2>5, <2>6
               DEF PgHolds, SqliteTakes, Types
  <2>9. QED BY <2>7, <2>8 DEF Fit, Arrives
<1>6. QED BY <1>1, <1>2, <1>3, <1>4, <1>5

LEMMA P2MFit ==
  ASSUME job.tool = "postgresql2mysql", NEW x \in Types("postgresql")
  PROVE  Fit("postgresql", x, "mysql", P2MType(x))
<1> DEFINE y == P2MType(x)
<1>1. CASE x = "numeric"
  <2>1. y = "DECIMAL" /\ <<x, "DECIMAL">> \in Lossy
    BY <1>1 DEF P2MType, Lossy
  <2>2. "cents" \in Values("postgresql", x)
    BY <1>1 DEF Values, Short
  <2>3. "number" \in Yields("postgresql", x, "cents")
    BY <1>1 DEF Yields, PgYields
  <2>4. ~Stores("mysql", "DECIMAL", "number", "cents")
    BY DEF Stores, Keeps, Binary, Ints32, Ints64, Short, Days
  <2>5. QED BY <2>1, <2>2, <2>3, <2>4 DEF Fit, Arrives
<1>2. CASE x = "money"
  <2>1. y = "DECIMAL(19,2)" /\ <<x, "DECIMAL(19,2)">> \in Lossy
    BY <1>2 DEF P2MType, Lossy
  <2>2. "cents" \in Values("postgresql", x)
    BY <1>2 DEF Values, Short
  <2>3. "text" \in Yields("postgresql", x, "cents")
    BY <1>2 DEF Yields, PgYields
  <2>4. ~Stores("mysql", "DECIMAL(19,2)", "text", "cents")
    BY DEF Stores, Keeps, Binary, Ints32, Ints64, Short, Days
  <2>5. QED BY <2>1, <2>2, <2>3, <2>4 DEF Fit, Arrives
<1>3. CASE x = "citext"
  <2>1. y = "TEXT" /\ <<x, "TEXT">> \in Lossy
    BY <1>3 DEF P2MType, Lossy
  <2>2. "long" \in Values("postgresql", x)
    BY <1>3 DEF Values, Short
  <2>3. "text" \in Yields("postgresql", x, "long")
    BY <1>3 DEF Yields, PgYields
  <2>4. ~Stores("mysql", "TEXT", "text", "long")
    BY DEF Stores, Keeps, Binary, Ints32, Ints64, Short, Days
  <2>5. QED BY <2>1, <2>2, <2>3, <2>4 DEF Fit, Arrives
<1>4. CASE x = "bytea"
  <2>1. y = "BLOB" /\ <<x, "BLOB">> \in Lossy
    BY <1>4 DEF P2MType, Lossy
  <2>2. "long bytes" \in Values("postgresql", x)
    BY <1>4 DEF Values, Short
  <2>3. "bytes" \in Yields("postgresql", x, "long bytes")
    BY <1>4 DEF Yields, PgYields
  <2>4. ~Stores("mysql", "BLOB", "bytes", "long bytes")
    BY DEF Stores, Keeps, Binary, Ints32, Ints64, Short, Days
  <2>5. QED BY <2>1, <2>2, <2>3, <2>4 DEF Fit, Arrives
<1>5. CASE x = "bit"
  <2>1. y = "BIT" /\ <<x, "BIT">> \in Lossy
    BY <1>5 DEF P2MType, Lossy
  <2>2. "bit" \in Values("postgresql", x)
    BY <1>5 DEF Values, Short
  <2>3. "text" \in Yields("postgresql", x, "bit")
    BY <1>5 DEF Yields, PgYields
  <2>4. ~Stores("mysql", "BIT", "text", "bit")
    BY DEF Stores, Keeps, Binary, Ints32, Ints64, Short, Days
  <2>5. QED BY <2>1, <2>2, <2>3, <2>4 DEF Fit, Arrives
<1>6. CASE x = "varbit"
  <2>1. y = "VARBINARY(255)" /\ <<x, "VARBINARY(255)">> \in Lossy
    BY <1>6 DEF P2MType, Lossy
  <2>2. "bit" \in Values("postgresql", x)
    BY <1>6 DEF Values, Short
  <2>3. "text" \in Yields("postgresql", x, "bit")
    BY <1>6 DEF Yields, PgYields
  <2>4. ~Stores("mysql", "VARBINARY(255)", "text", "bit")
    BY DEF Stores, Keeps, Binary, Ints32, Ints64, Short, Days
  <2>5. QED BY <2>1, <2>2, <2>3, <2>4 DEF Fit, Arrives
<1>7. CASE x \in {"timestamp", "timestamptz"}
  <2>1. y = "DATETIME" /\ <<x, "DATETIME">> \in Lossy
    BY <1>7 DEF P2MType, Lossy
  <2>2. "micro" \in Values("postgresql", x)
    BY <1>7 DEF Values, Short
  <2>3. "time" \in Yields("postgresql", x, "micro")
    BY <1>7 DEF Yields, PgYields
  <2>4. ~Stores("mysql", "DATETIME", "time", "micro")
    BY DEF Stores, Keeps, Binary, Ints32, Ints64, Short, Days
  <2>5. QED BY <2>1, <2>2, <2>3, <2>4 DEF Fit, Arrives
<1>8. CASE x = "time"
  <2>1. y = "TIME" /\ <<x, "TIME">> \in Lossy
    BY <1>8 DEF P2MType, Lossy
  <2>2. "tick" \in Values("postgresql", x)
    BY <1>8 DEF Values, Short
  <2>3. "text" \in Yields("postgresql", x, "tick")
    BY <1>8 DEF Yields, PgYields
  <2>4. ~Stores("mysql", "TIME", "text", "tick")
    BY DEF Stores, Keeps, Binary, Ints32, Ints64, Short, Days
  <2>5. QED BY <2>1, <2>2, <2>3, <2>4 DEF Fit, Arrives
<1>9. CASE x = "timetz"
  <2>1. y = "TIME" /\ <<x, "TIME">> \in Lossy
    BY <1>9 DEF P2MType, Lossy
  <2>2. "zoned" \in Values("postgresql", x)
    BY <1>9 DEF Values, Short
  <2>3. "text" \in Yields("postgresql", x, "zoned")
    BY <1>9 DEF Yields, PgYields
  <2>4. ~Stores("mysql", "TIME", "text", "zoned")
    BY DEF Stores, Keeps, Binary, Ints32, Ints64, Short, Days
  <2>5. QED BY <2>1, <2>2, <2>3, <2>4 DEF Fit, Arrives
<1>10. CASE x = "bpchar"
  <2>1. y = "CHAR(1)" /\ <<x, "CHAR(1)">> \in Lossy
    BY <1>10 DEF P2MType, Lossy
  <2>2. "short" \in Values("postgresql", x)
    BY <1>10 DEF Values, Short
  <2>3. "text" \in Yields("postgresql", x, "short")
    BY <1>10 DEF Yields, PgYields
  <2>4. ~Stores("mysql", "CHAR(1)", "text", "short")
    BY DEF Stores, Keeps, Binary, Ints32, Ints64, Short, Days
  <2>5. QED BY <2>1, <2>2, <2>3, <2>4 DEF Fit, Arrives
<1>11. CASE x \notin {"numeric", "money", "citext", "bytea", "bit", "varbit", "timestamp", "timestamptz",
                      "time", "timetz", "bpchar"}
  <2>1. x = "int2" => y = "SMALLINT"
    BY DEF P2MType
  <2>2. x = "int4" => y = "INT"
    BY DEF P2MType
  <2>3. x = "int8" => y = "BIGINT"
    BY DEF P2MType
  <2>4. x = "float4" => y = "FLOAT"
    BY DEF P2MType
  <2>5. x = "float8" => y = "DOUBLE"
    BY DEF P2MType
  <2>6. x = "bool" => y = "TINYINT(1)"
    BY DEF P2MType
  <2>7. x \in {"varchar", "text", "array", "json", "jsonb"} => y = "LONGTEXT"
    BY DEF P2MType
  <2>8. x = "date" => y = "DATE"
    BY DEF P2MType
  <2>9. x \in {"name", "interval"} => y = "VARCHAR(64)"
    BY DEF P2MType
  <2>10. x = "uuid" => y = "CHAR(36)"
    BY DEF P2MType
  <2>11. x = "inet" => y = "VARCHAR(45)"
    BY DEF P2MType
  <2>12. x = "macaddr" => y = "VARCHAR(17)"
    BY DEF P2MType
  <2>13. <<x, y>> \notin Lossy
    BY <1>11, <2>1, <2>2, <2>3, <2>4, <2>5, <2>6, <2>7, <2>8, <2>9, <2>10, <2>11, <2>12 DEF Types, Lossy
  <2>14. ASSUME NEW v \in Values("postgresql", x), NEW f \in Yields("postgresql", x, v)
        PROVE  Stores("mysql", y, f, v)
    <3>1. PgHolds(x, v, f) /\ MysqlTakes(y, v, f)
      BY PgValues, MysqlKeeps
    <3>2. QED BY <3>1, <1>11, <2>1, <2>2, <2>3, <2>4, <2>5, <2>6, <2>7, <2>8, <2>9, <2>10, <2>11, <2>12
               DEF PgHolds, MysqlTakes, Types
  <2>15. QED BY <2>13, <2>14 DEF Fit, Arrives
<1>12. QED BY <1>1, <1>2, <1>3, <1>4, <1>5, <1>6, <1>7, <1>8, <1>9, <1>10, <1>11

LEMMA S2MFit ==
  ASSUME job.tool = "sqlite2mysql", NEW x \in Types("sqlite")
  PROVE  Fit("sqlite", x, "mysql", S2MType(x))
<1> DEFINE y == S2MType(x)
<1>1. CASE x \in {"VARCHAR", "CLOB", "TEXT"}
  <2>1. y = "TEXT" /\ <<x, "TEXT">> \in Lossy
    BY <1>1 DEF S2MType, Lossy, SqliteInt, Text, Blob, Real, Numeric, HasDate, HasTime
  <2>2. "long" \in Values("sqlite", x)
    BY <1>1 DEF Values, Short, SqliteInt, Text, Blob, Real, Numeric, HasDate, HasTime
  <2>3. "text" \in Yields("sqlite", x, "long")
    BY <1>1 DEF Yields, SqliteYields, SqliteInt, Text, Blob, Real, Numeric, HasDate, HasTime
  <2>4. ~Stores("mysql", "TEXT", "text", "long")
    BY DEF Stores, Keeps, Binary, Ints32, Ints64, Short, Days
  <2>5. QED BY <2>1, <2>2, <2>3, <2>4 DEF Fit, Arrives
<1>2. CASE x = "DATETIME"
  <2>1. y = "DATE" /\ <<x, "DATE">> \in Lossy
    BY <1>2 DEF S2MType, Lossy, SqliteInt, Text, Blob, Real, Numeric, HasDate, HasTime
  <2>2. "second" \in Values("sqlite", x)
    BY <1>2 DEF Values, Short, SqliteInt, Text, Blob, Real, Numeric, HasDate, HasTime
  <2>3. "text" \in Yields("sqlite", x, "second")
    BY <1>2 DEF Yields, SqliteYields, SqliteInt, Text, Blob, Real, Numeric, HasDate, HasTime
  <2>4. ~Stores("mysql", "DATE", "text", "second")
    BY DEF Stores, Keeps, Binary, Ints32, Ints64, Short, Days
  <2>5. QED BY <2>1, <2>2, <2>3, <2>4 DEF Fit, Arrives
<1>3. CASE x = "TIMESTAMP"
  <2>1. y = "DATETIME" /\ <<x, "DATETIME">> \in Lossy
    BY <1>3 DEF S2MType, Lossy, SqliteInt, Text, Blob, Real, Numeric, HasDate, HasTime
  <2>2. "micro" \in Values("sqlite", x)
    BY <1>3 DEF Values, Short, SqliteInt, Text, Blob, Real, Numeric, HasDate, HasTime
  <2>3. "text" \in Yields("sqlite", x, "micro")
    BY <1>3 DEF Yields, SqliteYields, SqliteInt, Text, Blob, Real, Numeric, HasDate, HasTime
  <2>4. ~Stores("mysql", "DATETIME", "text", "micro")
    BY DEF Stores, Keeps, Binary, Ints32, Ints64, Short, Days
  <2>5. QED BY <2>1, <2>2, <2>3, <2>4 DEF Fit, Arrives
<1>4. CASE x = "TIME"
  <2>1. y = "DATETIME" /\ <<x, "DATETIME">> \in Lossy
    BY <1>4 DEF S2MType, Lossy, SqliteInt, Text, Blob, Real, Numeric, HasDate, HasTime
  <2>2. "clock" \in Values("sqlite", x)
    BY <1>4 DEF Values, Short, SqliteInt, Text, Blob, Real, Numeric, HasDate, HasTime
  <2>3. "text" \in Yields("sqlite", x, "clock")
    BY <1>4 DEF Yields, SqliteYields, SqliteInt, Text, Blob, Real, Numeric, HasDate, HasTime
  <2>4. ~Stores("mysql", "DATETIME", "text", "clock")
    BY DEF Stores, Keeps, Binary, Ints32, Ints64, Short, Days
  <2>5. QED BY <2>1, <2>2, <2>3, <2>4 DEF Fit, Arrives
<1>5. CASE x \notin {"VARCHAR", "CLOB", "TEXT", "DATETIME", "TIMESTAMP", "TIME"}
  <2>1. x \in {"INT", "INTEGER", "BIGINT"} => y = "BIGINT"
    BY DEF S2MType, SqliteInt, Text, Blob, Real, Numeric, HasDate, HasTime
  <2>2. x \in {"BLOB", ""} => y = "LONGBLOB"
    BY DEF S2MType, SqliteInt, Text, Blob, Real, Numeric, HasDate, HasTime
  <2>3. x \in {"REAL", "FLOAT", "DOUBLE"} => y = "DOUBLE"
    BY DEF S2MType, SqliteInt, Text, Blob, Real, Numeric, HasDate, HasTime
  <2>4. x \in {"NUMERIC", "DECIMAL"} => y = "DECIMAL(20,10)"
    BY DEF S2MType, SqliteInt, Text, Blob, Real, Numeric, HasDate, HasTime
  <2>5. x = "DATE" => y = "DATE"
    BY DEF S2MType, SqliteInt, Text, Blob, Real, Numeric, HasDate, HasTime
  <2>6. x = "BOOLEAN" => y = "TINYINT(1)"
    BY DEF S2MType, SqliteInt, Text, Blob, Real, Numeric, HasDate, HasTime
  <2>7. <<x, y>> \notin Lossy
    BY <1>5, <2>1, <2>2, <2>3, <2>4, <2>5, <2>6 DEF Types, Lossy, SqliteInt, Text, Blob, Real, Numeric, HasDate, HasTime
  <2>8. ASSUME NEW v \in Values("sqlite", x), NEW f \in Yields("sqlite", x, v)
        PROVE  Stores("mysql", y, f, v)
    <3>1. SqliteHolds(x, v, f) /\ MysqlTakes(y, v, f)
      BY SqliteValues, MysqlKeeps
    <3>2. QED BY <3>1, <1>5, <2>1, <2>2, <2>3, <2>4, <2>5, <2>6
               DEF SqliteHolds, MysqlTakes, Types, SqliteInt, Text, Blob, Real, Numeric, HasDate, HasTime
  <2>9. QED BY <2>7, <2>8 DEF Fit, Arrives
<1>6. QED BY <1>1, <1>2, <1>3, <1>4, <1>5

LEMMA S2PFit ==
  ASSUME job.tool = "sqlite2postgres", NEW x \in Types("sqlite")
  PROVE  Fit("sqlite", x, "postgresql", S2PType(x))
<1> DEFINE y == S2PType(x)
<1>1. CASE x = "DATETIME"
  <2>1. y = "DATE" /\ <<x, "DATE">> \in Lossy
    BY <1>1 DEF S2PType, Lossy, SqliteInt, Text, Blob, Real, Numeric, HasDate, HasTime
  <2>2. "second" \in Values("sqlite", x)
    BY <1>1 DEF Values, Short, SqliteInt, Text, Blob, Real, Numeric, HasDate, HasTime
  <2>3. "text" \in Yields("sqlite", x, "second")
    BY <1>1 DEF Yields, SqliteYields, SqliteInt, Text, Blob, Real, Numeric, HasDate, HasTime
  <2>4. ~Stores("postgresql", "DATE", "text", "second")
    BY DEF Stores, Keeps, Binary, Ints32, Ints64, Short, Days
  <2>5. QED BY <2>1, <2>2, <2>3, <2>4 DEF Fit, Arrives
<1>2. CASE x = "TIME"
  <2>1. y = "TIMESTAMP" /\ <<x, "TIMESTAMP">> \in Lossy
    BY <1>2 DEF S2PType, Lossy, SqliteInt, Text, Blob, Real, Numeric, HasDate, HasTime
  <2>2. "clock" \in Values("sqlite", x)
    BY <1>2 DEF Values, Short, SqliteInt, Text, Blob, Real, Numeric, HasDate, HasTime
  <2>3. "text" \in Yields("sqlite", x, "clock")
    BY <1>2 DEF Yields, SqliteYields, SqliteInt, Text, Blob, Real, Numeric, HasDate, HasTime
  <2>4. ~Stores("postgresql", "TIMESTAMP", "text", "clock")
    BY DEF Stores, Keeps, Binary, Ints32, Ints64, Short, Days
  <2>5. QED BY <2>1, <2>2, <2>3, <2>4 DEF Fit, Arrives
<1>3. CASE x \notin {"DATETIME", "TIME"}
  <2>1. x \in {"INT", "INTEGER", "BIGINT"} => y = "BIGINT"
    BY DEF S2PType, SqliteInt, Text, Blob, Real, Numeric, HasDate, HasTime
  <2>2. x \in {"VARCHAR", "CLOB", "TEXT"} => y = "TEXT"
    BY DEF S2PType, SqliteInt, Text, Blob, Real, Numeric, HasDate, HasTime
  <2>3. x \in {"BLOB", ""} => y = "BYTEA"
    BY DEF S2PType, SqliteInt, Text, Blob, Real, Numeric, HasDate, HasTime
  <2>4. x \in {"REAL", "FLOAT", "DOUBLE"} => y = "DOUBLE PRECISION"
    BY DEF S2PType, SqliteInt, Text, Blob, Real, Numeric, HasDate, HasTime
  <2>5. x \in {"NUMERIC", "DECIMAL"} => y = "NUMERIC"
    BY DEF S2PType, SqliteInt, Text, Blob, Real, Numeric, HasDate, HasTime
  <2>6. x = "DATE" => y = "DATE"
    BY DEF S2PType, SqliteInt, Text, Blob, Real, Numeric, HasDate, HasTime
  <2>7. x = "TIMESTAMP" => y = "TIMESTAMP"
    BY DEF S2PType, SqliteInt, Text, Blob, Real, Numeric, HasDate, HasTime
  <2>8. x = "BOOLEAN" => y = "BOOLEAN"
    BY DEF S2PType, SqliteInt, Text, Blob, Real, Numeric, HasDate, HasTime
  <2>9. <<x, y>> \notin Lossy
    BY <1>3, <2>1, <2>2, <2>3, <2>4, <2>5, <2>6, <2>7, <2>8 DEF Types, Lossy, SqliteInt, Text, Blob, Real, Numeric, HasDate, HasTime
  <2>10. ASSUME NEW v \in Values("sqlite", x), NEW f \in Yields("sqlite", x, v)
        PROVE  Stores("postgresql", y, f, v)
    <3>1. SqliteHolds(x, v, f) /\ PgTakes(y, v, f)
      BY SqliteValues, PgKeeps
    <3>2. QED BY <3>1, <1>3, <2>1, <2>2, <2>3, <2>4, <2>5, <2>6, <2>7, <2>8
               DEF SqliteHolds, PgTakes, Types, SqliteInt, Text, Blob, Real, Numeric, HasDate, HasTime
  <2>11. QED BY <2>9, <2>10 DEF Fit, Arrives
<1>4. QED BY <1>1, <1>2, <1>3

\* The types of columns that count up, and of the keys of MySQL.
LEMMA M2PSerialFit ==
  ASSUME job.tool = "mysql2postgresql", NEW x \in {"tinyint", "smallint", "mediumint", "int", "bigint"}
  PROVE  Fit("mysql", x, "postgresql", M2PSerial(x))
<1>1. CASE x = "bigint"
  <2>1. M2PSerial(x) = "BIGSERIAL" /\ <<x, "BIGSERIAL">> \in Lossy
    BY <1>1 DEF M2PSerial, Lossy
  <2>2. "u64" \in Values("mysql", x) /\ "text" \in Yields("mysql", x, "u64")
    BY <1>1 DEF Values, Yields, MysqlYields
  <2>3. ~Stores("postgresql", "BIGSERIAL", "text", "u64")
    BY DEF Stores, Keeps, Ints32, Ints64
  <2>4. QED BY <2>1, <2>2, <2>3 DEF Fit, Arrives
<1>2. CASE x = "int"
  <2>1. M2PSerial(x) = "SERIAL" /\ <<x, "SERIAL">> \in Lossy
    BY <1>2 DEF M2PSerial, Lossy
  <2>2. "u32" \in Values("mysql", x) /\ "text" \in Yields("mysql", x, "u32")
    BY <1>2 DEF Values, Yields, MysqlYields
  <2>3. ~Stores("postgresql", "SERIAL", "text", "u32")
    BY DEF Stores, Keeps, Ints32
  <2>4. QED BY <2>1, <2>2, <2>3 DEF Fit, Arrives
<1>3. CASE x \in {"tinyint", "smallint", "mediumint"}
  <2>1. M2PSerial(x) = "SERIAL" /\ <<x, "SERIAL">> \notin Lossy
    BY <1>3 DEF M2PSerial, Lossy
  <2>2. ASSUME NEW v \in Values("mysql", x), NEW f \in Yields("mysql", x, v)
        PROVE  Stores("postgresql", "SERIAL", f, v)
    <3>1. MysqlHolds(x, v, f) /\ PgTakes("SERIAL", v, f)
      BY MysqlValues, PgKeeps
    <3>2. QED BY <3>1, <1>3 DEF MysqlHolds, PgTakes
  <2>3. QED BY <2>1, <2>2 DEF Fit, Arrives
<1>4. QED BY <1>1, <1>2, <1>3

LEMMA P2MKeyFit ==
  ASSUME job.tool = "postgresql2mysql", NEW x \in Types("postgresql"), P2MType(x) \in {"TEXT", "LONGTEXT", "BLOB"}
  PROVE  Fit("postgresql", x, "mysql", "VARCHAR(255)")
<1>1. x \in {"varchar", "text", "array", "json", "jsonb", "citext", "bytea"}
  BY DEF P2MType, Types
<1>2. <<x, "VARCHAR(255)">> \in {"varchar", "text", "array", "json", "jsonb", "citext", "bytea"} \X {"VARCHAR(255)"}
  BY <1>1
<1>3. <<x, "VARCHAR(255)">> \in Lossy
  BY <1>2 DEF Lossy
<1>4. \E v \in {"long", "json", "long bytes"} : v \in Values("postgresql", x)
  BY <1>1 DEF Values
<1>5. \A v : \E f \in Yields("postgresql", x, v) : TRUE
  BY DEF Yields, PgYields
<1>6. ASSUME NEW v \in {"long", "json", "long bytes"}, NEW f PROVE ~Stores("mysql", "VARCHAR(255)", f, v)
  BY <1>6 DEF Stores, Keeps, Short
<1>7. QED BY <1>3, <1>4, <1>5, <1>6 DEF Fit, Arrives

LEMMA S2PSerialFit ==
  ASSUME job.tool = "sqlite2postgres", NEW x \in SqliteInt
  PROVE  Fit("sqlite", x, "postgresql", "SERIAL")
<1>1. <<x, "SERIAL">> \in SqliteInt \X {"SERIAL"}
  OBVIOUS
<1>2. <<x, "SERIAL">> \in Lossy
  BY <1>1 DEF Lossy
<1>3. "i64" \in Values("sqlite", x)
  BY DEF Values, SqliteInt, Text, Blob, Real, Numeric
<1>4. "number" \in Yields("sqlite", x, "i64")
  BY DEF Yields, SqliteYields, SqliteInt, Blob
<1>5. ~Stores("postgresql", "SERIAL", "number", "i64")
  BY DEF Stores, Keeps, Ints32
<1>6. QED BY <1>2, <1>3, <1>4, <1>5 DEF Fit, Arrives

-----------------------------------------------------------------------------
(* What a program makes of a column.                                       *)

\* A default that the target accepts means what it was made from.
LEMMA DefaultsKept ==
  ASSUME NEW x
  PROVE  /\ SameDefault("none", M2SDefault("none")) /\ SameDefault("none", M2PDefault("none"))
         /\ x \in Defaults("postgresql") /\ P2SDefault(x) # "malformed" => SameDefault(x, P2SDefault(x))
         /\ x \in Defaults("postgresql") => SameDefault(x, P2MDefault(x))
         /\ x \in Defaults("sqlite") => SameDefault(x, S2MDefault(x)) /\ SameDefault(x, S2PDefault(x))
<1>1. /\ x \in Defaults("postgresql") =>
           x \in {"none", "null", "number", "string", "empty", "word", "quoted", "now", "clock", "true", "false",
                 "call", "today", "user", "utcnow", "nextval"}
      /\ x \in Defaults("sqlite") =>
           x \in {"none", "null", "number", "string", "empty", "word", "quoted", "now", "clock", "true", "false",
                 "call", "today"}
  BY DEF Defaults
<1>2. SameDefault("none", M2SDefault("none"))
  BY DEF M2SDefault, SameDefault
<1>3. SameDefault("none", M2PDefault("none"))
  BY DEF M2PDefault, SameDefault
<1>4. ASSUME x \in Defaults("postgresql"), P2SDefault(x) # "malformed" PROVE SameDefault(x, P2SDefault(x))
  BY <1>1, <1>4 DEF P2SDefault, SameDefault
<1>5. ASSUME x \in Defaults("postgresql") PROVE SameDefault(x, P2MDefault(x))
  BY <1>1, <1>5 DEF P2MDefault, SameDefault
<1>6. ASSUME x \in Defaults("sqlite") PROVE SameDefault(x, S2MDefault(x)) /\ SameDefault(x, S2PDefault(x))
  BY <1>1, <1>6 DEF S2MDefault, S2PDefault, SameDefault
<1>7. QED BY <1>2, <1>3, <1>4, <1>5, <1>6

\* A built column d against what was read of the old one.
KeptColumn(source, kind, c, d) ==
  /\ ~c.nullable => d.notnull \/ c.primary
  /\ c.unique => d.unique \/ c.primary
  /\ DefaultAccepted(kind, d) => d.auto \/ SameDefault(c.def, d.def)
  /\ Fit(source, c.type, kind, d.type)

\* A column as fetch_columns may read it.
ReadColumn(source, c) ==
  /\ c.type \in Types(source) /\ c.def \in Defaults(source)
  /\ c.nullable \in BOOLEAN /\ c.auto \in BOOLEAN /\ c.primary \in BOOLEAN /\ c.unique \in BOOLEAN
  /\ source = "mysql" => c.def = "none"
  /\ source = "mysql" /\ c.auto => c.type \in {"tinyint", "smallint", "mediumint", "int", "bigint"}
  /\ source = "postgresql" /\ c.auto => c.type \in {"int2", "int4", "int8"} /\ c.def = "nextval"
  /\ source = "sqlite" /\ c.auto => c.type \in SqliteInt /\ c.primary

\* The columns that are unique alone, those of the key aside.
LEMMA UniqueRead ==
  ASSUME NEW tool \in Tools, NEW t, IsTable(Main(tool).source, t), NEW i \in 1..Len(t.cols)
  PROVE  LET c == Columns(tool, t)[i]
             all == IF Main(tool).source = "postgresql" THEN ToSet(UniqueGroups(t)) ELSE ToSet(t.uniques)
         IN  c.unique = (/\ Main(tool).source # "sqlite" /\ t.cols[i].name \notin ToSet(t.pkey)
                         /\ << t.cols[i].name >> \in all)
<1>1. Main(tool).source \in Sources /\ DOMAIN t.cols = 1..Len(t.cols)
  BY ColumnsFacts
<1>2. CASE Main(tool).source = "mysql"
  <2>1. Columns(tool, t) = MysqlColumns(t)
    BY <1>2 DEF Columns
  <2>2. MysqlColumns(t)[i].unique = (t.cols[i].name \notin ToSet(t.pkey) /\ << t.cols[i].name >> \in ToSet(t.uniques))
    BY <1>1 DEF MysqlColumns
  <2>3. QED BY <1>2, <2>1, <2>2
<1>3. CASE Main(tool).source = "postgresql"
  <2>1. Columns(tool, t) = PgColumns(t)
    BY <1>3 DEF Columns
  <2>2. PgColumns(t)[i].unique = (~(t.cols[i].name \in ToSet(t.pkey)) /\ << t.cols[i].name >> \in ToSet(UniqueGroups(t)))
    BY <1>1 DEF PgColumns
  <2>3. QED BY <1>3, <2>1, <2>2
<1>4. CASE Main(tool).source = "sqlite"
  <2>1. Columns(tool, t) = SqliteColumns(t)
    BY <1>4 DEF Columns
  <2>2. SqliteColumns(t)[i].unique = FALSE
    BY <1>1 DEF SqliteColumns
  <2>3. QED BY <1>4, <2>1, <2>2
<1>5. QED BY <1>1, <1>2, <1>3, <1>4 DEF Sources

LEMMA M2SColumn ==
  ASSUME job.tool = "mysql2sqlite", NEW cols, NEW groups, NEW i \in DOMAIN cols, ReadColumn("mysql", cols[i])
  PROVE  KeptColumn("mysql", "sqlite", cols[i], M2SCreate(cols, groups).cols[i])
<1> DEFINE c == cols[i]
           d == M2SCreate(cols, groups).cols[i]
<1>1. CASE c.auto /\ c.primary
  <2>1. d = [name |-> c.name, type |-> "INTEGER", notnull |-> FALSE, def |-> "none",
             unique |-> FALSE, auto |-> TRUE, inline |-> TRUE]
    BY <1>1 DEF M2SCreate, Plain
  <2>2. M2SType(c.type) = "INTEGER"
    BY <1>1 DEF ReadColumn, M2SType
  <2>3. QED BY <1>1, <2>1, <2>2, M2SFit DEF ReadColumn, KeptColumn
<1>2. CASE ~(c.auto /\ c.primary)
  <2>1. d = Plain(c, M2SType(c.type), IF c.auto THEN "none" ELSE M2SDefault(c.def))
    BY <1>2 DEF M2SCreate
  <2>2. SameDefault(c.def, d.def)
    <3>1. d.def = IF c.auto THEN "none" ELSE M2SDefault(c.def)
      BY <2>1 DEF Plain
    <3>2. CASE c.auto
      BY <3>1, <3>2 DEF ReadColumn, SameDefault
    <3>3. CASE ~c.auto
      BY <3>1, <3>3, DefaultsKept DEF ReadColumn
    <3>4. QED BY <3>2, <3>3
  <2>3. d.notnull = ~c.nullable /\ d.unique = c.unique /\ d.type = M2SType(c.type)
    BY <2>1 DEF Plain
  <2>4. Fit("mysql", c.type, "sqlite", d.type)
    BY <2>3, M2SFit DEF ReadColumn
  <2>5. QED BY <2>2, <2>3, <2>4 DEF KeptColumn
<1>3. QED BY <1>1, <1>2

LEMMA M2PColumn ==
  ASSUME job.tool = "mysql2postgresql", NEW cols, NEW groups, NEW i \in DOMAIN cols, ReadColumn("mysql", cols[i])
  PROVE  KeptColumn("mysql", "postgresql", cols[i], M2PCreate(cols, groups).cols[i])
<1> DEFINE c == cols[i]
           d == M2PCreate(cols, groups).cols[i]
<1>1. CASE c.auto
  <2>1. d = [Plain(c, M2PSerial(c.type), "none") EXCEPT !.auto = TRUE]
    BY <1>1 DEF M2PCreate
  <2>2. d.auto /\ d.notnull = ~c.nullable /\ d.unique = c.unique /\ d.type = M2PSerial(c.type)
    BY <2>1 DEF Plain
  <2>3. Fit("mysql", c.type, "postgresql", d.type)
    BY <1>1, <2>2, M2PSerialFit DEF ReadColumn
  <2>4. QED BY <2>2, <2>3 DEF KeptColumn
<1>2. CASE ~c.auto
  <2>1. d = Plain(c, M2PType(c.type), M2PDefault(c.def))
    BY <1>2 DEF M2PCreate
  <2>2. d.notnull = ~c.nullable /\ d.unique = c.unique /\ d.type = M2PType(c.type) /\ d.def = M2PDefault(c.def)
    BY <2>1 DEF Plain
  <2>3. DefaultAccepted("postgresql", d) => SameDefault(c.def, d.def)
    BY <2>2, DefaultsKept DEF ReadColumn, DefaultAccepted
  <2>4. Fit("mysql", c.type, "postgresql", d.type)
    BY <2>2, M2PFit DEF ReadColumn
  <2>5. QED BY <2>2, <2>3, <2>4 DEF KeptColumn
<1>3. QED BY <1>1, <1>2

LEMMA P2SColumn ==
  ASSUME job.tool = "postgres2sqlite", NEW cols, NEW groups, NEW i \in DOMAIN cols, ReadColumn("postgresql", cols[i])
  PROVE  KeptColumn("postgresql", "sqlite", cols[i], P2SCreate(cols, groups).cols[i])
<1> DEFINE c == cols[i]
           d == P2SCreate(cols, groups).cols[i]
<1>1. CASE c.auto /\ c.primary
  <2>1. d = [Plain(c, "INTEGER", "none") EXCEPT !.unique = FALSE, !.auto = TRUE, !.inline = TRUE]
    BY <1>1 DEF P2SCreate
  <2>2. d.auto /\ d.notnull = ~c.nullable /\ d.type = "INTEGER"
    BY <2>1 DEF Plain
  <2>3. P2SType(c.type) = "INTEGER"
    BY <1>1 DEF ReadColumn, P2SType
  <2>4. Fit("postgresql", c.type, "sqlite", d.type)
    BY <2>2, <2>3, P2SFit DEF ReadColumn
  <2>5. QED BY <1>1, <2>2, <2>4 DEF KeptColumn
<1>2. CASE ~(c.auto /\ c.primary)
  <2>1. d = Plain(c, P2SType(c.type), IF c.auto THEN "none" ELSE P2SDefault(c.def))
    BY <1>2 DEF P2SCreate
  <2>2. DefaultAccepted("sqlite", d) => SameDefault(c.def, d.def)
    <3>1. d.def = IF c.auto THEN "none" ELSE P2SDefault(c.def)
      BY <2>1 DEF Plain
    <3>2. CASE c.auto
      BY <3>1, <3>2 DEF ReadColumn, SameDefault
    <3>3. CASE ~c.auto
      BY <3>1, <3>3, DefaultsKept DEF ReadColumn, DefaultAccepted
    <3>4. QED BY <3>2, <3>3
  <2>3. d.notnull = ~c.nullable /\ d.unique = c.unique /\ d.type = P2SType(c.type)
    BY <2>1 DEF Plain
  <2>4. Fit("postgresql", c.type, "sqlite", d.type)
    BY <2>3, P2SFit DEF ReadColumn
  <2>5. QED BY <2>2, <2>3, <2>4 DEF KeptColumn
<1>3. QED BY <1>1, <1>2

LEMMA P2MColumn ==
  ASSUME job.tool = "postgresql2mysql", NEW cols, NEW groups, NEW i \in DOMAIN cols, ReadColumn("postgresql", cols[i])
  PROVE  KeptColumn("postgresql", "mysql", cols[i], P2MCreate(cols, groups).cols[i])
<1> DEFINE c == cols[i]
           d == P2MCreate(cols, groups).cols[i]
<1>1. PICK isKey : d = IF c.auto THEN [Plain(c, P2MTypeForCol(c, isKey), "none") EXCEPT !.auto = TRUE]
                                 ELSE Plain(c, P2MTypeForCol(c, isKey), P2MDefault(c.def))
  BY DEF P2MCreate
<1>2. Fit("postgresql", c.type, "mysql", P2MTypeForCol(c, isKey))
  <2>1. CASE isKey /\ P2MType(c.type) \in {"TEXT", "LONGTEXT", "BLOB"}
    BY <2>1, P2MKeyFit DEF ReadColumn, P2MTypeForCol
  <2>2. CASE ~(isKey /\ P2MType(c.type) \in {"TEXT", "LONGTEXT", "BLOB"})
    BY <2>2, P2MFit DEF ReadColumn, P2MTypeForCol
  <2>3. QED BY <2>1, <2>2
<1>3. SameDefault(c.def, P2MDefault(c.def))
  BY DefaultsKept DEF ReadColumn
<1>4. CASE c.auto
  <2>1. d = [Plain(c, P2MTypeForCol(c, isKey), "none") EXCEPT !.auto = TRUE]
    BY <1>1, <1>4
  <2>2. d.auto /\ d.notnull = ~c.nullable /\ d.unique = c.unique /\ d.type = P2MTypeForCol(c, isKey)
    BY <2>1 DEF Plain
  <2>3. QED BY <1>2, <2>2 DEF KeptColumn
<1>5. CASE ~c.auto
  <2>1. d = Plain(c, P2MTypeForCol(c, isKey), P2MDefault(c.def))
    BY <1>1, <1>5
  <2>2. /\ d.notnull = ~c.nullable /\ d.unique = c.unique
        /\ d.type = P2MTypeForCol(c, isKey) /\ d.def = P2MDefault(c.def)
    BY <2>1 DEF Plain
  <2>3. QED BY <1>2, <1>3, <2>2 DEF KeptColumn
<1>6. QED BY <1>4, <1>5

LEMMA S2MColumn ==
  ASSUME job.tool = "sqlite2mysql", NEW cols, NEW groups, NEW i \in DOMAIN cols, ReadColumn("sqlite", cols[i])
  PROVE  KeptColumn("sqlite", "mysql", cols[i], S2MCreate(cols, groups).cols[i])
<1> DEFINE c == cols[i]
           d == S2MCreate(cols, groups).cols[i]
<1>1. Fit("sqlite", c.type, "mysql", S2MType(c.type)) /\ SameDefault(c.def, S2MDefault(c.def))
  BY S2MFit, DefaultsKept DEF ReadColumn
<1>2. CASE c.auto
  <2>1. d = [Plain(c, S2MType(c.type), "none") EXCEPT !.notnull = TRUE, !.auto = TRUE, !.inline = TRUE]
    BY <1>2 DEF S2MCreate
  <2>2. d.auto /\ d.notnull /\ d.unique = c.unique /\ d.type = S2MType(c.type)
    BY <2>1 DEF Plain
  <2>3. QED BY <1>1, <2>2 DEF KeptColumn
<1>3. CASE ~c.auto
  <2>1. d = Plain(c, S2MType(c.type), S2MDefault(c.def))
    BY <1>3 DEF S2MCreate
  <2>2. d.notnull = ~c.nullable /\ d.unique = c.unique /\ d.type = S2MType(c.type) /\ d.def = S2MDefault(c.def)
    BY <2>1 DEF Plain
  <2>3. QED BY <1>1, <2>2 DEF KeptColumn
<1>4. QED BY <1>2, <1>3

LEMMA S2PColumn ==
  ASSUME job.tool = "sqlite2postgres", NEW cols, NEW groups, NEW i \in DOMAIN cols, ReadColumn("sqlite", cols[i])
  PROVE  KeptColumn("sqlite", "postgresql", cols[i], S2PCreate(cols, groups).cols[i])
<1> DEFINE c == cols[i]
           d == S2PCreate(cols, groups).cols[i]
<1>1. CASE c.auto
  <2>1. d = [Plain(c, "SERIAL", "none") EXCEPT !.notnull = FALSE, !.auto = TRUE]
    BY <1>1 DEF S2PCreate
  <2>2. d.auto /\ d.unique = c.unique /\ d.type = "SERIAL"
    BY <2>1 DEF Plain
  <2>3. c.primary /\ Fit("sqlite", c.type, "postgresql", d.type)
    BY <1>1, <2>2, S2PSerialFit DEF ReadColumn
  <2>4. QED BY <2>2, <2>3 DEF KeptColumn
<1>2. CASE ~c.auto
  <2>1. d = Plain(c, S2PType(c.type), S2PDefault(c.def))
    BY <1>2 DEF S2PCreate
  <2>2. d.notnull = ~c.nullable /\ d.unique = c.unique /\ d.type = S2PType(c.type) /\ d.def = S2PDefault(c.def)
    BY <2>1 DEF Plain
  <2>3. SameDefault(c.def, d.def) /\ Fit("sqlite", c.type, "postgresql", d.type)
    BY <2>2, S2PFit, DefaultsKept DEF ReadColumn
  <2>4. QED BY <2>2, <2>3 DEF KeptColumn
<1>3. QED BY <1>1, <1>2

\* Every column of the table a program makes.
LEMMA BuiltKeeps ==
  ASSUME OneJob, NEW t, IsTable(Main(job.tool).source, t), NEW i \in 1..Len(t.cols)
  PROVE  /\ ReadColumn(Main(job.tool).source, Columns(job.tool, t)[i])
         /\ KeptColumn(Main(job.tool).source, Kind, Columns(job.tool, t)[i], Built(job.tool, t).cols[i])
<1> DEFINE cols == Columns(job.tool, t)
           source == Main(job.tool).source
           b == Built(job.tool, t)
<1>1. job.tool \in Tools
  BY JobFacts
<1>2. /\ DOMAIN cols = 1..Len(t.cols) /\ source \in Sources
      /\ cols[i].type = t.cols[i].type /\ cols[i].def = (IF source = "mysql" THEN "none" ELSE t.cols[i].def)
      /\ cols[i].nullable = ~t.cols[i].notnull
      /\ cols[i].primary = (t.cols[i].name \in ToSet(t.pkey))
      /\ IsColumn(source, t.cols[i])
      /\ source = "mysql" => cols[i].auto = t.cols[i].auto
      /\ source = "postgresql" => cols[i].auto = (t.cols[i].def = "nextval")
      /\ source = "sqlite" => cols[i].auto = (t.cols[i].name \in ToSet(t.pkey) /\ t.cols[i].type \in SqliteInt)
  BY <1>1, ColumnsFacts
<1>3. cols[i].unique \in BOOLEAN
  BY <1>1, UniqueRead
<1>4. ReadColumn(source, cols[i])
  <2>1. source \in {"mysql", "postgresql", "sqlite"} /\ t.cols[i].notnull \in BOOLEAN /\ t.cols[i].auto \in BOOLEAN
    BY <1>2 DEF Sources, IsColumn
  <2>2. cols[i].nullable \in BOOLEAN /\ cols[i].primary \in BOOLEAN
    BY <1>2, <2>1
  <2>3. cols[i].auto \in BOOLEAN
    BY <1>2, <2>1
  <2>4. cols[i].type \in Types(source) /\ cols[i].def \in Defaults(source)
    <3>1. "none" \in Defaults(source)
      BY DEF Defaults
    <3>2. QED BY <1>2, <3>1 DEF IsColumn
  <2>5. CASE source = "mysql"
    <3>1. cols[i].auto => cols[i].type \in {"tinyint", "smallint", "mediumint", "int", "bigint"}
      BY <1>2, <2>5 DEF IsColumn
    <3>2. cols[i].def = "none"
      BY <1>2, <2>5
    <3>3. QED BY <1>3, <2>2, <2>3, <2>4, <2>5, <3>1, <3>2 DEF ReadColumn
  <2>6. CASE source = "postgresql"
    <3>1. cols[i].auto => cols[i].type \in {"int2", "int4", "int8"} /\ cols[i].def = "nextval"
      BY <1>2, <2>6 DEF IsColumn
    <3>2. QED BY <1>3, <2>2, <2>3, <2>4, <2>6, <3>1 DEF ReadColumn
  <2>7. CASE source = "sqlite"
    <3>1. cols[i].auto => cols[i].type \in SqliteInt /\ cols[i].primary
      BY <1>2, <2>7
    <3>2. QED BY <1>3, <2>2, <2>3, <2>4, <2>7, <3>1 DEF ReadColumn
  <2>8. QED BY <2>1, <2>5, <2>6, <2>7
<1>5. PICK groups : b = CASE job.tool = "mysql2sqlite" -> M2SCreate(cols, groups)
                          [] job.tool = "mysql2postgresql" -> M2PCreate(cols, groups)
                          [] job.tool = "postgres2sqlite" -> P2SCreate(cols, groups)
                          [] job.tool = "postgresql2mysql" -> P2MCreate(cols, groups)
                          [] job.tool = "sqlite2mysql" -> S2MCreate(cols, groups)
                          [] job.tool = "sqlite2postgres" -> S2PCreate(cols, groups)
  BY DEF Built
<1>6. i \in DOMAIN cols
  BY <1>2
<1> HIDE DEF cols, b
<1>7. ASSUME job.tool = "mysql2sqlite" PROVE KeptColumn(source, Kind, cols[i], b.cols[i])
  <2>1. b = M2SCreate(cols, groups) /\ source = "mysql" /\ Kind = "sqlite"
    BY <1>5, <1>7 DEF Main, M2SMain, Kind
  <2>2. QED BY <1>4, <1>6, <1>7, <2>1, M2SColumn
<1>8. ASSUME job.tool = "mysql2postgresql" PROVE KeptColumn(source, Kind, cols[i], b.cols[i])
  <2>1. b = M2PCreate(cols, groups) /\ source = "mysql" /\ Kind = "postgresql"
    BY <1>5, <1>8 DEF Main, M2PMain, Kind
  <2>2. QED BY <1>4, <1>6, <1>8, <2>1, M2PColumn
<1>9. ASSUME job.tool = "postgres2sqlite" PROVE KeptColumn(source, Kind, cols[i], b.cols[i])
  <2>1. b = P2SCreate(cols, groups) /\ source = "postgresql" /\ Kind = "sqlite"
    BY <1>5, <1>9 DEF Main, P2SMain, Kind
  <2>2. QED BY <1>4, <1>6, <1>9, <2>1, P2SColumn
<1>10. ASSUME job.tool = "postgresql2mysql" PROVE KeptColumn(source, Kind, cols[i], b.cols[i])
  <2>1. b = P2MCreate(cols, groups) /\ source = "postgresql" /\ Kind = "mysql"
    BY <1>5, <1>10 DEF Main, P2MMain, Kind
  <2>2. QED BY <1>4, <1>6, <1>10, <2>1, P2MColumn
<1>11. ASSUME job.tool = "sqlite2mysql" PROVE KeptColumn(source, Kind, cols[i], b.cols[i])
  <2>1. b = S2MCreate(cols, groups) /\ source = "sqlite" /\ Kind = "mysql"
    BY <1>5, <1>11 DEF Main, S2MMain, Kind
  <2>2. QED BY <1>4, <1>6, <1>11, <2>1, S2MColumn
<1>12. ASSUME job.tool = "sqlite2postgres" PROVE KeptColumn(source, Kind, cols[i], b.cols[i])
  <2>1. b = S2PCreate(cols, groups) /\ source = "sqlite" /\ Kind = "postgresql"
    BY <1>5, <1>12 DEF Main, S2PMain, Kind
  <2>2. QED BY <1>4, <1>6, <1>12, <2>1, S2PColumn
<1>13. QED BY <1>1, <1>4, <1>7, <1>8, <1>9, <1>10, <1>11, <1>12 DEF Tools, cols, b

-----------------------------------------------------------------------------
(* The groups read of the constraint query are the constraints.            *)

NoGroup == [name |-> 0, cur |-> <<>>, done |-> <<>>]

GroupOn(g, row) ==
  IF g.name # 0 /\ g.name # row[1]
  THEN [name |-> row[1], cur |-> <<row[2]>>, done |-> Append(g.done, g.cur)]
  ELSE [name |-> row[1], cur |-> Append(g.cur, row[2]), done |-> g.done]

\* f is what fetch_columns holds after each of the rows.
Grouping(rows, f) == f[0] = NoGroup /\ \A n \in 1..Len(rows) : f[n] = GroupOn(f[n - 1], rows[n])

RowsOf(k, u) == [i \in DOMAIN u |-> <<k, u[i]>>]

LEMMA GroupingRuns ==
  ASSUME NEW C, NEW rows \in Seq(Nat \X C)
  PROVE  \E f \in [0..Len(rows) -> [name : Nat, cur : Seq(C), done : Seq(Seq(C))]] : Grouping(rows, f)
<1> DEFINE V == [name : Nat, cur : Seq(C), done : Seq(Seq(C))]
           step == [p \in (1..Len(rows)) \X V |-> GroupOn(p[2], rows[p[1]])]
<1>1. Len(rows) \in Nat /\ NoGroup \in V
  BY DEF NoGroup
<1>2. ASSUME NEW g \in V, NEW row \in Nat \X C PROVE GroupOn(g, row) \in V
  <2>1. row[1] \in Nat /\ row[2] \in C /\ g.cur \in Seq(C) /\ g.done \in Seq(Seq(C))
    OBVIOUS
  <2>2. Append(g.done, g.cur) \in Seq(Seq(C)) /\ Append(g.cur, row[2]) \in Seq(C) /\ <<row[2]>> \in Seq(C)
    BY <2>1
  <2>3. QED BY <2>1, <2>2 DEF GroupOn
<1> HIDE DEF V
<1>3. step \in [(1..Len(rows)) \X V -> V]
  <2>1. ASSUME NEW p \in (1..Len(rows)) \X V PROVE GroupOn(p[2], rows[p[1]]) \in V
    <3>1. p[2] \in V /\ p[1] \in 1..Len(rows)
      OBVIOUS
    <3>2. rows[p[1]] \in Nat \X C
      BY <3>1
    <3>3. QED BY <1>2, <3>1, <3>2
  <2>2. QED BY <2>1
<1>4. \A n \in 1..Len(rows), v \in V : step[<<n, v>>] = GroupOn(v, rows[n])
  OBVIOUS
<1> HIDE DEF step
<1>5. PICK f : f \in LoopFrom(Len(rows), V, NoGroup, step)
  BY <1>1, <1>3, LoopRuns
<1>6. f \in [0..Len(rows) -> V] /\ f[0] = NoGroup /\ \A n \in 1..Len(rows) : f[n] = step[<<n, f[n - 1]>>]
  BY <1>5 DEF LoopFrom
<1>7. ASSUME NEW n \in 1..Len(rows) PROVE f[n] = GroupOn(f[n - 1], rows[n])
  <2>1. n - 1 \in 0..Len(rows)
    BY <1>1
  <2>2. f[n - 1] \in V
    BY <1>6, <2>1
  <2>3. QED BY <1>4, <1>6, <2>2
<1>8. QED BY <1>6, <1>7 DEF Grouping, V

LEMMA GroupsReadIs ==
  ASSUME NEW C, NEW t, UniqueRows(t) \in Seq(Nat \X C)
  PROVE  \E f : Grouping(UniqueRows(t), f) /\ GroupsRead(t) = f[Len(UniqueRows(t))]
<1>1. PICK rows \in Seq(Nat \X C) : rows = UniqueRows(t)
  OBVIOUS
<1> DEFINE Loop(g) == [n \in 0..Len(rows) |-> IF n = 0 THEN NoGroup ELSE GroupOn(g[n - 1], rows[n])]
           f == CHOOSE g : g = Loop(g)
<1>2. Len(rows) \in Nat
  OBVIOUS
<1>3. f = Loop(f)
  <2>1. PICK g \in [0..Len(rows) -> [name : Nat, cur : Seq(C), done : Seq(Seq(C))]] : Grouping(rows, g)
    BY GroupingRuns
  <2>2. ASSUME NEW n \in 0..Len(rows) PROVE g[n] = IF n = 0 THEN NoGroup ELSE GroupOn(g[n - 1], rows[n])
    <3>1. n = 0 \/ n \in 1..Len(rows)
      BY <1>2
    <3>2. QED BY <1>2, <2>1, <3>1 DEF Grouping
  <2>3. g = Loop(g)
    BY <2>1, <2>2
  <2> HIDE DEF Loop
  <2>4. QED BY <2>3
<1>4. GroupsRead(t) = f[Len(rows)]
  BY <1>1 DEF GroupsRead, NoGroup, GroupOn
<1>5. Grouping(rows, f)
  <2> HIDE DEF f
  <2>1. \A n \in 0..Len(rows) : f[n] = IF n = 0 THEN NoGroup ELSE GroupOn(f[n - 1], rows[n])
    BY <1>3
  <2>2. 0 \in 0..Len(rows) /\ \A n \in 1..Len(rows) : n \in 0..Len(rows) /\ n # 0
    BY <1>2
  <2>3. QED BY <2>1, <2>2 DEF Grouping
<1>6. QED BY <1>1, <1>4, <1>5

\* The first n members of a list.
FirstOf(u, n) == [i \in 1..n |-> u[i]]

LEMMA OneMore ==
  ASSUME NEW S, NEW u \in Seq(S), NEW n \in 1..Len(u)
  PROVE  /\ FirstOf(u, n - 1) \in Seq(S) /\ FirstOf(u, n) \in Seq(S)
         /\ Append(FirstOf(u, n - 1), u[n]) = FirstOf(u, n)
         /\ FirstOf(u, n) # <<>>
<1> DEFINE a == FirstOf(u, n - 1)
           b == FirstOf(u, n)
<1>1. Len(u) \in Nat /\ n \in Nat /\ n - 1 \in Nat /\ u[n] \in S /\ \A i \in 1..n : u[i] \in S
  OBVIOUS
<1>2. a \in [1..(n - 1) -> S] /\ b \in [1..n -> S]
  BY <1>1 DEF FirstOf
<1>3. a \in Seq(S) /\ b \in Seq(S) /\ Len(a) = n - 1 /\ Len(b) = n
  BY <1>1, <1>2
<1>4. \A i \in 1..n : b[i] = u[i]
  BY DEF FirstOf
<1>5. \A i \in 1..(n - 1) : a[i] = u[i]
  BY DEF FirstOf
<1> HIDE DEF a, b
<1>6. Append(a, u[n]) \in Seq(S) /\ Len(Append(a, u[n])) = n
  BY <1>1, <1>3
<1>7. ASSUME NEW i \in 1..n PROVE Append(a, u[n])[i] = b[i]
  <2>1. CASE i = n
    BY <1>1, <1>3, <1>4, <2>1
  <2>2. CASE i # n
    BY <1>1, <1>3, <1>4, <1>5, <2>2
  <2>3. QED BY <2>1, <2>2
<1>8. Append(a, u[n]) = b
  BY <1>3, <1>6, <1>7
<1>9. QED BY <1>1, <1>3, <1>8 DEF a, b

LEMMA AllOfThem ==
  ASSUME NEW S, NEW u \in Seq(S)
  PROVE  FirstOf(u, Len(u)) = u /\ FirstOf(u, 0) = <<>>
  BY DEF FirstOf

Grouped(f, a, k, u) == \A i \in 1..Len(u) : f[a + i] = GroupOn(f[a + i - 1], <<k, u[i]>>)

\* The group u of the name k is open, the one before it is closed.
Opened(g, k, u) ==
  [name |-> k, cur |-> u, done |-> IF g.name = 0 THEN g.done ELSE Append(g.done, g.cur)]

\* After the rows of the group u, which come after the first a, it is open.
Ends(f, a, k, u, g) == f[a + Len(u)] = Opened(g, k, u)

\* The rows of one constraint after those of others.
LEMMA GroupRead ==
  ASSUME NEW C, NEW f, NEW a, a \in Nat, NEW k, k \in Nat \ {0}, NEW u, u \in Seq(C), u # <<>>,
         NEW g, f[a] = g, g.name \in Nat, g.name # k, g.name = 0 => g.cur = <<>>,
         Grouped(f, a, k, u)
  PROVE  Ends(f, a, k, u, g)
<1> DEFINE d == IF g.name = 0 THEN g.done ELSE Append(g.done, g.cur)
           T == {i \in 0..Len(u) : i # 0 => f[a + i] = [name |-> k, cur |-> FirstOf(u, i), done |-> d]}
<1>1. Len(u) \in Nat /\ Len(u) # 0
  OBVIOUS
<1>2. 0 \in T
  BY <1>1
<1>3. ASSUME NEW i \in 1..Len(u), i - 1 \in T PROVE i \in T
  <2>1. f[a + i] = GroupOn(f[a + i - 1], <<k, u[i]>>) /\ a + (i - 1) = a + i - 1 /\ i \in 0..Len(u)
    BY <1>1 DEF Grouped
  <2>2. CASE i = 1
    <3>1. f[a + i - 1] = g
      BY <2>2
    <3>2. f[a + i] = GroupOn(g, <<k, u[1]>>)
      BY <2>1, <2>2, <3>1
    <3>3. Append(FirstOf(u, 0), u[1]) = FirstOf(u, 1) /\ FirstOf(u, 0) = <<>>
      BY <1>1, OneMore, AllOfThem
    <3>4. <<u[1]>> = FirstOf(u, 1)
      BY DEF FirstOf
    <3>5. GroupOn(g, <<k, u[1]>>) = [name |-> k, cur |-> FirstOf(u, 1), done |-> d]
      <4>1. CASE g.name = 0
        BY <3>3, <4>1 DEF GroupOn
      <4>2. CASE g.name # 0
        BY <3>4, <4>2 DEF GroupOn
      <4>3. QED BY <4>1, <4>2
    <3>6. QED BY <2>1, <2>2, <3>2, <3>5
  <2>3. CASE i # 1
    <3>1. f[a + i - 1] = [name |-> k, cur |-> FirstOf(u, i - 1), done |-> d]
      BY <1>3, <2>1, <2>3
    <3>2. Append(FirstOf(u, i - 1), u[i]) = FirstOf(u, i)
      BY OneMore
    <3> HIDE DEF d
    <3>3. f[a + i] = [name |-> k, cur |-> FirstOf(u, i), done |-> d]
      <4>1. PICK h : h = f[a + i - 1] /\ h.name = k /\ h.cur = FirstOf(u, i - 1) /\ h.done = d
        BY <3>1
      <4>2. f[a + i] = GroupOn(h, <<k, u[i]>>)
        BY <2>1, <4>1
      <4>3. GroupOn(h, <<k, u[i]>>) = [name |-> k, cur |-> Append(h.cur, u[i]), done |-> h.done]
        BY <4>1 DEF GroupOn
      <4>4. QED BY <3>2, <4>1, <4>2, <4>3
    <3>4. QED BY <2>1, <3>3
  <2>4. QED BY <2>2, <2>3
<1> HIDE DEF T
<1>4. Len(u) \in T
  <2>1. \A i \in 0..Len(u) : i \in T
    BY <1>1, <1>2, <1>3, Induction
  <2>2. QED BY <1>1, <2>1
<1>5. QED BY <1>1, <1>4, AllOfThem DEF T, Opened, Ends

\* What has been read after the rows of the first k constraints.
After(U, k) ==
  [name |-> k, cur |-> IF k = 0 THEN <<>> ELSE U[k], done |-> IF k = 0 THEN <<>> ELSE FirstOf(U, k - 1)]

LEMMA NextGroup ==
  ASSUME NEW C, NEW U \in Seq(Seq(C) \ {<<>>}), NEW k \in 1..Len(U),
         NEW before \in Seq(Nat \X C),
         \A f : Grouping(before, f) => f[Len(before)] = After(U, k - 1),
         NEW f, Grouping(before \o RowsOf(k, U[k]), f)
  PROVE  f[Len(before \o RowsOf(k, U[k]))] = After(U, k)
<1> DEFINE u == U[k]
           r == RowsOf(k, u)
           a == Len(before)
<1>1. /\ Len(U) \in Nat /\ k \in Nat /\ k - 1 \in Nat /\ k # 0
      /\ u \in Seq(C) /\ u # <<>> /\ U \in Seq(Seq(C))
  <2>1. \A i \in 1..Len(U) : U[i] \in Seq(C) \ {<<>>}
    OBVIOUS
  <2>2. U \in Seq(Seq(C))
    BY <2>1
  <2>3. QED BY <2>1, <2>2
<1>2. /\ Len(u) \in Nat /\ DOMAIN u = 1..Len(u) /\ \A i \in 1..Len(u) : u[i] \in C
  BY <1>1
<1> HIDE DEF u
<1>3. r \in Seq(Nat \X C) /\ Len(r) = Len(u) /\ \A i \in 1..Len(u) : r[i] = <<k, u[i]>>
  <2>1. r = [i \in 1..Len(u) |-> <<k, u[i]>>]
    BY <1>2 DEF RowsOf
  <2>2. r \in [1..Len(u) -> Nat \X C]
    BY <1>1, <1>2, <2>1
  <2>3. QED BY <1>2, <2>1, <2>2
<1> HIDE DEF r
<1>4. /\ a \in Nat /\ before \o r \in Seq(Nat \X C) /\ Len(before \o r) = a + Len(u)
      /\ \A i \in 1..a : (before \o r)[i] = before[i]
      /\ \A i \in 1..Len(u) : (before \o r)[a + i] = r[i]
  <2>1. ASSUME NEW q \in Seq(Nat \X C), NEW e \in Seq(Nat \X C)
        PROVE  /\ Len(q) \in Nat /\ q \o e \in Seq(Nat \X C) /\ Len(q \o e) = Len(q) + Len(e)
               /\ \A i \in 1..Len(q) : (q \o e)[i] = q[i]
               /\ \A i \in 1..Len(e) : (q \o e)[Len(q) + i] = e[i]
    BY Joined
  <2>2. /\ Len(before) \in Nat /\ before \o r \in Seq(Nat \X C) /\ Len(before \o r) = Len(before) + Len(r)
        /\ \A i \in 1..Len(before) : (before \o r)[i] = before[i]
        /\ \A i \in 1..Len(r) : (before \o r)[Len(before) + i] = r[i]
    BY <1>3, <2>1
  <2>3. QED BY <1>3, <2>2
<1>5. f[0] = NoGroup /\ \A n \in 1..(a + Len(u)) : f[n] = GroupOn(f[n - 1], (before \o r)[n])
  BY <1>4 DEF Grouping, r, u
<1>6. \A n \in 1..a : n \in 1..(a + Len(u))
  BY <1>2, <1>4
<1>7. Grouping(before, f)
  BY <1>4, <1>5, <1>6 DEF Grouping
<1>8. f[a] = After(U, k - 1)
  BY <1>7
<1>9. ASSUME NEW i \in 1..Len(u) PROVE f[a + i] = GroupOn(f[a + i - 1], <<k, u[i]>>)
  <2>1. a + i \in 1..(a + Len(u))
    BY <1>2, <1>4
  <2>2. f[a + i] = GroupOn(f[a + i - 1], (before \o r)[a + i])
    <3> DEFINE b == before \o r
    <3>1. \A n \in 1..(a + Len(u)) : f[n] = GroupOn(f[n - 1], b[n])
      BY <1>5
    <3>2. a \in Nat /\ Len(u) \in Nat /\ i \in Nat
      BY <1>2, <1>4
    <3> HIDE DEF a, b
    <3>3. a + i \in 1..(a + Len(u))
      BY <3>2
    <3>4. f[a + i] = GroupOn(f[a + i - 1], b[a + i])
      BY <3>1, <3>2, <3>3
    <3>5. QED BY <3>4 DEF a, b
  <2>3. (before \o r)[a + i] = <<k, u[i]>>
    BY <1>3, <1>4
  <2>4. QED BY <2>2, <2>3
<1>10. PICK g : /\ g = f[a] /\ g.name = k - 1
                /\ g.cur = IF k = 1 THEN <<>> ELSE U[k - 1]
                /\ g.done = IF k = 1 THEN <<>> ELSE FirstOf(U, k - 2)
  <2>1. PICK g : g = f[a] /\ g = After(U, k - 1)
    BY <1>8
  <2>2. (k - 1 = 0 <=> k = 1) /\ (k - 1) - 1 = k - 2
    BY <1>1
  <2>3. g = [name |-> k - 1, cur |-> IF k = 1 THEN <<>> ELSE U[k - 1],
             done |-> IF k = 1 THEN <<>> ELSE FirstOf(U, k - 2)]
    BY <2>1, <2>2 DEF After
  <2>4. QED BY <2>1, <2>3
<1>11. f[a + Len(u)] = [name |-> k, cur |-> u, done |-> IF g.name = 0 THEN g.done ELSE Append(g.done, g.cur)]
  <2>1. k \in Nat \ {0} /\ g.name \in Nat /\ g.name # k /\ (g.name = 0 => g.cur = <<>>)
    BY <1>1, <1>10
  <2>2. u \in Seq(C) /\ u # <<>>
    BY <1>1 DEF u
  <2> HIDE DEF a
  <2>3. Grouped(f, a, k, u)
    BY <1>9 DEF Grouped
  <2>4. a \in Nat /\ f[a] = g
    BY <1>4, <1>10 DEF a
  <2>5. f[a + Len(u)] = Opened(g, k, u)
    <3>1. Ends(f, a, k, u, g)
      BY <2>1, <2>2, <2>3, <2>4, GroupRead
    <3>2. QED BY <3>1 DEF Ends
  <2>6. QED BY <2>5 DEF Opened
<1>12. (IF g.name = 0 THEN g.done ELSE Append(g.done, g.cur)) = FirstOf(U, k - 1)
  <2>1. CASE k = 1
    BY <1>10, <2>1, AllOfThem, <1>1
  <2>2. CASE k # 1
    <3>1. k - 1 \in 1..Len(U) /\ (k - 1) - 1 = k - 2
      BY <1>1, <2>2
    <3>2. Append(FirstOf(U, k - 2), U[k - 1]) = FirstOf(U, k - 1)
      BY <1>1, <3>1, OneMore
    <3>3. g.name # 0 /\ g.cur = U[k - 1] /\ g.done = FirstOf(U, k - 2)
      BY <1>1, <1>10, <2>2
    <3>4. QED BY <3>2, <3>3
  <2>3. QED BY <2>1, <2>2
<1>13. QED BY <1>1, <1>4, <1>11, <1>12 DEF After, u, r

\* Every constraint is read, as it is.
LEMMA GroupsAreUniques ==
  ASSUME NEW C, NEW t, t.uniques \in Seq(Seq(C) \ {<<>>})
  PROVE  UniqueGroups(t) = t.uniques
<1>1. PICK U \in Seq(Seq(C) \ {<<>>}) : U = t.uniques
  OBVIOUS
<1> DEFINE m == Len(U)
           G == [k \in 1..m |-> RowsOf(k, U[k])]
           F(k) == FlattenSeq(FirstOf(G, k))
           T == {k \in 0..m : /\ F(k) \in Seq(Nat \X C)
                              /\ \A f : Grouping(F(k), f) => f[Len(F(k))] = After(U, k)}
<1>2. /\ m \in Nat /\ DOMAIN U = 1..m /\ U \in Seq(Seq(C))
      /\ \A k \in 1..m : U[k] \in Seq(C) /\ U[k] # <<>>
  <2>1. m \in Nat /\ DOMAIN U = 1..m
    OBVIOUS
  <2>2. \A k \in 1..m : U[k] \in Seq(C) \ {<<>>}
    OBVIOUS
  <2>3. U \in Seq(Seq(C))
    BY <2>1, <2>2
  <2>4. QED BY <2>1, <2>2, <2>3
<1>3. G \in Seq(Seq(Nat \X C)) /\ Len(G) = m /\ \A k \in 1..m : G[k] = RowsOf(k, U[k])
  <2>1. ASSUME NEW k \in 1..m PROVE RowsOf(k, U[k]) \in Seq(Nat \X C)
    <3>1. PICK u \in Seq(C) : u = U[k]
      BY <1>2
    <3>2. RowsOf(k, u) \in [1..Len(u) -> Nat \X C]
      BY <1>2 DEF RowsOf
    <3>3. Len(u) \in Nat
      BY <3>1
    <3>4. RowsOf(k, u) \in Seq(Nat \X C)
      BY <3>2, <3>3
    <3>5. QED BY <3>1, <3>4
  <2>2. G \in [1..m -> Seq(Nat \X C)]
    BY <2>1
  <2>3. \A k \in 1..m : G[k] = RowsOf(k, U[k])
    OBVIOUS
  <2> HIDE DEF G
  <2>4. G \in Seq(Seq(Nat \X C)) /\ Len(G) = m
    <3>1. m \in Nat
      BY <1>2
    <3> HIDE DEF m
    <3>2. DOMAIN G = 1..m
      BY <2>2
    <3>3. QED BY <2>2, <3>1, <3>2
  <2>5. QED BY <2>3, <2>4
<1> HIDE DEF m, G
<1>4. 0 \in T
  <2>1. F(0) = <<>>
    BY <1>3, AllOfThem, FlattenEmpty
  <2>2. \A f : Grouping(<<>>, f) => f[0] = After(U, 0)
    BY DEF Grouping, NoGroup, After
  <2>3. Len(<<>>) = 0 /\ <<>> \in Seq(Nat \X C) /\ 0 \in 0..m
    BY <1>2
  <2>4. QED BY <2>1, <2>2, <2>3
<1>5. ASSUME NEW k \in 1..m, k - 1 \in T PROVE k \in T
  <2>1. FirstOf(G, k - 1) \in Seq(Seq(Nat \X C)) /\ Append(FirstOf(G, k - 1), G[k]) = FirstOf(G, k)
        /\ G[k] \in Seq(Nat \X C)
    <3>1. G \in Seq(Seq(Nat \X C)) /\ k \in 1..Len(G)
      BY <1>3, <1>5
    <3>2. FirstOf(G, k - 1) \in Seq(Seq(Nat \X C)) /\ Append(FirstOf(G, k - 1), G[k]) = FirstOf(G, k)
      BY <3>1, OneMore
    <3>3. G[k] \in Seq(Nat \X C)
      BY <3>1
    <3>4. QED BY <3>2, <3>3
  <2>2. F(k) = F(k - 1) \o RowsOf(k, U[k])
    BY <1>3, <2>1, FlattenAppend
  <2>3. F(k - 1) \in Seq(Nat \X C) /\ G[k] = RowsOf(k, U[k])
    BY <1>3, <2>1, FlattenAppend
  <2>4. F(k) \in Seq(Nat \X C)
    BY <2>1, <2>2, <2>3
  <2>5. \A f : Grouping(F(k - 1), f) => f[Len(F(k - 1))] = After(U, k - 1)
    BY <1>5
  <2>6. PICK before \in Seq(Nat \X C) : before = F(k - 1)
    BY <2>3
  <2>7. k \in 1..Len(U) /\ k \in 0..m
    BY <1>2 DEF m
  <2> HIDE DEF F
  <2>8. ASSUME NEW f, Grouping(F(k), f) PROVE f[Len(F(k))] = After(U, k)
    <3>1. Grouping(before \o RowsOf(k, U[k]), f)
      BY <2>2, <2>6, <2>8
    <3>2. \A h : Grouping(before, h) => h[Len(before)] = After(U, k - 1)
      BY <2>5, <2>6
    <3>3. f[Len(before \o RowsOf(k, U[k]))] = After(U, k)
      BY <2>7, <3>1, <3>2, NextGroup
    <3>4. QED BY <2>2, <2>6, <3>3
  <2>9. QED BY <2>4, <2>7, <2>8
<1> HIDE DEF T
<1>6. m \in T
  <2>1. \A k \in 0..m : k \in T
    BY <1>2, <1>4, <1>5, Induction
  <2>2. QED BY <1>2, <2>1
<1>7. UniqueRows(t) = F(m)
  <2>1. FirstOf(G, m) = G
    BY <1>3, AllOfThem
  <2>2. G = [k \in DOMAIN U |-> [i \in DOMAIN U[k] |-> <<k, U[k][i]>>]]
    BY <1>2 DEF G, RowsOf
  <2>3. QED BY <1>1, <2>1, <2>2 DEF UniqueRows
<1>8. F(m) \in Seq(Nat \X C) /\ \A f : Grouping(F(m), f) => f[Len(F(m))] = After(U, m)
  BY <1>6 DEF T
<1>9. GroupsRead(t) = After(U, m)
  BY <1>7, <1>8, GroupsReadIs
<1>10. CASE m = 0
  <2>1. U = <<>>
    BY <1>2, <1>10 DEF m
  <2>2. QED BY <1>1, <1>9, <1>10, <2>1 DEF UniqueGroups, After
<1>11. CASE m # 0
  <2>1. m \in 1..Len(U) /\ m = Len(U)
    BY <1>2, <1>11 DEF m
  <2>2. Append(FirstOf(U, m - 1), U[m]) = FirstOf(U, m) /\ FirstOf(U, m) = U /\ U[m] # <<>>
    <3>1. U \in Seq(Seq(C)) /\ U[m] # <<>>
      BY <1>2, <2>1
    <3>2. FirstOf(U, Len(U)) = U
      BY <3>1, AllOfThem
    <3>3. Append(FirstOf(U, m - 1), U[m]) = FirstOf(U, m)
      BY <2>1, <3>1, OneMore
    <3>4. QED BY <2>1, <3>1, <3>2, <3>3
  <2>3. PICK h : h = GroupsRead(t)
    OBVIOUS
  <2>4. h = [name |-> m, cur |-> U[m], done |-> FirstOf(U, m - 1)]
    BY <1>9, <1>11, <2>3 DEF After
  <2>5. h.cur = U[m] /\ h.done = FirstOf(U, m - 1)
    BY <2>4
  <2>6. QED BY <1>1, <2>2, <2>3, <2>5 DEF UniqueGroups
<1>12. QED BY <1>10, <1>11

LEMMA CompositeHas ==
  ASSUME NEW K, NEW q \in Seq(K), NEW u \in ToSet(q), ~(Len(u) <= 1)
  PROVE  u \in ToSet(Composite(q))
<1> DEFINE S == {g \in ToSet(q) : Len(g) <= 1}
           r == Retain(q, S)
<1>1. Queues(r, u) <=> u \notin S /\ Queues(q, u)
  BY RetainFacts
<1>2. u \notin S /\ Queues(q, u)
  BY DEF ToSet, Queues
<1>3. Composite(q) = r
  BY DEF Composite
<1>4. QED BY <1>1, <1>2, <1>3 DEF ToSet, Queues

LEMMA OneLong ==
  ASSUME NEW S, NEW u \in Seq(S), Len(u) = 1
  PROVE  u = << u[1] >> /\ u[1] \in S
OBVIOUS

-----------------------------------------------------------------------------
(* What is said of a table that was created.                               *)

\* A constraint that is read is one of the new table.
LEMMA UniquesKept ==
  ASSUME OneJob, NEW t, IsTable(Main(job.tool).source, t), NEW u \in UniquesRead(t)
  PROVE  KeepsUnique(Built(job.tool, t), u)
<1> DEFINE cols == Columns(job.tool, t)
           source == Main(job.tool).source
           b == Built(job.tool, t)
           names == ToSet(Names(t.cols))
<1>1. job.tool \in Tools
  BY JobFacts
<1>2. /\ source \in {"mysql", "postgresql", "sqlite"} /\ DOMAIN t.cols = 1..Len(t.cols)
      /\ DOMAIN cols = 1..Len(t.cols)
      /\ \A i \in 1..Len(t.cols) : /\ cols[i].name = t.cols[i].name
                                   /\ cols[i].primary = (t.cols[i].name \in ToSet(t.pkey))
  BY <1>1, ColumnsFacts DEF Sources
<1>3. t.uniques \in Seq(Seq(names) \ {<<>>})
  BY DEF IsTable
<1>4. /\ u \in ToSet(t.uniques) /\ u \notin {<<c>> : c \in ToSet(t.pkey)}
      /\ source # "sqlite" /\ (source = "mysql" => Len(u) = 1)
  BY <1>2 DEF UniquesRead
<1>5. u \in Seq(names) /\ t.uniques \in Seq(Seq(names))
  <2>1. \A i \in DOMAIN t.uniques : t.uniques[i] \in Seq(names) \ {<<>>}
    BY <1>3, MembersIn
  <2>2. u \in Seq(names)
    BY <1>4, <2>1 DEF ToSet
  <2>3. t.uniques \in Seq(Seq(names))
    BY <1>3, <2>1
  <2>4. QED BY <2>2, <2>3
<1>6. UniqueGroups(t) = t.uniques
  BY <1>3, GroupsAreUniques
<1> HIDE DEF names
<1>7. CASE Len(u) = 1
  <2>1. u = << u[1] >> /\ u[1] \in names
    BY <1>5, <1>7, OneLong
  <2>2. PICK i \in 1..Len(t.cols) : t.cols[i].name = u[1]
    BY <1>2, <2>1 DEF names, ToSet, Names
  <2>3. t.cols[i].name \notin ToSet(t.pkey) /\ << t.cols[i].name >> \in ToSet(t.uniques)
    BY <1>4, <2>1, <2>2
  <2>4. cols[i].unique
    BY <1>1, <1>4, <1>6, <2>3, UniqueRead
  <2>5. KeptColumn(source, Kind, cols[i], b.cols[i])
    BY BuiltKeeps
  <2>6. ~cols[i].primary
    BY <1>2, <2>3
  <2>7. b.cols[i].unique
    BY <2>4, <2>5, <2>6 DEF KeptColumn
  <2>8. i \in DOMAIN b.cols /\ b.cols[i].name = u[1]
    BY <1>1, <1>2, <2>2, BuiltColumns
  <2> HIDE DEF b
  <2>9. KeepsUnique(b, u)
    BY <2>1, <2>7, <2>8 DEF KeepsUnique
  <2>10. QED BY <2>9 DEF b
<1>8. CASE Len(u) # 1
  <2>1. source = "postgresql"
    BY <1>2, <1>4, <1>8
  <2>2. job.tool \in {"postgres2sqlite", "postgresql2mysql"}
    BY <1>1, <2>1 DEF Tools, Main, M2SMain, M2PMain, P2SMain, P2MMain, S2MMain, S2PMain
  <2>3. b.uniques = Composite(UniqueGroups(t))
    BY <2>1, <2>2 DEF Built, P2SCreate, P2MCreate
  <2>4. ~(Len(u) <= 1)
    <3>1. u # <<>>
      <4>1. \A i \in DOMAIN t.uniques : t.uniques[i] \in Seq(names) \ {<<>>}
        BY <1>3, MembersIn DEF names
      <4>2. QED BY <1>4, <4>1 DEF ToSet
    <3>2. Len(u) \in Nat /\ Len(u) # 0
      BY <1>5, <3>1
    <3>3. \A n \in Nat : n # 0 /\ n # 1 => ~(n <= 1)
      OBVIOUS
    <3>4. QED BY <1>8, <3>2, <3>3
  <2>5. u \in ToSet(b.uniques)
    BY <1>4, <1>5, <1>6, <2>3, <2>4, CompositeHas
  <2>6. QED BY <2>5 DEF KeepsUnique
<1>9. QED BY <1>7, <1>8

\* A table that is said to be created is as the program built it, and was accepted.
LEMMA AsBuilt ==
  ASSUME SaidInv, ~doubt, NEW t \in fresh, said[t] \in {"created", "copied"}
  PROVE  /\ OneJob /\ t \in 1..N /\ IsTable(Main(job.tool).source, Todo[t])
         /\ target[t] # Absent /\ target[t].def = Built(job.tool, Todo[t])
         /\ Accepts(Kind, Built(job.tool, Todo[t]))
<1>1. OneJob /\ Made /\ t \in 1..N /\ target[t] # Absent /\ Accepts(Kind, Result[t])
  BY DEF SaidInv, TablesInv, Said, Fresh
<1>2. Todo[t].cols # <<>> /\ target[t].def = Result[t]
  BY <1>1 DEF Made
<1>3. Result[t] = Built(job.tool, Todo[t]) /\ IsTable(Main(job.tool).source, Todo[t])
  BY <1>1, <1>2, JobFacts
<1>4. QED BY <1>1, <1>2, <1>3

\* The columns of such a table are those of the source, and so are their names.
LEMMA SameColumns ==
  ASSUME NEW tool \in Tools, NEW t, IsTable(Main(tool).source, t)
  PROVE  LET b == Built(tool, t)
         IN  /\ DOMAIN t.cols = 1..Len(t.cols) /\ DOMAIN b.cols = 1..Len(t.cols)
             /\ \A i \in 1..Len(t.cols) : b.cols[i].name = t.cols[i].name
             /\ Names(b.cols) = Names(t.cols)
<1> DEFINE cols == Columns(tool, t)
           b == Built(tool, t)
<1>1. /\ DOMAIN t.cols = 1..Len(t.cols) /\ DOMAIN cols = 1..Len(t.cols)
      /\ \A i \in 1..Len(t.cols) : cols[i].name = t.cols[i].name
  BY ColumnsFacts
<1>2. DOMAIN b.cols = DOMAIN cols /\ \A i \in DOMAIN cols : b.cols[i].name = cols[i].name
  BY BuiltColumns
<1> HIDE DEF cols, b
<1>3. /\ DOMAIN b.cols = 1..Len(t.cols)
      /\ \A i \in 1..Len(t.cols) : b.cols[i].name = t.cols[i].name
  BY <1>1, <1>2
<1>4. Names(b.cols) = Names(t.cols)
  BY <1>1, <1>3 DEF Names
<1>5. QED BY <1>1, <1>3, <1>4 DEF b

\* A column of the new table is given every value the column it was made from may
\* hold, through the drivers of both, if and only if Lossy does not name the types.
THEOREM CopyValuesFit == Spec => []ValuesFit
<1>1. ASSUME SaidInv PROVE ValuesFit
  <2>1. SUFFICES ASSUME NEW t \in fresh, said[t] \in {"created", "copied"}, ~doubt,
                        NEW i \in DOMAIN Todo[t].cols
                 PROVE  Fit(Main(job.tool).source, Todo[t].cols[i].type, Kind, target[t].def.cols[i].type)
    BY DEF ValuesFit, Fit
  <2>2. /\ OneJob /\ IsTable(Main(job.tool).source, Todo[t])
        /\ target[t].def = Built(job.tool, Todo[t])
    BY <1>1, <2>1, AsBuilt
  <2>3. job.tool \in Tools /\ i \in 1..Len(Todo[t].cols)
    BY <2>2, JobFacts, SameColumns
  <2>4. Columns(job.tool, Todo[t])[i].type = Todo[t].cols[i].type
    BY <2>2, <2>3, ColumnsFacts
  <2>5. KeptColumn(Main(job.tool).source, Kind, Columns(job.tool, Todo[t])[i], Built(job.tool, Todo[t]).cols[i])
    BY <2>2, <2>3, BuiltKeeps
  <2>6. QED BY <2>2, <2>4, <2>5 DEF KeptColumn
<1>2. WholeInv => ValuesFit
  BY <1>1 DEF WholeInv
<1>3. QED BY CopyWholeInvariant, <1>2, PTL

\* A table reported created is there, with the columns, the key, the NOT NULLs and
\* those unique constraints and defaults of the source that the program can read.
THEOREM CopyTableKept == Spec => []TableKept
<1>1. ASSUME SaidInv PROVE TableKept
  <2> SUFFICES ASSUME ~doubt, NEW t \in fresh, said[t] \in {"created", "copied"}
               PROVE  LET b == target[t].def
                          s == Todo[t]
                      IN  /\ target[t] # Absent
                          /\ Names(b.cols) = Names(s.cols)
                          /\ KeyOf(b) = ToSet(s.pkey)
                          /\ \A u \in UniquesRead(s) : KeepsUnique(b, u)
                          /\ \A i \in DOMAIN s.cols :
                               /\ s.cols[i].notnull => b.cols[i].notnull \/ b.cols[i].name \in KeyOf(b)
                               /\ b.cols[i].auto \/ SameDefault(DefaultRead(s.cols[i]), b.cols[i].def)
    BY DEF TableKept
  <2> DEFINE b == target[t].def
             s == Todo[t]
             cols == Columns(job.tool, s)
  <2>1. /\ OneJob /\ IsTable(Main(job.tool).source, s) /\ target[t] # Absent
        /\ b = Built(job.tool, s) /\ Accepts(Kind, b)
    BY <1>1, AsBuilt
  <2>2. job.tool \in Tools
    BY <2>1, JobFacts
  <2>3. /\ DOMAIN s.cols = 1..Len(s.cols) /\ DOMAIN b.cols = 1..Len(s.cols)
        /\ \A i \in 1..Len(s.cols) : b.cols[i].name = s.cols[i].name
        /\ Names(b.cols) = Names(s.cols)
    BY <2>1, <2>2, SameColumns
  <2>4. KeyOf(b) = ToSet(s.pkey)
    BY <2>1, <2>2, KeyBuilt
  <2>5. \A u \in UniquesRead(s) : KeepsUnique(b, u)
    BY <2>1, UniquesKept
  <2>6. ASSUME NEW i \in DOMAIN s.cols
        PROVE  /\ s.cols[i].notnull => b.cols[i].notnull \/ b.cols[i].name \in KeyOf(b)
               /\ b.cols[i].auto \/ SameDefault(DefaultRead(s.cols[i]), b.cols[i].def)
    <3>1. i \in 1..Len(s.cols)
      BY <2>3
    <3>2. KeptColumn(Main(job.tool).source, Kind, cols[i], b.cols[i])
      BY <2>1, <3>1, BuiltKeeps
    <3>3. /\ cols[i].nullable = ~s.cols[i].notnull /\ cols[i].def = DefaultRead(s.cols[i])
          /\ cols[i].primary = (s.cols[i].name \in ToSet(s.pkey))
          /\ IsColumn(Main(job.tool).source, s.cols[i])
      BY <2>1, <2>2, <3>1, ColumnsFacts DEF DefaultRead
    <3>4. DefaultAccepted(Kind, b.cols[i])
      BY <2>1, <2>3, <3>1 DEF Accepts
    <3>5. s.cols[i].notnull \in BOOLEAN
      BY <3>3 DEF IsColumn
    <3>6. s.cols[i].notnull => b.cols[i].notnull \/ b.cols[i].name \in KeyOf(b)
      BY <2>3, <2>4, <3>1, <3>2, <3>3, <3>5 DEF KeptColumn
    <3>7. b.cols[i].auto \/ SameDefault(DefaultRead(s.cols[i]), b.cols[i].def)
      BY <3>2, <3>3, <3>4 DEF KeptColumn
    <3>8. QED BY <3>6, <3>7
  <2> HIDE DEF cols
  <2>7. QED BY <2>1, <2>3, <2>4, <2>5, <2>6
<1>2. WholeInv => TableKept
  BY <1>1 DEF WholeInv
<1>3. QED BY CopyWholeInvariant, <1>2, PTL

=============================================================================
