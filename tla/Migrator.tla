------------------------------ MODULE Migrator ------------------------------
(***************************************************************************)
(* The Migrator of src/src/orm/migration.rs: processes with a Migrator     *)
(* each run and roll back migrations of one database, statement by         *)
(* statement and without a transaction, and may fail or die between any    *)
(* two.  A statement is one step; it commits by itself.  Tables, columns,  *)
(* indexes, keys and rows are names; a foreign key has the name of the     *)
(* table it refers to.                                                     *)
(***************************************************************************)
EXTENDS Integers, FiniteSets, SequencesExt, Filtering

CONSTANTS
  Procs,       \* processes, each with a Migrator and a connection of its own
  Registered,  \* the versions each process has registered, in that order
  Settings,    \* [dialect, plan]: a plan maps versions to [up, down], sequences of operations
  Tables, Keys,
  MaxCopies,   \* bound on the copies of one row
  MaxMarks     \* bound: a call begins only if no more has come in the way so far

ASSUME MigratorAssumption ==
  /\ Registered \in [Procs -> Seq(Nat)]
  /\ \A p \in Procs, s \in Settings : ToSet(Registered[p]) \subseteq DOMAIN s.plan
  /\ \A s \in Settings : DOMAIN s.plan \subseteq Nat
  /\ \A s \in Settings : \A v \in DOMAIN s.plan : \A ops \in {s.plan[v].up, s.plan[v].down} :
       ops \in Seq(ToSet(ops))
  /\ MaxCopies \in Nat /\ MaxMarks \in Nat

VARIABLES
  dialect,
  plan,
  objects,    \* tables, columns, indexes and foreign keys of the database
  rows,       \* how many copies of each row it holds
  recorded,   \* the versions in schema_migrations
  pc,         \* the statement each process sends next, or how its last call ended
  call,       \* the method it runs
  todo,       \* the versions left of that call, the current one first
  at,         \* the operation of the current version it has reached
  applied,    \* applied_migrations, the versions its Migrator knows of
  marks       \* history: what has come in the way of an orderly migration

dbVars   == <<objects, rows, recorded>>
callVars == <<pc, call, todo, at>>
vars == <<dialect, plan, dbVars, callVars, applied, marks>>

Versions == UNION {DOMAIN s.plan : s \in Settings}
Cells    == Tables \X Keys
Ready    == {"idle",    \* no call, or the last one returned Ok
             "failed",  \* it returned Err
             "down"}    \* the process died or lost its connection and starts afresh
InSql    == {"initializing", "loading", "operation", "counting", "probing", "inserting",
             "recording"}
Marks    == {"overlap",   \* two calls were in flight at once
             "undoing",   \* one of them a rollback
             "order",     \* a version was applied or undone out of its turn
             "torn"}      \* a rollback stopped half way
DataOps  == {"InsertRow", "UpdateRows", "DeleteRows"}

Obj(k, t, n) == [k |-> k, t |-> t, n |-> n]
Tab(t)    == Obj("table", t, "")
Col(t, n) == Obj("column", t, n)
Idx(t, n) == Obj("index", t, n)
Key(t, n) == Obj("key", t, n)
VersionTable == Tab("schema_migrations")

TypeOK ==
  /\ [dialect |-> dialect, plan |-> plan] \in Settings
  /\ \A x \in objects : x.k \in {"table", "column", "index", "key"}
  /\ rows \in [Cells -> 0..MaxCopies]
  /\ recorded \subseteq Versions
  /\ pc \in [Procs -> Ready \cup InSql]
  /\ call \in [Procs -> {"none", "run", "apply", "rollback"}]
  /\ \A p \in Procs : ToSet(todo[p]) \subseteq Versions /\ at[p] \in Nat \ {0}
  /\ \A p \in Procs : (pc[p] \in Ready) = (call[p] = "none")
  /\ applied \in [Procs -> SUBSET Versions]
  /\ marks \subseteq Marks

Init ==
  /\ \E s \in Settings : dialect = s.dialect /\ plan = s.plan
  /\ objects = {} /\ rows = [c \in Cells |-> 0] /\ recorded = {}
  /\ pc = [p \in Procs |-> "idle"]
  /\ call = [p \in Procs |-> "none"]
  /\ todo = [p \in Procs |-> <<>>]
  /\ at = [p \in Procs |-> 1]
  /\ applied = [p \in Procs |-> {}]
  /\ marks = {}

-----------------------------------------------------------------------------
(* operation_to_sql, and what the database (external) does with the SQL:   *)
(* when an operation is accepted by schema s, and the schema it leaves.    *)

\* IF NOT EXISTS asks for an index of that name, which PostgreSQL and SQLite keep
\* once per schema.
IndexNamed(s, n) == \E x \in s : x.k = "index" /\ x.n = n

\* Mutant: CREATE INDEX without IF NOT EXISTS on any dialect.
PlainIndex(o, s) == Tab(o.t) \in s /\ Idx(o.t, o.n) \notin s /\ ~IndexNamed(s, o.n)

AddsIndex(o, s) == Tab(o.t) \in s /\ (dialect = "mysql" => Idx(o.t, o.n) \notin s)

\* What is no SQL of the dialect (ALTER COLUMN or constraints on SQLite, DROP
\* FOREIGN KEY on PostgreSQL) is refused whatever the schema.
Accepts(o, s) ==
  CASE o.op = "CreateTable"    -> TRUE
    [] o.op = "DropTable"      -> \A x \in s : x.k = "key" /\ x.n = o.t => x.t = o.t
    [] o.op = "RenameTable"    -> Tab(o.t) \in s /\ Tab(o.to) \notin s
    [] o.op = "AddColumn"      -> Tab(o.t) \in s /\ Col(o.t, o.n) \notin s
    [] o.op = "DropColumn"     -> Col(o.t, o.n) \in s
    [] o.op = "RenameColumn"   -> Col(o.t, o.n) \in s /\ Col(o.t, o.to) \notin s
    [] o.op = "ModifyColumn"   -> dialect # "sqlite" /\ Col(o.t, o.n) \in s
    [] o.op = "AddIndex"       -> AddsIndex(o, s)
    [] o.op = "DropIndex"      -> dialect = "mysql" => Idx(o.t, o.n) \in s
    [] o.op = "AddForeignKey"  -> /\ dialect # "sqlite" /\ {Tab(o.t), Tab(o.n)} \subseteq s
                                  /\ Key(o.t, o.n) \notin s
    [] o.op = "DropForeignKey" -> dialect = "mysql" /\ Key(o.t, o.n) \in s
    [] OTHER                   -> Tab(o.t) \in s

Moved(x, t, u) == [x EXCEPT !.t = IF @ = t THEN u ELSE @,
                            !.n = IF x.k = "key" /\ @ = t THEN u ELSE @]

SchemaAfter(o, s) ==
  CASE o.op = "CreateTable"    -> IF Tab(o.t) \in s THEN s
                                  ELSE s \cup {Tab(o.t)} \cup {Col(o.t, n) : n \in o.cols}
    [] o.op = "DropTable"      -> {x \in s : x.t # o.t}
    [] o.op = "RenameTable"    -> {Moved(x, o.t, o.to) : x \in s}
    [] o.op = "AddColumn"      -> s \cup {Col(o.t, o.n)}
    [] o.op = "DropColumn"     -> s \ {Col(o.t, o.n)}
    [] o.op = "RenameColumn"   -> (s \ {Col(o.t, o.n)}) \cup {Col(o.t, o.to)}
    [] o.op = "AddIndex"       -> IF IndexNamed(s, o.n) /\ dialect # "mysql" THEN s
                                  ELSE s \cup {Idx(o.t, o.n)}
    [] o.op = "DropIndex"      -> {x \in s : x.k = "index" /\ x.n = o.n
                                               => dialect = "mysql" /\ x.t # o.t}
    [] o.op = "AddForeignKey"  -> s \cup {Key(o.t, o.n)}
    [] o.op = "DropForeignKey" -> s \ {Key(o.t, o.n)}
    [] OTHER                   -> s

\* Rows are counted up to MaxCopies.
Sum2(m, n) == IF m + n < MaxCopies THEN m + n ELSE MaxCopies

\* An InsertRow whose subquery finds nothing writes NULL instead of this row.
\* RawSql stands for an INSERT, as in the repository's own migrations.
RowsAfter(o) ==
  CASE o.op = "DropTable"   -> [c \in Cells |-> IF c[1] = o.t THEN 0 ELSE rows[c]]
    [] o.op = "RenameTable" -> [c \in Cells |-> IF c[1] = o.to THEN rows[<<o.t, c[2]>>]
                                              ELSE IF c[1] = o.t THEN 0 ELSE rows[c]]
    [] o.op = "InsertRow"   -> IF \A c \in o.from : rows[c] > 0
                               THEN [rows EXCEPT ![<<o.t, o.key>>] = Sum2(@, 1)] ELSE rows
    [] o.op = "RawSql"      -> [rows EXCEPT ![<<o.t, o.key>>] = Sum2(@, 1)]
    [] o.op = "UpdateRows"  -> [rows EXCEPT ![<<o.t, o.key>>] = 0,
                                            ![<<o.t, o.to>>] = Sum2(@, rows[<<o.t, o.key>>])]
    [] o.op = "DeleteRows"  -> [rows EXCEPT ![<<o.t, o.key>>] = 0]
    [] OTHER                -> rows

-----------------------------------------------------------------------------
(* The calls and their statements.                                         *)

\* rollback_migration goes through the rollback operations from the last to the first.
Ops(how, v) == IF how = "rollback" THEN Reverse(plan[v].down) ELSE plan[v].up

AfterCount(o) == IF o.from = {} THEN "inserting" ELSE "probing"

\* The statement sent first for an operation.
FirstStatement(how, o) ==
  IF o.op # "InsertRow" \/ how = "rollback" THEN "operation"
  ELSE IF o.guard THEN "counting" ELSE AfterCount(o)

\* What is sent for operation i of version v.
\* Mutant: a loop that ends one operation early.
StatementEarly(how, v, i) ==
  LET ops == Ops(how, v) IN
  IF i >= Len(ops) THEN "recording" ELSE FirstStatement(how, ops[i])

Statement(how, v, i) ==
  LET ops == Ops(how, v) IN
  IF i > Len(ops) THEN "recording" ELSE FirstStatement(how, ops[i])

End(p, how) ==
  /\ pc' = [pc EXCEPT ![p] = how]
  /\ call' = [call EXCEPT ![p] = "none"]
  /\ todo' = [todo EXCEPT ![p] = <<>>]
  /\ at' = [at EXCEPT ![p] = 1]

\* Call how of p goes on with operation i of the first of vs, which must be registered.
Goto(p, how, vs, i) ==
  IF vs = <<>> THEN End(p, "idle")
  ELSE IF Head(vs) \notin ToSet(Registered[p]) THEN End(p, "failed")
  ELSE /\ pc' = [pc EXCEPT ![p] = Statement(how, Head(vs), i)]
       /\ call' = [call EXCEPT ![p] = how]
       /\ todo' = [todo EXCEPT ![p] = vs]
       /\ at' = [at EXCEPT ![p] = i]

Version(p) == Head(todo[p])
Op(p)      == Ops(call[p], Version(p))[at[p]]
NextOp(p)  == Goto(p, call[p], todo[p], at[p] + 1)

Tear(p) == marks' = IF call[p] = "rollback" THEN marks \cup {"torn"} ELSE marks

\* The call returns Err, with a connection that can be used again or without one.
Fail(p) == End(p, "failed") /\ Tear(p) /\ UNCHANGED applied
Drop(p) == End(p, "down") /\ Tear(p) /\ applied' = [applied EXCEPT ![p] = {}]

\* A statement of p and its answer: it runs, and the answer comes or is lost; the
\* database refuses it, after which the PostgreSQL connection is out of step (see
\* PgConnection); or it never ran (a lost connection, SQLite's "busy").
Send(p, allowed, effect, done) ==
  /\ UNCHANGED <<dialect, plan>>
  /\ \/ /\ allowed /\ effect
        /\ \/ done /\ UNCHANGED marks
           \/ dialect # "sqlite" /\ Drop(p)
     \/ /\ ~allowed /\ UNCHANGED dbVars
        /\ IF dialect = "postgresql" THEN Drop(p) ELSE Fail(p)
     \/ /\ UNCHANGED dbVars
        /\ IF dialect = "sqlite" THEN Fail(p) ELSE Drop(p)

Query(p, allowed, done) == Send(p, allowed, UNCHANGED dbVars, done)

-----------------------------------------------------------------------------
Others(p) == {q \in Procs \ {p} : pc[q] \notin Ready}

Begin(p, how, wrong) ==
  /\ pc[p] \in Ready
  /\ Cardinality(marks) <= MaxMarks
  /\ marks' = marks
       \cup (IF Others(p) # {} THEN {"overlap"} ELSE {})
       \cup (IF Others(p) # {} /\ "rollback" \in {how} \cup {call[q] : q \in Others(p)}
             THEN {"undoing"} ELSE {})
       \cup (IF wrong THEN {"order"} ELSE {})
  /\ UNCHANGED <<dialect, plan, dbVars, applied>>

RunMigrations(p) ==
  /\ Begin(p, "run", FALSE)
  /\ pc' = [pc EXCEPT ![p] = "initializing"]
  /\ call' = [call EXCEPT ![p] = "run"]
  /\ UNCHANGED <<todo, at>>

ApplyMigration(p) ==
  \E v \in ToSet(Registered[p]) :
    /\ Begin(p, "apply", v \in recorded \/ \E w \in DOMAIN plan \ recorded : w < v)
    /\ Goto(p, "apply", <<v>>, 1)

RollbackMigration(p) ==
  \E v \in ToSet(Registered[p]) :
    /\ Begin(p, "rollback", v \notin recorded \/ \E w \in recorded : w > v)
    /\ Goto(p, "rollback", <<v>>, 1)

\* Mutant: the oldest version first.
Ascending(S) == CHOOSE s \in SetToSeqs(S) : \A i, j \in DOMAIN s : i < j => s[i] < s[j]

Descending(S) == CHOOSE s \in SetToSeqs(S) : \A i, j \in DOMAIN s : i < j => s[i] > s[j]

\* The versions this Migrator knows of, which may not be those of the database.
RollbackAll(p) ==
  /\ applied[p] # {}
  /\ Begin(p, "rollback", applied[p] # recorded)
  /\ Goto(p, "rollback", Descending(applied[p]), 1)

Initialize(p) ==
  /\ pc[p] = "initializing"
  /\ Send(p, TRUE,
          objects' = objects \cup {VersionTable} /\ UNCHANGED <<rows, recorded>>,
          /\ pc' = [pc EXCEPT ![p] = "loading"]
          /\ UNCHANGED <<call, todo, at, applied>>)

\* Mutant: what the Migrator already knew is kept.
LoadedOver(p) == applied[p] \cup recorded

Loaded(p) == recorded

\* load_applied_migrations and the pending versions, in registration order.
Load(p) ==
  /\ pc[p] = "loading"
  /\ Query(p, TRUE,
           /\ applied' = [applied EXCEPT ![p] = Loaded(p)]
           /\ Goto(p, "run", Retain(Registered[p], Loaded(p)), 1))

\* operation_to_sql of a data operation is text for a log; rollback_migration sends it.
DebugText(p) == call[p] = "rollback" /\ Op(p).op \in DataOps

Operation(p) ==
  /\ pc[p] = "operation"
  /\ Send(p, ~DebugText(p) /\ Accepts(Op(p), objects),
          /\ objects' = SchemaAfter(Op(p), objects)
          /\ rows' = RowsAfter(Op(p))
          /\ UNCHANGED recorded,
          NextOp(p) /\ UNCHANGED applied)

\* Mutant: the affected rows of a SELECT, which are none.
CountZero(c) == 0

CountRows(c) == rows[c]

\* apply_insert_row: the count on the conflict columns, the probe of the lookups, the INSERT.
CheckConflict(p) ==
  LET o == Op(p) IN
  /\ pc[p] = "counting"
  /\ Query(p, Tab(o.t) \in objects,
           /\ IF CountRows(<<o.t, o.key>>) > 0 THEN NextOp(p)
              ELSE pc' = [pc EXCEPT ![p] = AfterCount(o)] /\ UNCHANGED <<call, todo, at>>
           /\ UNCHANGED applied)

ProbeLookups(p) ==
  LET o == Op(p) IN
  /\ pc[p] = "probing"
  /\ Query(p, \A c \in o.from : Tab(c[1]) \in objects,
           /\ IF \E c \in o.from : CountRows(c) = 0 THEN NextOp(p)
              ELSE pc' = [pc EXCEPT ![p] = "inserting"] /\ UNCHANGED <<call, todo, at>>
           /\ UNCHANGED applied)

InsertRow(p) ==
  LET o == Op(p) IN
  /\ pc[p] = "inserting"
  /\ Send(p, Accepts(o, objects),
          rows' = RowsAfter(o) /\ UNCHANGED <<objects, recorded>>,
          NextOp(p) /\ UNCHANGED applied)

Record(p) ==
  LET v == Version(p) IN
  /\ pc[p] = "recording" /\ call[p] # "rollback"
  /\ Send(p, VersionTable \in objects /\ v \notin recorded,
          recorded' = recorded \cup {v} /\ UNCHANGED <<objects, rows>>,
          /\ applied' = [applied EXCEPT ![p] = @ \cup {v}]
          /\ Goto(p, call[p], Tail(todo[p]), 1))

Unrecord(p) ==
  LET v == Version(p) IN
  /\ pc[p] = "recording" /\ call[p] = "rollback"
  /\ Send(p, VersionTable \in objects,
          recorded' = recorded \ {v} /\ UNCHANGED <<objects, rows>>,
          /\ applied' = [applied EXCEPT ![p] = @ \ {v}]
          /\ Goto(p, call[p], Tail(todo[p]), 1))

\* The process dies, at work or idle.
Crash(p) ==
  /\ pc[p] # "down"
  /\ Drop(p)
  /\ UNCHANGED <<dialect, plan, dbVars>>

Next ==
  \E p \in Procs :
    \/ RunMigrations(p) \/ ApplyMigration(p) \/ RollbackMigration(p) \/ RollbackAll(p)
    \/ Initialize(p) \/ Load(p) \/ Operation(p)
    \/ CheckConflict(p) \/ ProbeLookups(p) \/ InsertRow(p)
    \/ Record(p) \/ Unrecord(p) \/ Crash(p)

Spec == Init /\ [][Next]_vars

-----------------------------------------------------------------------------
\* The rows with conflict columns that the migrations of plan m insert.
GuardedBy(m) ==
  {<<o.t, o.key>> : o \in {x \in UNION {ToSet(m[v].up) : v \in DOMAIN m} :
                             x.op = "InsertRow" /\ x.guard}}

Guarded == GuardedBy(plan)

\* A program leaves the seeds alone: nothing else in its migrations writes those rows or
\* gives a table their table's name.  Data operations of a rollback are never run.
SeedsAlone ==
  \A s \in Settings :
    LET seeds == GuardedBy(s.plan) IN
    /\ seeds \subseteq Cells
    /\ \A v \in DOMAIN s.plan :
         /\ \A o \in ToSet(s.plan[v].up) :
              /\ o.op = "InsertRow" /\ ~o.guard => <<o.t, o.key>> \notin seeds
              /\ o.op = "UpdateRows" => <<o.t, o.to>> \notin seeds
         /\ \A o \in ToSet(s.plan[v].up) \cup ToSet(s.plan[v].down) :
              /\ o.op = "RawSql" => <<o.t, o.key>> \notin seeds
              /\ o.op = "RenameTable" => \A c \in seeds : c[1] # o.to

\* A row with conflict columns is inserted once, however often its migration fails,
\* loses an answer or starts again, while no two calls overlap (RowDefinition,
\* conflict_columns), in programs that leave their seeds alone.  Two processes at once
\* do insert it twice.
SeedOnce == "overlap" \notin marks => \A c \in Guarded : rows[c] <= 1

\* The schema that the operations of versions 1..n make of an empty database.
Stage(v, i, s) == FoldLeft(LAMBDA x, o : SchemaAfter(o, x), s, SubSeq(plan[v].up, 1, i))
Built(vs) == FoldLeft(LAMBDA s, v : Stage(v, Len(plan[v].up), s), {}, SetToSortSeq(vs, <))
Differ(s, t) == (s \ t) \cup (t \ s)
Touched(v) ==
  LET before == Built({w \in DOMAIN plan : w < v})
  IN  UNION {Differ(Stage(v, i - 1, before), Stage(v, i, before)) : i \in DOMAIN plan[v].up}

\* The tables that the first i operations of version v of plan m create.
MadeBy(m, v, i) ==
  {m[v].up[j].t : j \in {k \in DOMAIN m[v].up : k <= i /\ m[v].up[k].op = "CreateTable"}}

Keeps(ops, t) == \A o \in ToSet(ops) : o.op \in {"DropTable", "RenameTable"} => o.t # t

\* No migration takes table t away, and a rollback only where no older version made it.
Lasts(m, t) ==
  \A v \in DOMAIN m :
    /\ Keeps(m[v].up, t)
    /\ Keeps(m[v].down, t) \/ \A w \in DOMAIN m : w < v => t \notin MadeBy(m, w, Len(m[w].up))

\* A program builds on itself: it indexes a table that the same migration has made and
\* keeps, or one that an older migration has made and that lasts, and no other table
\* refers to one that it drops.
BuildsOnItself ==
  \A s \in Settings :
    LET m == s.plan IN
    \A v \in DOMAIN m : \A i \in DOMAIN m[v].up :
      LET o == m[v].up[i] IN
      /\ o.op = "AddIndex" =>
           \/ o.t \in MadeBy(m, v, i) /\ Keeps(m[v].up, o.t)
           \/ Lasts(m, o.t) /\ \E w \in DOMAIN m : w < v /\ o.t \in MadeBy(m, w, Len(m[w].up))
      /\ o.op = "DropTable" =>
           \A w \in DOMAIN m : \A x \in ToSet(m[w].up) \cup ToSet(m[w].down) :
             /\ x.op = "AddForeignKey" /\ x.n = o.t => x.t = o.t
             /\ x.op = "RenameTable" => x.to # o.t

\* Where rollbacks and other calls did not come in between, the statements written to
\* heal a rerun do: after applications that failed or were interrupted, CREATE TABLE,
\* DROP TABLE and, but for MySQL, CREATE INDEX are accepted whenever they are sent
\* (the comment on IF NOT EXISTS in operation_to_sql), in programs that build on
\* themselves.
Healing == {"CreateTable", "DropTable"} \cup (IF dialect = "mysql" THEN {} ELSE {"AddIndex"})
RerunHeals ==
  marks = {} => \A p \in Procs :
    pc[p] = "operation" /\ call[p] # "rollback" /\ Op(p).op \in Healing => Accepts(Op(p), objects)

\* A program registers its versions oldest first and leaves no older one out.
InOrder ==
  \A p \in Procs :
    /\ \A i, j \in DOMAIN Registered[p] : i < j => Registered[p][i] < Registered[p][j]
    /\ \A s \in Settings : \A v \in ToSet(Registered[p]), w \in DOMAIN s.plan :
         w < v => w \in ToSet(Registered[p])

\* Whatever fails, the versions recorded are the oldest ones: a rollback_all that stops
\* leaves no version recorded above one it undid, and two concurrent runs skip none
\* (of programs that are InOrder).
RecordedIsPrefix ==
  marks \cap {"undoing", "order"} = {} =>
    \A v \in recorded : \A w \in DOMAIN plan : w < v => w \in recorded

\* Where no calls overlapped and no rollback broke off, the schema is the one the
\* recorded versions make, except for what a version touches that is not recorded (or
\* is being undone): recorded means done, to the last operation.
RecordedIsBuilt ==
  marks = {} =>
    LET undoing == {Version(p) : p \in {q \in Procs : call[q] = "rollback"}}
        open == (DOMAIN plan \ recorded) \cup undoing
    IN  Differ(objects \ {VersionTable}, Built(recorded)) \subseteq UNION {Touched(v) : v \in open}

\* run_migrations returns Ok only when every registered version is recorded, also when
\* this Migrator remembers versions another process has since rolled back.
OkMeansApplied ==
  [][ \A p \in Procs :
        call[p] = "run" /\ pc'[p] = "idle" /\ "undoing" \notin marks =>
          ToSet(Registered[p]) \subseteq recorded' ]_vars
=============================================================================
