------------------------------- MODULE DataCopy -------------------------------
(***************************************************************************)
(* A run of one of the copy programs of src/src/bin, from its arguments to *)
(* its exit, and the database it writes to.  The six share this control;   *)
(* what differs is in CopyTools.  The program may be killed at any point   *)
(* and started again, and a call to a server may time out.                 *)
(*                                                                         *)
(* As in Transactions a statement is one step and its answer one message:  *)
(* a call reads the first message of the stream, and a PostgreSQL call     *)
(* that reads an error leaves ReadyForQuery for the next call.             *)
(***************************************************************************)
EXTENDS CopyTools

CONSTANTS Jobs,        \* set of [tool, source, given, flags, batch]: the tables of the
                       \* source and the arguments, flags being those that name no database
          Stale,       \* rows an earlier table of the same name may hold
          MaxRuns,     \* bound on how often the program is started
          MaxUnread    \* bound on the answers left in the stream

ASSUME CopyAssumption ==
  /\ MaxRuns \in Nat /\ MaxUnread \in Nat
  /\ Stale \in Seq(ToSet(Stale))
  /\ \A j \in Jobs : j.tool \in Tools /\ j.batch \in Nat

VARIABLES
  job,      \* the arguments and what the program makes of each table
  pc,       \* the call the program makes next
  cur,      \* the table it has reached
  offset,   \* local of migrate_table
  page,     \* the rows of the page that are not inserted yet
  said,     \* what it printed about each table
  target,   \* the tables of the target: [def, rows]
  tx,       \* the transaction open in the session: [st, rows]
  unread,   \* answers in the stream that no call has read
  runs,     \* how often the program was started
  fresh,    \* history: the tables the target dropped in this run
  base,     \* history: the rows of each table when the copy of it began
  pages,    \* history: the pages of each table that were read in this run
  doubt     \* history: a call of this run has left an answer in the stream, or may have

progVars == <<job, pc, cur, offset, page, said, runs>>
dbVars   == <<target, tx, unread>>
history  == <<fresh, base, pages, doubt>>
vars     == <<progVars, dbVars, history>>

\* --tables names the tables, else the catalog lists them.
Chosen(j) == IF "tables" \in j.flags THEN j.source ELSE SelectSeq(j.source, LAMBDA t : Listed(j.tool, t))

\* The tables a job comes to are a sequence, each as its source may describe it.
ASSUME SourceAssumption ==
  \A j \in Jobs : /\ Chosen(j) \in Seq(ToSet(Chosen(j)))
                  /\ \A t \in DOMAIN Chosen(j) : IsTable(Main(j.tool).source, Chosen(j)[t])

\* What the program makes of each table that has columns.
Plan(j) ==
  LET todo  == Chosen(j)
      there == {t \in DOMAIN todo : todo[t].cols # <<>>}
  IN  [tool |-> j.tool, given |-> j.given, flags |-> j.flags, batch |-> j.batch, todo |-> todo,
       built |-> [t \in there |-> Built(j.tool, todo[t])],
       paging |-> [t \in there |-> Migrate(j.tool, todo[t])]]

Todo   == job.todo
Result == job.built
Paged  == job.paging[cur]
N      == Len(Todo)
Source == Todo[cur]
Kind   == Main(job.tool).target
Absent == [def |-> <<>>, rows |-> <<>>]
NoTx   == [st |-> "none", rows |-> <<>>]
Ended  == {"done", "failed", "help"}

Init ==
  /\ \E j \in Jobs : job = Plan(j)
  /\ pc = "args"
  /\ cur = 1 /\ offset = 0 /\ page = <<>>
  /\ said = [t \in 1..N |-> "nothing"]
  /\ \E old \in SUBSET {t \in DOMAIN Result : Accepts(Kind, Result[t])} :
       target = [t \in 1..N |-> IF t \in old THEN [def |-> Result[t], rows |-> Stale]
                                             ELSE Absent]
  /\ tx = NoTx /\ unread = <<>>
  /\ runs = 1
  /\ fresh = {} /\ doubt = FALSE
  /\ base = [t \in 1..N |-> <<>>]
  /\ pages = [t \in 1..N |-> <<>>]

-----------------------------------------------------------------------------
(* The target (external): what a statement does, and what it answers.      *)

Outcome(tab, t, ok) == [tab |-> tab, tx |-> t, ok |-> ok]
Refused == Outcome(target, IF Kind = "postgresql" /\ tx.st # "none" THEN [tx EXCEPT !.st = "aborted"] ELSE tx,
                   FALSE)

\* A table others refer to is not dropped.
DropOn == {Outcome([target EXCEPT ![cur] = Absent], tx, TRUE), Refused}

CreateOn(b) ==
  IF target[cur] # Absent THEN {Outcome(target, tx, TRUE)}
  ELSE IF Accepts(Kind, b) THEN {Outcome([target EXCEPT ![cur] = [def |-> b, rows |-> <<>>]], tx, TRUE)}
  ELSE {Refused}

BeginOn == {Outcome(target, [st |-> "open", rows |-> <<>>], TRUE)}

KeyValue(b, row) == IF Cardinality(KeyOf(b)) = 1 THEN row.k ELSE row

Collides(row) ==
  LET b == target[cur].def IN
  /\ KeyOf(b) # {}
  /\ \E r \in ToSet(target[cur].rows \o tx.rows) : KeyValue(b, r) = KeyValue(b, row)

InsertOn(row, holes) ==
  LET wrong == holes # (IF Kind = "postgresql" THEN "$" ELSE "?")
      kept == IF tx.st = "none" THEN Outcome([target EXCEPT ![cur].rows = Append(@, row)], tx, TRUE)
                                ELSE Outcome(target, [tx EXCEPT !.rows = Append(@, row)], TRUE)
  IN  IF wrong \/ target[cur] = Absent \/ tx.st = "aborted" \/ Collides(row) THEN {Refused}
      ELSE {kept, Refused}

\* SQLite may be busy and keep the transaction; PostgreSQL may refuse and undo it.
CommitOn ==
  LET kept   == Outcome([target EXCEPT ![cur].rows = @ \o tx.rows], NoTx, TRUE)
      undone == Outcome(target, NoTx, TRUE)
  IN  IF tx.st = "aborted" THEN {undone}
      ELSE CASE Kind = "sqlite" -> {kept, Outcome(target, tx, FALSE)}
             [] Kind = "mysql" -> {kept}
             [] Kind = "postgresql" -> {kept, [undone EXCEPT !.ok = FALSE]}

Answer(ok) == IF ok \/ Kind # "postgresql" THEN <<ok>> ELSE <<ok, TRUE>>

Apply(o) == target' = o.tab /\ tx' = o.tx

Call(outcomes, got) ==
  /\ \/ \E o \in outcomes :                        \* sent, and an answer read
          LET wire == unread \o Answer(o.ok) IN
          /\ Apply(o)
          /\ got = Head(wire)
          /\ unread' = Tail(wire)
          /\ doubt' = (doubt \/ unread' # <<>>)
     \/ \E o \in outcomes :                        \* sent, timed out
          /\ Kind # "sqlite" /\ ~got
          /\ Apply(o)
          /\ unread' = unread \o Answer(o.ok)
          /\ doubt' = TRUE
     \/ /\ Kind # "sqlite" /\ ~got                 \* timed out before it was sent
        /\ UNCHANGED <<target, tx, unread, doubt>>
  /\ Len(unread') <= MaxUnread

-----------------------------------------------------------------------------
(* The end of the process: the server rolls back what the session has open. *)

Exit(how) ==
  /\ pc' = how
  /\ tx' = NoTx /\ unread' = <<>>
  /\ UNCHANGED <<job, cur, offset, page, said, runs, target, fresh, base, pages, doubt>>

Goto(next) == pc' = next /\ UNCHANGED <<job, runs>>

\* The next table, or the end of the loop.
NextTable == Goto(IF cur < N THEN "columns" ELSE "close") /\ cur' = cur + 1

Say(words) == said' = [said EXCEPT ![cur] = words]

-----------------------------------------------------------------------------
(* main                                                                    *)

\* parse_args: help without arguments, an error when a required flag was not
\* given; a flag at the end of the line counts as given without its value.
ParseArgs ==
  /\ pc = "args"
  /\ \/ job.given = {} /\ Exit("help")
     \/ job.given # {} /\ ~(Required(job.tool) \subseteq job.given) /\ Exit("failed")
     \/ /\ Required(job.tool) \subseteq job.given
        /\ Goto("connect")
        /\ UNCHANGED <<cur, offset, page, said, dbVars, history>>

\* Both databases are opened and pinged and the schema and the tables are read.
Connect ==
  /\ pc = "connect"
  /\ \/ Exit("failed")
     \/ /\ Goto(IF N = 0 THEN "close" ELSE "columns")
        /\ UNCHANGED <<cur, offset, page, said, dbVars, history>>

\* A table without columns, as one that does not exist has, is skipped.
FetchColumns ==
  /\ pc = "columns"
  /\ \/ Exit("failed")
     \/ Source.cols = <<>> /\ NextTable /\ Say("skipped") /\ UNCHANGED <<offset, page, dbVars, history>>
     \/ /\ Source.cols # <<>>
        /\ \/ "data_only" \notin job.flags /\ Goto("drop") /\ UNCHANGED cur
           \/ job.flags = {"data_only"} /\ Goto("page") /\ UNCHANGED cur
           \/ job.flags = {"data_only", "create_only"} /\ NextTable
        /\ offset' = 0
        /\ UNCHANGED <<page, said, dbVars, history>>

\* `let _ =`: whatever the DROP answered, CREATE follows.
DropOld ==
  /\ pc = "drop"
  /\ \E got \in BOOLEAN : Call(DropOn, got)
  /\ Goto("create")
  /\ fresh' = IF target'[cur] = Absent THEN fresh \cup {cur} ELSE fresh
  /\ UNCHANGED <<cur, offset, page, said, base, pages>>

\* A table that cannot be created is reported and skipped.
CreateTable ==
  /\ pc = "create"
  /\ \E got \in BOOLEAN :
       /\ Call(CreateOn(Result[cur]), got)
       /\ \/ ~got /\ Say("skipped") /\ NextTable
          \/ got /\ Say("created") /\ "create_only" \in job.flags /\ NextTable
          \/ got /\ Say("created") /\ "create_only" \notin job.flags /\ Goto("page") /\ UNCHANGED cur
  /\ UNCHANGED <<offset, page, fresh, base, pages>>

-----------------------------------------------------------------------------
(* migrate_table                                                           *)

\* Mutant: no ORDER BY.
AnyOrder == SetToSeqs(DOMAIN Source.rows)

\* The orders the source may return its rows in; ties are broken anew each time.
Orders ==
  LET rows == Source.rows
      byAll == Len(Paged.order) = Len(Source.cols)
      before(a, b) == IF byAll /\ a.k = b.k THEN a.r <= b.r ELSE a.k <= b.k
  IN  {p \in SetToSeqs(DOMAIN rows) : \A i, j \in DOMAIN p : i < j => before(rows[p[i]], rows[p[j]])}

\* PostgreSQL has no order for json.
Sortable ==
  Main(job.tool).source = "postgresql" =>
    \A i \in DOMAIN Source.cols :
      Source.cols[i].name \in ToSet(Paged.order) => Source.cols[i].type # "json"

\* Mutant: an empty page is not the end.
ReadPageForever ==
  /\ pc = "page" /\ Sortable
  /\ \E p \in Orders :
       LET rows == [i \in 1..Min({job.batch, Len(p) - offset}) |-> Source.rows[p[offset + i]]] IN
       /\ Goto(IF rows = <<>> THEN "page" ELSE "begin") /\ page' = rows
       /\ pages' = IF rows = <<>> THEN pages ELSE [pages EXCEPT ![cur] = Append(@, rows)]
       /\ UNCHANGED <<said, cur>>
  /\ base' = IF offset = 0 THEN [base EXCEPT ![cur] = target[cur].rows] ELSE base
  /\ UNCHANGED <<offset, dbVars, fresh, doubt>>

\* LIMIT batch OFFSET offset; the first empty page ends the table.
ReadPage ==
  /\ pc = "page"
  /\ \/ Exit("failed")
     \/ /\ Sortable
        /\ base' = IF offset = 0 THEN [base EXCEPT ![cur] = target[cur].rows] ELSE base
        /\ \E p \in Orders :
             LET rows == [i \in 1..Min({job.batch, Len(p) - offset}) |-> Source.rows[p[offset + i]]] IN
             \/ /\ rows = <<>> /\ Say("copied") /\ NextTable
                /\ UNCHANGED <<page, pages>>
             \/ /\ rows # <<>> /\ Goto("begin") /\ page' = rows
                /\ pages' = [pages EXCEPT ![cur] = Append(@, rows)]
                /\ UNCHANGED <<said, cur>>
        /\ UNCHANGED <<offset, dbVars, fresh, doubt>>

\* An error of begin, insert or commit ends the program through `?`.
Step(outcomes, onOk) ==
  \E got \in BOOLEAN :
    /\ Call(outcomes, got)
    /\ Goto(IF got THEN onOk ELSE "failing")

\* Mutant: the rows are inserted without a transaction.
BeginNothing ==
  /\ pc = "begin"
  /\ Goto("insert")
  /\ UNCHANGED <<cur, offset, page, said, dbVars, history>>

BeginBatch ==
  /\ pc = "begin"
  /\ Step(BeginOn, "insert")
  /\ UNCHANGED <<cur, offset, page, said, fresh, base, pages>>

InsertRow ==
  /\ pc = "insert"
  /\ Step(InsertOn(Head(page), Paged.holes), IF Len(page) = 1 THEN "commit" ELSE "insert")
  /\ page' = Tail(page)
  /\ UNCHANGED <<cur, offset, said, fresh, base, pages>>

CommitBatch ==
  /\ pc = "commit"
  /\ Step(CommitOn, "page")
  /\ offset' = offset + Len(Last(pages[cur]))
  /\ UNCHANGED <<cur, page, said, fresh, base, pages>>

\* The Transaction is dropped without a statement; the process is gone.
Failing == pc = "failing" /\ Exit("failed")

Close ==
  /\ pc = "close"
  /\ Exit("done") \/ Exit("failed")

-----------------------------------------------------------------------------
Killed == pc \notin Ended /\ Exit("failed")

\* The same command is given again.
Rerun ==
  /\ pc \in Ended /\ runs < MaxRuns
  /\ pc' = "args" /\ runs' = runs + 1
  /\ cur' = 1 /\ offset' = 0 /\ page' = <<>>
  /\ said' = [t \in 1..N |-> "nothing"]
  /\ fresh' = {} /\ doubt' = FALSE
  /\ base' = [t \in 1..N |-> <<>>]
  /\ pages' = [t \in 1..N |-> <<>>]
  /\ UNCHANGED <<job, dbVars>>

Program == \/ ParseArgs \/ Connect \/ FetchColumns \/ DropOld \/ CreateTable
           \/ ReadPage \/ BeginBatch \/ InsertRow \/ CommitBatch \/ Failing \/ Close

Next == Program \/ Killed \/ Rerun

Spec == Init /\ [][Next]_vars

\* The runtime polls the program: every call returns, at the latest by its
\* timeout, and the program goes on.
FairSpec == Spec /\ WF_vars(Program)

-----------------------------------------------------------------------------
(* Properties.                                                             *)

Copies(s, r) == Cardinality({i \in DOMAIN s : s[i] = r})
SameRows(a, b) == \A r \in ToSet(a) \cup ToSet(b) : Copies(a, r) = Copies(b, r)

\* A table reported copied holds every row of the source once, beside the rows
\* that were there when the copy began, and none were there in a table this run
\* dropped and created, whatever an earlier run that failed or was killed has
\* left: unless the batch is 0 or an answer was left unread.
CopyIsWhole ==
  ~doubt /\ job.batch > 0 =>
    \A t \in 1..N : said[t] = "copied" =>
      /\ SameRows(target[t].rows, base[t] \o Todo[t].rows)
      /\ t \in fresh => base[t] = <<>>

\* At every moment, also after a failure or a kill between two statements, the
\* rows a run has added to a table are its first pages, whole and in order.
BatchAtomic ==
  ~doubt =>
    \A t \in 1..N : pages[t] # <<>> =>
      \E n \in 0..Len(pages[t]) : target[t].rows = base[t] \o FlattenSeq(SubSeq(pages[t], 1, n))

\* What each source tells of its UNIQUE constraints: none on the key or on one
\* column of it, which every program takes for the key alone.
UniquesRead(t) ==
  LET all == ToSet(t.uniques) \ ({t.pkey} \cup {<<c>> : c \in ToSet(t.pkey)}) IN
  CASE Main(job.tool).source = "postgresql" -> all
    [] Main(job.tool).source = "mysql" -> {u \in all : Len(u) = 1}
    [] Main(job.tool).source = "sqlite" -> {}

KeepsUnique(b, u) ==
  \/ u \in ToSet(b.uniques)
  \/ \E i \in DOMAIN b.cols : u = <<b.cols[i].name>> /\ b.cols[i].unique

\* A default means the same in the new table; the last pairs are those that
\* change: a function call becomes its own text, a quoted string is cut.
SameDefault(was, now) ==
  \/ was = now
  \/ <<was, now>> \in {<<"nextval", "none">>, <<"utcnow", "now">>, <<"true", "number">>, <<"false", "number">>}
  \/ <<was, now>> \in {<<"call", "string">>, <<"user", "string">>, <<"clock", "string">>, <<"quoted", "other">>}

\* The default the program can read: none of MySQL.
DefaultRead(c) == IF Main(job.tool).source = "mysql" THEN "none" ELSE c.def

\* A table reported created is there, with the columns, the primary key, the
\* NOT NULLs, and those unique constraints and defaults of the source that the
\* program can read: in a run that has dropped the old one and has left no answer
\* unread.
TableKept ==
  ~doubt =>
    \A t \in fresh : said[t] \in {"created", "copied"} =>
      LET b == target[t].def
          s == Todo[t]
      IN  /\ target[t] # Absent
          /\ Names(b.cols) = Names(s.cols)
          /\ KeyOf(b) = ToSet(s.pkey)
          /\ \A u \in UniquesRead(s) : KeepsUnique(b, u)
          /\ \A i \in DOMAIN s.cols :
               /\ s.cols[i].notnull => b.cols[i].notnull \/ b.cols[i].name \in KeyOf(b)
               /\ b.cols[i].auto \/ SameDefault(DefaultRead(s.cols[i]), b.cols[i].def)

\* The types some value of which is refused or changed on the way, each with the
\* type it is given: unsigned, exact and short numbers, lengths, fractions of a
\* second, dates that are none, times of more than a day or with a zone, text that
\* is read as bytes and bytes that are read as text, money and bits as text, a
\* DATETIME of SQLite that becomes a DATE.  A date stored as its midnight is kept.
Lossy ==
  CASE job.tool = "mysql2sqlite" ->
         {<<"bigint", "INTEGER">>, <<"decimal", "REAL">>, <<"float", "REAL">>}
         \cup ({"bit", "binary", "varbinary"} \X {"BLOB"})
         \cup ({"text", "longtext", "datetime", "timestamp"} \X {"TEXT"})
    [] job.tool = "mysql2postgresql" ->
         {<<"smallint", "SMALLINT">>, <<"int", "INTEGER">>, <<"int", "SERIAL">>, <<"bigint", "BIGINT">>,
          <<"bigint", "BIGSERIAL">>, <<"decimal", "NUMERIC">>, <<"float", "REAL">>, <<"bit", "BIT">>,
          <<"char", "CHAR">>, <<"text", "TEXT">>, <<"longtext", "TEXT">>, <<"binary", "BYTEA">>,
          <<"varbinary", "VARCHAR">>, <<"date", "DATE">>, <<"datetime", "TIMESTAMP">>,
          <<"timestamp", "TIMESTAMP">>, <<"time", "TIME">>}
    [] job.tool = "postgres2sqlite" ->
         {<<"numeric", "REAL">>, <<"money", "REAL">>, <<"bit", "BLOB">>, <<"varbit", "BLOB">>,
          <<"timestamp", "DATETIME">>, <<"timestamptz", "DATETIME">>}
    [] job.tool = "postgresql2mysql" ->
         {<<"numeric", "DECIMAL">>, <<"money", "DECIMAL(19,2)">>, <<"bpchar", "CHAR(1)">>, <<"bytea", "BLOB">>,
          <<"bit", "BIT">>, <<"varbit", "VARBINARY(255)">>, <<"timestamp", "DATETIME">>,
          <<"timestamptz", "DATETIME">>, <<"time", "TIME">>, <<"timetz", "TIME">>, <<"citext", "TEXT">>}
         \cup ({"varchar", "text", "array", "json", "jsonb", "citext", "bytea"} \X {"VARCHAR(255)"})
    [] job.tool = "sqlite2mysql" ->
         (Text \X {"TEXT"}) \cup {<<"TIMESTAMP", "DATETIME">>, <<"TIME", "DATETIME">>, <<"DATETIME", "DATE">>}
    [] job.tool = "sqlite2postgres" ->
         (SqliteInt \X {"SERIAL"}) \cup {<<"TIME", "TIMESTAMP">>, <<"DATETIME", "DATE">>}

\* Lossy is exact: a column of the new table is given every value the column it
\* was made from may hold, through the two drivers and the type the program chose,
\* if and only if the pair of types is none of those.
ValuesFit ==
  \A t \in fresh : said[t] \in {"created", "copied"} /\ ~doubt =>
    \A i \in DOMAIN Todo[t].cols :
      LET was == Todo[t].cols[i].type
          now == target[t].def.cols[i].type
      IN  <<was, now>> \notin Lossy <=> Arrives(Main(job.tool).source, was, Kind, now)

\* Every run ends: the offset moves by the rows read, so a page is empty at last.
EveryRunEnds == pc \notin Ended ~> pc \in Ended

\* "ORDER BY keeps the order stable ... else a row may be read twice"
\* (mysql2sqlite.rs:355): no row of a table is in two of its pages.
NoRowReadTwice == \A t \in 1..N : IsInjective(FlattenSeq(pages[t]))
=============================================================================
