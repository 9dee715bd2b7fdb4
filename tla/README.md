# TORM in TLA+

TORM (`src/`) is an asynchronous ORM in Rust over tokio. It speaks the PostgreSQL
and MySQL wire protocols itself, drives SQLite through rusqlite, and has an
in-memory storage engine of its own. This directory holds TLA+ models of the
parts of it that keep state, or build what others execute: their configurations for TLC, theorems checked
with TLAPS, and the places where the models showed the code to do something
else than its comments say.

Source paths below are relative to `src/src/` unless they start with `src/`.

## 1. Inventory

| Part | Source | State | Operations | What makes it hard |
|---|---|---|---|---|
| PostgreSQL connection | `db/postgresql.rs` | `Arc<Mutex<Option<TcpStream>>>`, `connected` flag; the bytes in flight | `run_query` (simple or extended protocol), `ping`, `close`, `is_connected` | clones in many tasks; a timeout drops the future at any await and leaves the answer in the stream; errors end the read loop early |
| MySQL connection | `db/mysql.rs` | the same, and the statements prepared on the server | `run_query` (COM_QUERY or prepare / execute / close), `ping`, `close` | the number of packets depends on a negotiated capability; two writes per packet; prepared statements must not leak |
| SQLite connection | `db/sqlite.rs` | a std mutex around `rusqlite::Connection` | `execute`, `query`, `close` | nothing: a call is one critical section |
| Startup and authentication | `db/postgresql.rs`, `db/mysql.rs` | the handshake of a stream no one else sees yet | `connect_and_authenticate` | the server chooses the order of the messages; two sequence counters; refusals at any point; where exactly to stop reading |
| Pool | `utils/simple_pool.rs`, `db/pool.rs` | a queue of idle connections, `max_size`, two counters | `get` (polls 10 ms, at most 30 s), `put`, `close`, `status`; `Pool::get_connection`, `return_connection`, `close` | waiting, exhaustion, a close while others hold connections |
| Transaction, Database | `db/database.rs` | two flags in the object; the transaction itself is on the server | `begin_transaction`, `commit`, `rollback`, `execute`, `Drop`; `create`, `first`, `last`, `all`, `update`, `delete`, `auto_migrate` | the connection is shared by all clones, so a statement of any task runs inside whatever transaction is open |
| Caches | `utils/simple_lru.rs`, `monitoring/performance.rs` | a map and a queue of keys, expiry times | `get`, `put`, `remove`, `clear`, `resize`; `set_with_ttl`, `invalidate_prefix`, `cleanup_expired` | two structures that must agree; `get` writes |
| Storage engine | `db/storage.rs`, `db/async_storage.rs` | tables with schema and rows; one file | `create_table`, `drop_table`, `insert`, `select`, `update`, `delete`, `clear`, `save_to_file`, `load_from_file` | the file is overwritten in place; wrapping page arithmetic; types that change on their way through the file |
| Migrator | `orm/migration.rs` | the version table, the versions a Migrator has loaded | `initialize`, `run_migrations`, `apply_migration`, `rollback_migration`, `rollback_all`, fifteen kinds of operation | a crash between the operations of a migration and its record; two processes at once |
| Model layer | `torm-derive/src/lib.rs`, `orm/model.rs`, `db/database.rs` | the models callers hold; the table; the JSON document that mirrors columns | generated `columns`, `from_row`, `schema`, `sync_json_fields`; `auto_migrate`, `create`, `first`, `last`, `all`, `update`, `delete` | a value passes five conversions and two protocols; a copy in memory is stale once another task writes; `auto_migrate` stops half way |
| Query builders, relations | `orm/query.rs`, `orm/advanced_query.rs`, `orm/relations.rs` | conditions, bindings, joins, a page | `where_*`, `or`, `order_by`, `limit`, `offset`, `paginate`, joins, `group_by`, `having`, the `build*` family, `convert_placeholders` | placeholders and bindings are matched by position alone; page arithmetic in u64; one scanner decides what is a literal |
| Copy tools | `bin/*.rs` (six programs) | a source, a destination, a page of rows in a transaction | the `*2*` programs | partial failure, kill and rerun; pages are separate queries; types and defaults of three dialects |
| SQL safety, drivers, errors, identifiers | `utils/`, `db/driver.rs`, `db/error.rs` | none between calls | pure functions on text | |
| Loggers and monitors | `monitoring/` | counters and buffers nobody decides on | | |

How they interact. A `Database` owns one `DatabaseConnection` (an enum of the
three drivers) and hands clones of it to every `Transaction` it begins. A clone is an `Arc`:
all clones share one stream and therefore one server session. A `Pool` keeps such
connections in a queue and hands them out. The migrator, the models and the copy tools
issue statements through a `Database`, which sends the text the query builders wrote.
A connection that startup hands over is where the connection modules begin. The caches and the storage engine stand alone: a
mutex around the whole structure, held from the start of an operation to its end.

What makes each part correct:

* a connection: one task at a time on the stream; an answer goes to the call that asked for
  it; a failed call is known to have failed; every call returns, but for a close that the backend lets hang; prepared statements are closed;
* the pool: a connection is in one place, nothing is lost from sight, the queue fits, a close empties it;
* a transaction: commit makes its rows durable, rollback undoes them, no server transaction is left without an owner;
* `create`: the id it sets is the id of the row it inserted;
* a cache: queue and map agree, it serves the last value set or nothing, and evicts the oldest;
* the engine: rows fit their schema, a page is the right slice, a load finds the last save or fails;
* the migrator: the version table tells what the schema is, a rerun after a failure goes through, seeds are inserted once;
* the copy tools: what is reported copied is whole, a run that stopped leaves whole pages only, the new table keeps the constraints and
  fits the values of the old one, every run ends;
* a query builder: the statement selects what the chain of calls says, or is refused; paging reads each row once;
* a model: a read returns what was written; the mirror of a column agrees with it; a declared unique key holds unless its index is another's by name;
* startup: what it hands over is ready with nothing unread; the right password gets in.

## 2. Modules

| Module | Models | Composed with |
|---|---|---|
| `DbSession` | the abstract promise of a shared connection: a statement runs at most once, its caller gets one verdict, the verdict is the server's while the session can be trusted | implemented by the next two |
| `PgConnection` | `PostgresConnection` and the part of a backend it talks to | `Session == INSTANCE DbSession` |
| `PgConnectionProofs` | theorems of `PgConnection` | extends it |
| `MySqlConnection` | `MySqlConnection` and the part of a MySQL server it talks to | `Session == INSTANCE DbSession` |
| `MySqlConnectionProofs` | theorems of `MySqlConnection` | extends it |
| `ConnPool` | `SimplePool` and `Pool` | |
| `Transactions`, `MCTransactions` | `Transaction` and `Database::create` on a shared session of each dialect | statements are atomic, which `PgConnection` and `MySqlConnection` justify |
| `Filtering` | Rust's `retain` and `filter` on a sequence | extended by `QueryCache`, `StorageEngine` and `Migrator` |
| `QueryCache`, `MCQueryCache` | `SimpleLruCache`, `QueryCache`, `PreparedStatementCache` | |
| `StorageFile` | `encode` and `decode` | extended by the next |
| `StorageEngine`, `MCStorage` | `StorageEngine` behind `AsyncStorageEngine`, LIKE, LIMIT / OFFSET | |
| `InMemoryProofs` | theorems of `QueryCache` and of `StorageEngine` | extends both |
| `Migrator`, `MCMigrator` | `Migrator` in several processes on one database of each dialect | statements are atomic, as in `Transactions` |
| `MigratorProofs` | theorems of `Migrator` | extends it |
| `CopyTools` | what each of the six copy programs makes of a table: columns read, types, defaults, CREATE TABLE, pages | extended by the next |
| `DataCopy`, `MCDataCopy` | a run of a copy program, and its target | calls as in `Transactions` |
| `DataCopyProofs` | theorems of `DataCopy` | extends it |
| `SqlText` | conditions and their text, a server that reads it, `convert_placeholders` | extended by the next |
| `QueryBuilders`, `MCQueryBuilders` | `Query`, `QueryBuilder`, `AdvancedQuery`, `Relation::build_query` | |
| `ModelValues` | the way of a value: model, driver, column, driver, model, on each dialect | extended by the next |
| `Models`, `MCModels` | `#[derive(Model)]` and the operations of `Database` on models | statements are atomic, as in `Transactions` |
| `DatabaseProofs` | theorems of `Transactions` and `Models`, the two specifications of `db/database.rs` | extends both |
| `Startup` | `connect_and_authenticate` of both drivers and the servers' login dialogues | ends where the connection modules begin |
| `ConnectProofs` | theorems of `Startup` and `ConnPool`: a connection is opened, or taken from those that are open | extends both |
| `SequenceLemmas` | what the proofs need of sequences: queues, streams, filters, induction over positions | extended by the connection, cache, migrator and copy proofs |

A definition commented "Mutant" is the definition below it with a mistake
in it. The runs do not use it. It is there to show that a property notices
that mistake: replacing the definition by its mutant makes TLC report the property.

### 2.1 The connections

`pc[t]` is where the future of task `t` is. A call is `Execute` (`issued` gives it
a number), `Acquire` (the tokio mutex is first come, first served: `queue`, whose head is
the holder), one `Write` action per flush, one `Read` step per message, and `Return`. `Timeout`
is enabled at every await of a call, because `tokio::time::timeout` wraps the
whole of `run_query` and drops the future wherever it is. What it leaves depends on where:
nothing while it waits for the lock; an answer no one will read once the
request was written (`faults` / `doubt` gets "timeout"); half a pipeline, or, inside a write (`TimeoutInWrite`), some messages of it and half a
message ("cut": `ServeCut` and `ServeHalf` are what a backend may make of those); half
a message read, after which message boundaries are lost for good ("torn"). `close`
reads the flag, waits for the lock without a timeout, takes the stream, writes to it and clears the flag.

A message is its type byte and the statement it belongs to; `acc` collects the
statements an answer was put together from, so "whose answer is this" can be asked of any
result. Once boundaries are lost a read may be anything (0 stands for bytes of no statement).

The server is external: it may answer, refuse, answer rows and then an error, stay silent
for ever, or die at any moment. PostgreSQL's skips to the next Sync after an error
in the extended protocol. MySQL's sends EOF packets, or none where
CLIENT_DEPRECATE_EOF was negotiated (`eofs`).

### 2.2 The pool

`idle` is the queue; `held` and `drain` say which task has which connection (`drain`:
inside the loop of `Pool::close`); `gone` are dropped ones. `Poll` is one turn of
the loop in `get`, `Expire` its timeout, which is only looked at after a failed try. `api`
says which of the two interfaces is used: `SimplePool::put` queues, or drops when the queue is full;
`Pool::return_connection` drops (`pool.rs:95`). `OpenSpare`: a caller may put a connection
of its own, because `put` takes any value.

### 2.3 Transactions

`srv` is the server session (open transaction, aborted flag, pending and durable
rows, next key, last key), `unread` the answers in the stream that no call read, `obj`
the state of the `Transaction` of each task. One statement is one step, since the connection
holds its mutex from the first byte to the answer; `Call` says what a call may meet:
the answer, a timeout before or after the server ran it, and, on PostgreSQL, a
ReadyForQuery left behind by an error, which the next call takes for its answer. The dialects
differ in `BeginOn`, `CommitOn`, `RollbackOn` and in how `create` learns its key. `mine`, `solo`,
`orphan` and `doubt` are history variables of the properties.

### 2.4 Caches

`map` and `order` are the two structures of `SimpleLruCache`; `Get`, `Set`, `LruRemove`,
`Resize` are its operations (`remove` keeps the other keys in their order, `Retain`), and `expiring` says whether the `QueryCache` (entries with an
expiry time, `now`) or the bare cache is meant. `last`, `recent`, `smallest` and
`got` are history variables.

### 2.5 Storage

`tables` maps names to a schema and a sequence of rows (`TablesData`). A value is a type and a number.
`Encode` and `Decode` work on fields instead of bytes, in the order of the code, with its
shared tags (8, 16 and 32 bit integers share one, as do the floats) and its check for
the end of the file. `SaveTorn` is a write that stops half way. `Page` computes LIMIT
and OFFSET in arithmetic that wraps around at `UsizeMax`, `usize::MAX`; no table has more rows than that. `LikeMatcher` is the loop of `like_matcher`, `LikeTurn` a turn of it, run for as many turns as it
can take.

### 2.6 Migrator

`objects`, `rows` and `recorded` are the database: its schema, how often it holds each row, and
`schema_migrations`. `pc[p]` is the statement process `p` sends next, `todo[p]` and `at[p]` the loops of
the method in `call[p]`, `applied[p]` the versions its Migrator remembers. Every statement goes through `Send`: it runs and its answer
arrives, it runs and the answer is lost, it is refused, or it never ran; the last three end the call
with Err, which on a network connection that may be out of step means that the process starts again with a new Migrator. `Crash`
may come between any two statements. `Accepts` and `SchemaAfter` say what `operation_to_sql` makes of an
operation: which statements have IF [NOT] EXISTS in which dialect, and which are no SQL of it. `apply_insert_row` is its
three statements (`CheckConflict`, `ProbeLookups`, `InsertRow`). In a rollback `operation_to_sql` gives
a data operation as text for a log, which no database accepts (`DebugText`). `marks` is the history the
properties are conditional on.

### 2.7 Copy tools

`job` is the command line with what the program makes of each table, computed once by `Plan`; `pc` is the call it makes
next, `cur`, `offset` and `page` its position, `said` what it printed about each table, `target` the tables it writes to,
`tx` the open transaction, `unread` the answers nobody read. Every call to the target goes through `Call`, which is answered,
refused, or times out before or after the server ran it; `Killed` may come anywhere, `Rerun` starts the program again on what is there.
`CopyTools` holds what differs between the programs, one set of operators each (`M2S...` is `mysql2sqlite`, and so on). Its type and default
tables are the `match` arms of the source. A default is named by what it stands for (`"now"`, `"string"`), not
spelled; a string default may be empty, spell a keyword (`"word"`) or have quotes at its ends (`"quoted"`), and `"other"` is one that has become something else.
A value is a kind (`Values`: what a column of a type may hold) and a form (`Yields`: what the driver of the source decodes it to: a number, a text, a time, bytes, or a number
that was rounded); `Stores` says whether a column of the target takes the two unharmed, and `Arrives` that it takes all of them. `Accepts` says which CREATE TABLE a target takes. `fresh`, `base`, `pages` and `doubt` are history variables.

### 2.8 Query builders

`q` is the builder, `asked` the calls as the caller made them, `stmt` the statement built, `pager` a loop over `paginate`, `text` raw
SQL typed character by character. SQL text is a sequence of tokens (a comparison with its number of `?`, a parenthesis, AND, OR);
`Bound` fills the holes with the bindings by position, as a server does, and `Filter` reads the tokens with a stack, so that precedence and
malformed text are what they are to a server. `Run` and `CanRun` are the external server: which rows the statement touches, or that it is
refused. The three builders differ as in the code: `QueryBuilder` renders each condition at the call, the others when they build.

### 2.9 Models

`shape` is the dialect and the model: a field `x` of one of the twelve supported types, optional or not, two columns mirrored in the JSON column `data`,
timestamps as a field or as a `Timestamps` struct. `ToColumn`, the encoding and decoding of each driver, the column's own
conversion and `FromColumn` are composed in `FromRow`; a conversion that may fail is a set that may be empty. `Stored` says what a row keeps.
`mem` are the copies tasks hold; `todo` is where `auto_migrate` is in its list of indexes; `Restart` is the start of the program in
another version with other indexes, plain or unique. The server knows an index by its name, whatever its columns, and `table.indexes` has those of other tables
too (`Foreign`). `TableByHand` is a table made outside. `Outcomes` of a statement: answered, refused, and on
a network carried out with the answer lost. `fresh`, `last`, `wrote`, `kept` are history variables.

### 2.10 Startup

`conf` is the configuration of client and server, `client` and `server` their steps, `up` and `down` the two directions of the stream. A message is `<<t, code, seq,
body>>`; a proof of the password is the term `<<hash, password, salt>>`, so the question "is this digest the one the server expects" is equality of
terms. One action per message read (`PgReadAuthentication`, `MyReadGreeting`, `MyReadSwitch`, ...), each with everything its
handler writes in answer. The server may refuse (`ServerRefuses`) or die (`ServerDies`) wherever it waits.

## 3. What the runs check

Every run is `tlc -config <cfg> <module>`. Deadlock is checked in `startup`: a login ends, and nothing else may stop (`Over` is the
finished login's stutter). Elsewhere it is not: each system may
really stop, when its tasks have issued what they may (`MaxReq`, `MaxRow`, `MaxCalls`, ...) and are idle.

A module with state has one type invariant (`TypeOK`). Those of the connections, the pool, the transactions and the cache
are proved for every instance; the others document the state. The runs spend their properties on what could be wrong.

| Run | Module, cfg | Bounds | Shows |
|---|---|---|---|
| `pg_wire` | `PgConnection`, `PgConnection.cfg` | 2 tasks, 3 statements | below |
| `mysql_wire` | `MySqlConnection`, `MySqlConnection.cfg` | 2 tasks, 2 calls, both capabilities | below |
| `pool` | `ConnPool`, `ConnPool.cfg` | 3 tasks, 2 pooled connections, 1 spare, both interfaces | below |
| `tx` | `MCTransactions`, `Transactions.cfg` | 2 tasks, 2 rows, 2 unread answers, 3 dialects | below |
| `cache` | `MCQueryCache`, `QueryCache.cfg` | 3 keys, 2 values, capacities 0 and 2, clock to 2 | below |
| `storage` | `MCStorage`, `StorageEngine.cfg` | 2 tables, 2 schemas, 2 rows, `usize::MAX` is 3 | below |
| `migrator` | `MCMigrator`, `Migrator.cfg` | 2 processes, 2 versions, 3 plans, 3 dialects, 1 mark | below |
| `copy` | `MCDataCopy`, `DataCopy.cfg` | 6 programs, tables of up to 3 rows, batch 0 to 2, 2 starts, 3 unread answers | below |
| `copy_pages` | `MCDataCopy`, `DataCopyPages.cfg` | the same, 1 start | a violation: section 6 |
| `query` | `MCQueryBuilders`, `QueryBuilders.cfg` | chains of 3 calls, texts of 5 characters, 4 users, 3 posts, u64::MAX as 15, 3 dialects | below |
| `models` | `MCModels`, `Models.cfg` | every type on 3 dialects, 1 to 2 rows, 1 to 2 tasks, 3 to 4 calls, 1 restart | below |
| `startup` | `Startup`, `Startup.cfg` | 3 passwords, 3 databases, every method | below |

**Connections.** `StreamOwner`: whoever writes, reads or shuts the stream down is the one holder of the
mutex, and a task that gave up holds neither the guard nor a place in the queue.
`IsSession`: the connection implements `DbSession`. The mapping is direct: `call` is `req`, `open` is
whether the stream is still there, `trusted` is that no finished call has left the stream in doubt.
It is a safety refinement; what it says is that an Ok is the answer to one's own statement, which the server
has run, unless some earlier call has failed after it had written. `WholeAnswer` (PostgreSQL): an Ok is never put
together from two statements, except after a cut write, a cut pipeline or a torn message.
`DesyncIsPermanent` (PostgreSQL): once an error or a timeout has left its answer behind, no later Ok
carries the answer to its own statement; this is the cost of the finding in section 6, stated as an action property.
`Lockstep` (MySQL): server errors included, a call ends with its answer read to the last packet, with and without EOF packets,
and the packet at the front is always one the reader expects. `StatementsClosed` (MySQL): a
statement kept by the server is in use or being closed, if no call timed out and every packet
decoded. `EveryCallReturns` (PostgreSQL): every statement and ping returns, whatever the backend does. close waits
for the mutex and writes its Terminate without a timeout (`db/postgresql.rs:1028-1032`): it returns too, unless a close hangs for good on a
backend that lives and never reads what was written to it (`CloseHangs`), a behaviour the run contains.

`Large` are the statements whose write may find the send buffer full, so that a timeout falls inside `write_all` or
between the messages of the pipeline: with the first one large, there are two more that meet what is left of it, and every close may.

Two tasks are enough for all of these: a stream has one holder and one waiter that may time out, and the
tasks are symmetric. Three statements are needed for desynchronisation: one that fails, one that reads its leftovers, and
one after that which could have recovered. In MySQL a call that has been left in doubt makes all later reads arbitrary,
so the second call is the last that can differ. Messages that the read loops ignore are not sent.

**Pool.** `OnePlace`: a connection is queued once, with one task, or dropped, and none
of the pool's is lost from sight. `WithinSize`: the queue fits, so `status()` (`max_size - idle` in `usize`)
cannot underflow. `CloseDrains`: after a close that returned Ok the pool is and stays empty.
`EveryCallReturns`: every get and close. Three tasks let one hold, one
close and one wait; two connections let a close be interrupted between the first and the second; one spare fills the queue over
its size.

**Transactions.** `CommitIsDurable` and `RollbackUndoes`: what an Ok from commit or rollback
means for the rows of that Transaction, while others use the same session, under two conditions that the code makes
necessary: no answer was left unread, and no other Transaction was open at the same time. They speak of the call that ended it: a later
`commit` or `rollback` returns Ok and sends nothing (`EndedAlready`), so that `commit` is Ok after a rollback too. `ServerTxIsOwned`: a
transaction on the server has a Transaction that can end it, unless one was dropped open or BEGIN timed out.
`ReturningIsOwn`: with RETURNING, `create` sets the id of its own row. Of a Transaction dropped open and of the two statements of `create` on the other dialects the
code promises nothing (section 6), and these properties except them. Two tasks and two rows are the
smallest instance in which an insert comes between another and its SELECT of the key. The
tasks are declared symmetric, which is sound because this module's runs check invariants only; no run that checks
liveness uses symmetry.

**Caches.** `OrderIsMap`: the queue holds exactly the keys of the map, once, and at most `capacity` (one,
if the capacity is 0). `ServesLastSet`: a get returns the value last set, not expired, removed, cleared
or invalidated, or nothing, and it returns nothing for a valid value only if at least `capacity`
other keys were used since. Three keys in a cache of two is the smallest eviction; the values are symmetric.

**Storage.** `RowsFitSchema`: whatever was inserted, updated, saved and loaded, values have the types of
their columns and NOT NULL holds. `LoadIsLastSave`: a load finds the last save, value by value up to the widening of narrow integers and floats, or
an error; every strict prefix of every file is refused (what is read of a default of an I8 or I16 column is widened as well). `SelectIsExact` has two parts. `PageIsSlice`: for every offset and limit in `Usize`, sums that wrap around
included, a page is rows offset+1 to offset+limit; with 3 for `usize::MAX` there are offsets beyond the two rows and sums that
overflow. `LikeFindsAll`: over texts of up to three characters of {a, b} and patterns of up
to three of {a, b, %, _}, `LikeMatcher` accepts what the definition of LIKE accepts, and no more if % comes first or not at all.
It depends on no state, so it is looked at in the empty engine only.

**Migrator.** `SeedOnce`: a row with conflict columns is inserted once, through any failures, lost answers
and reruns, while calls do not overlap and nothing else in the plan writes it (`SeedsAlone`). `RerunHeals`: after a migration that stopped half way, the statements
written to be repeatable are never refused, of plans that make a table before they index it (`BuildsOnItself`). `RecordedIsPrefix`: the recorded versions are the oldest ones, with
concurrent runs and rollbacks that stop; this is a promise to programs that register their versions oldest first and leave no older one out (`InOrder`,
which `MCMigrator` assumes of its own), since the Migrator applies versions in the order of registration. `RecordedIsBuilt`: the schema is the one the recorded versions make, up to
what versions not recorded touch. `OkMeansApplied`: `run_migrations` returns Ok only when
all its versions are recorded, whatever this Migrator remembers. One process has both versions and the other only the first, as an older
binary; the plans (`Seeded`, `Altered`, `Corrected`) have all kinds of operation and rollbacks that undo them in reverse.
The conditions are what the code makes necessary. Two processes at once do insert a seed twice (check, then insert); a rollback
that stops half way leaves its version recorded over a schema it has half undone, and no run repairs that; a
rollback that runs beside another call, or a version applied out of its turn, leaves no promise about the schema.
`MaxMarks` ends an exploration once two of these have happened, where every property is vacuous or
nearly so; calls in flight still finish. AddColumn, DropColumn, RenameTable and RenameColumn are not repeatable: a migration that stopped after one of
them is refused at every rerun and stays unrecorded, which `RecordedIsBuilt` allows.

**Copy tools.** `CopyIsWhole`: a table reported copied holds the rows it had and all rows of the source, each once, unless the batch is 0.
`BatchAtomic`: wherever a run stops, the target holds the first n pages and nothing of the next. `TableKept`: a table a run has
dropped and created again has the columns, the key, the NOT NULLs, and the defaults (`DefaultRead`, none of MySQL) and unique constraints that its catalog query can tell (`UniquesRead`;
one on a single column of a longer key is not among them, section 6); a default is the same up to the pairs of `SameDefault`, where a function becomes its text or a string is cut.
`ValuesFit`: a column is given every value of the column it was made from if and only if `Lossy` does not name the pair of types: the list is exact, and each pair in it is a
loss of the type tables or of the two drivers. A date that is stored as its midnight counts as kept. `EveryRunEnds`. All but the last are conditional on `doubt`: once a call has timed out, or an error has left ReadyForQuery behind, the
next call takes another's answer for its own, and a table may be reported created or copied that is not. The tables (`MCDataCopy`) have a generated key, a plain one, one of two
columns with rows tied in the first, none with equal rows, every type, every default, and some the target refuses; three rows and a batch of 2 give a full page, a short
one and an empty one; jobs of two tables show what a refused table leaves for the next. Two starts are a kill and a rerun.

**Query builders.** `ChainMeaning`: on every dialect the statement is refused or touches exactly the rows for which every condition of
the chain holds, with the groups and the values asked for; a chain with an identifier that `sql_safety` rejects, or with `or` / `and`, never touches
a row. Left out are raw text with an OR of its own beside other conditions, whose parentheses are the caller's business, and joins of UPDATE and DELETE,
which are not written (section 6). `PageAsked`: the last limit and the last offset hold in whichever order they were called,
`paginate` counts from 1. `PagesCoverOnce`: page after page reads each row once, in order, and as many as `build_count` says. `ConvertKeepsHoles`:
`convert_placeholders` numbers every `?` outside literals and comments, in order, leaves all else alone, and a second pass changes nothing. Three
calls are a condition, a second that may interfere and a modifier, for each of the builders; 15 for u64::MAX lets page 0 and an offset without limit wrap or reach the
top; five characters hold a literal with an escaped quote or a comment with its newline, and a `?` on either side.

**Models.** `ReadIsWritten`: what `first`, `last` or `all` returns has in every field the value last written to it (a time may move by less than a
second), and a row that was written can be read; two exceptions are named in the property and in section 6. `MirrorKept`: once
`update` has written a mirrored column from a fresh copy whose field was set, the JSON document and the column agree. `OkMeansUnique`: after an `auto_migrate`
that returned Ok no two rows share a declared unique key, whatever tables, rows and indexes earlier versions or failed attempts left, as long as no other index had
its name (`Shadowed`, section 6). Three kinds of
bounds: all types on all dialects with one row; indexes of several versions with two rows and a restart, on SQLite, since MySQL has no
CREATE INDEX IF NOT EXISTS; and documents of four shapes with two tasks on one row. The versions have a column's index plain and unique, an index that changes
its columns under its name, one that mixes both tags, and another table's index may have the name. MySQL's text form of a FLOAT, which has six digits, is taken as exact. Samples are the ends of `i8`, and times with and without a
fraction; NaN and the ends of the wider integers are not sampled.

**Startup.** `ReadyMeansReady`: on Ok the server has granted the login and the database, and neither direction of the stream holds anything unread.
`RightPasswordGetsIn`: no packet of the client is out of sequence, and a login that the server did not break off fails only for a wrong password, a missing
database, or one of the logins `Unserved` names, each a finding. Passwords are `Nil` (the empty string, which is answered with an empty response instead of a proof), the right one and a wrong one; databases one that exists, one that does not, none.

### Fairness

`FairSpec` of the PostgreSQL connection assumes weak fairness of `Timeout(t)`, since every `run_query` and every ping is under
`tokio::time::timeout` and tokio fires a timer that has elapsed, and of a close whose next step can be taken: `CloseTake`, and `CloseEnd` unless
the backend may have left the send buffer full (`Clogged`: it lives and has not read all that was written to it). Nothing is assumed of the
server, of `Crash`, of the pace of a statement, or of anyone who starts a call. `FairSpec` of
the pool assumes that the loop of `get` is polled, that its clock runs, and that closing one connection returns;
nobody has to give a connection back. `FairSpec` of the copy
tools assumes weak fairness of the program's own steps (`Program`), since each of its calls returns by its timeout at the latest and nothing else runs
in it; a kill is never assumed and never excluded. The other modules check safety only.

## 4. What is proved

All theorems hold for every value of the constants that satisfies the named assumption: any set of tasks or processes, any bounds, any keys, plans or passwords.

| Theorem | Statement | Rests on |
|---|---|---|
| `PgConnectionProofs!StreamIsOwned` | `Spec => []StreamOwner` | `PgAssumption` |
| `PgConnectionProofs!PgTypeOK` | `Spec => []TypeOK` | |
| `PgConnectionProofs!PgSessionInv` | the inductive invariant of the wire | |
| `PgConnectionProofs!PgWholeAnswer` | `Spec => []WholeAnswer` | |
| `PgConnectionProofs!PgDesyncIsPermanent` | `Spec => DesyncIsPermanent` | |
| `PgConnectionProofs!PgIsSession` | `Spec => IsSession`: the refinement of `DbSession` | |
| `MySqlConnectionProofs!MySqlInvariant` | the inductive invariant; `StreamOwner` and `TypeOK` (`MySqlTypeOK`) are parts | `MySqlAssumption` |
| `MySqlConnectionProofs!MySqlLockstep` | `Spec => []Lockstep` | |
| `MySqlConnectionProofs!MySqlStatementsClosed` | `Spec => []StatementsClosed` | |
| `MySqlConnectionProofs!MySqlIsSession` | `Spec => IsSession`: the refinement of `DbSession` | |
| `ConnectProofs!PoolOnePlace`, `PoolWithinSize`, `PoolTyped` | `PoolSpec => []OnePlace`, `[]WithinSize`, `[]TypeOK` | `PoolAssumption` |
| `ConnectProofs!PoolCloseDrains` | `PoolSpec => []CloseDrains` | |
| `DatabaseProofs!TxCommitIsDurable`, `TxRollbackUndoes` | `Spec => []CommitIsDurable`, `[]RollbackUndoes` | `TxAssumption` |
| `DatabaseProofs!TxServerTxIsOwned`, `TxReturningIsOwn` | `Spec => []ServerTxIsOwned`, `[]ReturningIsOwn` | |
| `DatabaseProofs!ModelsOkMeansUnique` | `ModelSpec => []OkMeansUnique` | none |
| `DatabaseProofs!ModelsReadIsWritten`, `ModelsMirrorKept` | `ModelSpec => []ReadIsWritten`, `[]MirrorKept` | `ModelAssumption` |
| `InMemoryProofs!CacheOrderIsMap` | `Spec => []OrderIsMap` | `CacheAssumption` |
| `InMemoryProofs!CacheServesLastSet` | `Spec => []ServesLastSet` | |
| `InMemoryProofs!StorageRowsFit`, `StorageTypeOK` | `StoreSpec => []RowsFitSchema`, `[]StoreTypeOK` | `StorageAssumption` |
| `InMemoryProofs!StorageLoadIsLastSave` | `StoreSpec => []LoadIsLastSave` | |
| `InMemoryProofs!StorageSelectIsExact` | `StoreSpec => []SelectIsExact` | |
| `InMemoryProofs!LikeIsFound` | `like_matcher` against LIKE, for all patterns and all texts without a % | none |
| `ConnectProofs!StartupReady` | `Spec => []ReadyMeansReady` | `PasswordsAssumption` |
| `ConnectProofs!StartupRightPassword` | `Spec => []RightPasswordGetsIn` | |
| `MigratorProofs!MigratorOkMeansApplied` | `Spec => OkMeansApplied` | `MigratorAssumption` |
| `MigratorProofs!MigratorRecordedIsPrefix` | `Spec => []RecordedIsPrefix` | and `InOrder` |
| `MigratorProofs!MigratorSeedOnce` | `Spec => []SeedOnce` | `MigratorAssumption` and `SeedsAlone` |
| `MigratorProofs!MigratorRerunHeals` | `Spec => []RerunHeals` | `MigratorAssumption`, `InOrder` and `BuildsOnItself` |
| `DataCopyProofs!CopyBatchAtomic` | `Spec => []BatchAtomic` | `CopyAssumption` and `SourceAssumption` |
| `DataCopyProofs!CopyLosesNoRow` | `Spec => []CopyIsWhole`, from `CopyWholeInvariant` | |
| `DataCopyProofs!CopyValuesFit`, `CopyTableKept` | `Spec => []ValuesFit`, `[]TableKept` | |

The assumptions say what the constants are: bounds are natural numbers, the pool is built from finitely many
connections and no spare is one of them, prefixes are sets of keys, schemas, rows and new values have the types of the storage engine's, the empty password is a password, a program registers
versions its plan has, the fields and documents of a model hold values of their types,
the tables of a copy job are a sequence, each is one its catalog may describe (`IsTable`: the types and defaults named in `Types` and `Defaults`, keys and constraints over its columns),
and its batch is a natural number, 0 included. Three hypotheses are about how TORM is used: `InOrder`, a program registers its versions oldest first and leaves no older one out;
`SeedsAlone`, nothing else in its migrations writes a row that is inserted with conflict columns or renames a table to the table of one; and
`BuildsOnItself`, a migration indexes a table that it has made itself and keeps, or one that an older migration has made, that no migration drops or renames, and a rollback only where no older
migration made it; and no other table refers to one that a migration drops. The code checks none of them.
`MCMigrator` assumes all three, so TLC evaluates them for the plans of the run.

Each module's invariant is the property itself with what is needed to carry it through a step. `CacheInv`, `StartupInv`, `TxInv`,
`MySqlInv`, `SessionInv`, `MigInv`, `PlaceInv`, `SeedInv`, `StandInv`, `UInv`, `ModelInv`, `CopyInv`, `WholeInv` and the parts of `StoreInv` were checked by TLC on the instances of section 3 before they were proved.

*Stream ownership.* `StreamOwner` is inductive together with the types of `pc` and `queue`. The facts that carry it are
about the queue of the mutex: whoever leaves was in it exactly once, the others keep their order, and a
holder other than the one who leaves stays the holder (`LeaveQueue`); whoever joins joins at the end
(`JoinQueue`). Every action is then one of four moves: return, go on as the holder, join, or leave the mutex alone;
only `CloseTake` is argued on its own, since it changes `stream` under the feet of everyone who waits.

*Types of the connection.* `TypeOK` is not inductive: what is written names `req[t]`, which
is a statement and not 0 only because the task is in a call. `CallsHaveIds` says so.

*The PostgreSQL session.* `SessionInv` says what is on the wire. Until a pipeline is cut or a read torn, requests and answers
are whole, in order of their statements; while no call has failed after writing, all of it is the holder's, and what the
reader has accumulated together with what is still to come is one answer. After an error or a timeout the front of the stream belongs to an
older statement, and a call can only push it further back: the desynchronisation is permanent. The refinement follows: a step that returns Ok
takes a verdict the server had made for this statement, once.

*The MySQL session.* `MySqlInv` ties the reader's loop to the packets: `Lockstep` needs to know which packets the server
sends after the one being read, with EOF packets and without, and that a refusal ends the answer in every loop. A prepared statement is
owned by the call that prepared it until its close is on the way, which is `StatementsClosed`.

*Pool.* The inductive invariant is `PoolInv`: types, `OnePlace`, `WithinSize`, and two facts that the others need.
A task that is not closing a connection has none in its loop (`DrainOnlyClosing`),
since otherwise the next turn of the loop would overwrite one; and only a `Pool` runs close loops (`LoopsArePools`), since otherwise
`OpenSpare` could take a connection that is in one. Initially the queue holds every
pooled connection once, so its length is their number. For `CloseDrains` the iterations a close has left are compared with what is in the queue (`CloseOK`); that
is inductive because the queue of a `Pool` only shrinks (`PoolShrinks`).

*Transactions.* `TxInv` follows the rows of a Transaction that is alone on its session: they are pending on the server while it is open (`SoloHolds`) and on disk
or nowhere after it ended (`SoloEnded`); an aborted PostgreSQL transaction leaves an answer unread (`AbortedIsDoubt`), which is the condition of the property; with
RETURNING no call ever asks for a key (`NeverAsks`).

*Caches.* `OrderIsMap` is inductive by itself. `ServesLastSet` compares the queue with the history of all uses: who is ahead in the queue was used
before (`QueueFollowsUse`), so the key evicted is older than the `capacity` keys that stay (`EvictedIsOld`), and that number only grows until it is used again.

*Storage.* Each codec has one lemma, about any file that agrees with the writer's fields as far as it goes (`Match`): the reader has read what was written and stands behind it, or it has met the
end of the file and stays there (`Reading`, `Over`; a count read past the end is 0, so no loop is entered). Fields make values, values and options make columns and rows, lists of those make tables
(`ListOf`, whose loop `ItemsRead` follows by induction), and tables make the file (`FileReads`). A whole file gives back every table (`WholeFile`), a part of one nothing (`CutFile`), from the
same lemma. What is read is what was written up to `WideValue`, and each column accepts the wide value when it accepted the narrow one (`WideAccepts`), which is why no check after a load is needed.
`StoreInv` adds that the file is some front of an encoding; each operation keeps tables of their schema (`InsertSound`, `AssignFits` and the rest).
For `SelectIsExact` it is joined by `Counted`: a Vec holds no more rows than `usize` counts, which a load keeps. So `start + limit` wraps around once at most, and then, as when the offset is beyond the end, `end - start` wraps
back and `take` asks for more rows than there are, which gives the same page (`PageOf`). Of the loop of `like_matcher` it is shown what it holds: the pattern after its last % is laid over the text up to `ti`
(`Holding`), and every way in which the pattern lies over the whole text ends its part up to that % no earlier than where the loop tries next (`Before`), although a retry may go back to before the %.
Each turn goes on in the pattern or to a later retry (`Grown`), so the loop ends (`LoopEnds`); then a pattern that lies is found (`StarsLeft`), and one whose only % is in front lies as the loop has laid it (`LaidOver`).

*Startup.* `StartupInv` follows the dialogue. Until the server has decided, one message at most is under way, and it belongs to the step the server is at. A login that
is granted leaves a tail of the server's last messages, one that is refused never brings a message that ends the client's loop with Ok.

*Migrator.* What a database makes of an operation does not matter here, so all statements between two versions are one kind of step (`Turn`): a call goes on, loads what
is recorded, adds the first of its versions or takes it away. `MigInv` says of each call what is recorded beside the versions it has left.
`RunCovers`: a run has each registered version recorded or to do, which gives `OkMeansApplied` at its last step. `OldestFirst`: a run or an application has everything older than
its versions recorded or to do before them. `NewestFirst`: what a rollback has left is newer than all else recorded. Other calls that record versions
disturb none of this; a rollback beside another call does, and then `undoing` is among the marks (`UndoingIsMarked`).
For `SeedOnce` and `RerunHeals` the effect of operations does matter. `PlaceInv` says where in its plan each call is (`Placed`, `Through`) and that none is beside another unless that is marked (`Alone`).
`SeedInv` adds that a call between its count and its INSERT has found the row missing, which is still so if no other call is in flight (`Checked`).
`StandInv` is about what a rerun finds: the tables that last are there from the moment their migration has made them, those of the recorded versions but for one being undone (`Stands`) and those of
the migration at work up to its current operation (`Laid`). A rollback takes away what its own version or a newer one made, and it is at the newest version recorded (`NewestFirst`), so what older ones made stays (`OperationKeeps`);
a migration finds all older versions recorded (`OldestFirst`, `OlderStands`). That no foreign key stands in the way of a DROP TABLE holds at any time (`OwnKeys`).

*Models.* `OkMeansUnique` speaks of the indexes the running version declares, and the table has those of every version that ever ran, so `UInv` speaks of all of them:
no two rows agree in an index that is there (`KeysHold`). INSERT and UPDATE keep that because they are refused when the row clashes, and CREATE UNIQUE INDEX because it is refused
when two rows do. `Progress` says that there is an index under every name that `auto_migrate` no longer lists, its own or
one that was there before, so that after its last statement each key either holds or is shadowed.
`ReadIsWritten` and `MirrorKept` need to know that a row is what its last writes make of it (`ModelInv`, `Written`). For the way of one field there is a lemma for each dialect, and for MySQL
one for each protocol (`SqliteTrip`, `PgTrip`, `MySqlTextTrip`, `MySqlBinaryTrip`): whatever value of its type goes in, the variant that comes out is one `from_row` takes, with the value unharmed
(`CastKeeps`); only a bool in a binary row of MySQL comes out as I8 and is refused. `RowRead` puts the fields together. `MirrorKept` is not inductive: a later `update` of another column writes the copy's
whole document, so the invariant says that a copy still fresh is like its row (`Like`), and of the document itself that setting one path leaves the other (`PutFacts`, `SyncFacts`, `Overwritten`).
TLC found what `Like` has to allow: an update of a column without a mirror leaves an empty object in the copy where the row keeps NULL.

*Copy tools.* A page is in the history as soon as it is read. `CopyInv` says where its rows are until the next one (`BatchInTx`): all waiting, then split between the open transaction and those
that wait, then all in the transaction, while the table holds the pages in front of it. So a commit adds a whole page, and a refusal, a rollback or a kill none of it. Which rows a page has does not matter: `BatchAtomic`
holds whatever order the source chooses, also where `NoRowReadTwice` does not.
`CopyIsWhole` does depend on it. What the programs build of the columns shows that a table is paged by all its columns or has a key (`KeyedOrByAll`). Paged by all of them, any two orders of
the source give equal rows at equal places (`SortedAgree`), so the pages are the front of every order (`ReadInTurn`). With a key no row gets in twice (`NoneTwice`), because
the target refuses the second: the program fails, and never says that it copied. In both cases as many rows as the source has, from the source, are a permutation of them (`NamesEach`, `Shuffled`), and
`Whole` says so of each table called copied. `SaidInv` adds that a table dropped in this run was empty when its first page was read, and there, as built and accepted, once it was called created.
`ValuesFit` and `TableKept` then are about one column at a time: `KeptColumn` compares what was read of it with what was built, for each program and every type and default (`BuiltKeeps`); for the types (`M2SFit` and so on) a value that is harmed is named for every pair in `Lossy`, and every kind and form of the others is checked. A constraint is found
again because the loop over the catalog's rows, in which only a change of name closes a group, returns the groups it was given (`GroupsAreUniques`, by induction over the constraints and in each over its columns).

*Induction.* The provers cannot instantiate a rule about predicates. `SequenceLemmas` states induction about sets of numbers, by the least
counterexample (`Least`, `Induction`), and a loop over the positions of a sequence as membership in the set of its runs (`LoopRuns`). So what the recursive
functions `Retain` and `RemoveFirst` return is proved for every input (`RetainFacts`, `FirstRemoved`), and that every finite set of versions can be put in descending order (`DescendingFacts`).
`FlattenSeq` is unfolded the same way: whichever sums of the members one takes, it returns the last (`FlattenIsSum`), so one member more at the end adds its rows at the end (`FlattenAppend`).

Only model-checked, and why:

* Liveness (`EveryCallReturns`, `EveryRunEnds`): fairness and ENABLED are out of the provers' reach.
* `RecordedIsBuilt` of the migrator: it compares the schema with what the recorded versions make of an empty one, a fold of their operations, and holds of plans in which every operation does the same
  to a half-applied schema as to a whole one, like those of `MCMigrator`; to say which those are is to say the property again.
* `QueryBuilders` and `SqlText` declare RECURSIVE operators, for which the prover has no backend.

## 5. Not modelled

About 39 % of the implementation's lines are mapped to a definition (`PROJECT.json`, "map"). What is not:

* SQLite's driver: a call is a critical section under a std mutex, so it is a step of `Transactions` and `Models`, and what it does to values is in `ModelValues`. Opening the file, ping and close are left out.
* In startup: the digests themselves and the check of the server's own signature, parsing of malformed packets, roles and more than one salt. Nothing bounds the
  time of a login but the TCP connection.
* Byte values, row contents and parameter encodings of both wire protocols; the messages the PostgreSQL read loops skip.
* In the migrator: column types, WHERE clauses and the text of the SQL; `get_status`, which changes nothing. RawSql stands for an INSERT,
  as in the repository's own migrations. A process whose connection is out of step starts again instead of going on with it.
* In storage: the projection of select, UTF-8 and byte layout. Strings and dates are numbers.
* In the query builders: `last_sql`, DISTINCT, the values a select list or an aggregate returns, `PreloadBuilder`.
* In the models: hooks of hand-written models, keys that are not integers, soft deletion (no statement writes `deleted_at`), the parsing of attributes. Indexes on JSON and bytes columns.
* In the copy tools: the wording of what is printed; the characters of a value, which is a kind and the form a driver holds it in; infinite timestamps of PostgreSQL. The columns of `information_schema` are
  read by the names the query gives them, as MySQL 5.7 and MariaDB return them.
* URL parsing, error types, random identifiers, the character rules of SQL safety: pure functions on text without state.
* Loggers and monitors: nothing reads what they write. The hit counters of the caches, likewise.

## 6. Where the code and its words disagree

Shown by a run that finds a violation: `copy_pages`, `NoRowReadTwice`. A page is ordered by the first column of the key only (`bin/mysql2sqlite.rs:356`), so rows
that are equal in it may change places between two pages; `src/README.md:545` says that "pagination never duplicates or drops rows".

The others were met while modelling; each is stated with its line and the words it contradicts under "findings" in `PROJECT.json`.

* Connections: after ErrorResponse both PostgreSQL read loops leave ReadyForQuery in the stream and the next call gets the answer of the one before (`db/postgresql.rs:409`; `DesyncIsPermanent` states
  the consequence and `pg_wire` checks it). Prepared statements of MySQL leak on a timeout (`db/mysql.rs:632`). SQLite's close only clears a flag (`db/sqlite.rs:199`).
* Pool: `return_connection` drops the connection in all three arms (`db/pool.rs:95`).
* Transactions: on SQLite and MySQL `create` asks for its key in a second statement, and another task's insert may come between (`db/database.rs:427`); `Drop` sends no ROLLBACK (`db/database.rs:87`).
* Startup: the SASL handlers parse the payload with its four code bytes, so that no SCRAM login succeeds (`db/postgresql.rs:245`); the salt of an AuthSwitchRequest keeps its NUL (`db/mysql.rs:243`);
  the answers of `caching_sha2_password` do not depend on the salt (`:529`); an empty database leaves the flag set (`:453`); an ERR before the greeting or the key is reported as a protocol error (`:326`);
  only the TCP connection has a timeout.
* Query builders: the text of `or` and `and` is refused by every server (`orm/query.rs:486`); joins of UPDATE and DELETE (`orm/advanced_query.rs:498`), most of a select in `build_count` (`:467`), aggregates beside columns (`:389`) and the place of
  UNION (`:458`) are wrong; an offset without a limit (`orm/query.rs:520`) and page 0 (`:528`); a `?` in quoted identifiers and block comments (`:101`); `last_sql`; many-to-many relations.
* Models: `update` writes the whole document of a stale copy (`db/database.rs:555`), of the copy's field and not of the value passed, into a column always called `data`; a bool read by `first` on MySQL fails (`db/mysql.rs:1117`); a `Timestamps` struct
  is None on SQLite (`torm-derive/src/lib.rs:951`); the keys `auto_migrate` declares on PostgreSQL are no type (`db/database.rs:695`), and its indexes fail on MySQL (`:715`); an index that has its name already is
  skipped, whatever it is, and the unique key with it (`:715`); composite unique
  indexes make each column unique; `primaryKey` is not read; an unset mirror path is ignored (`orm/model.rs:161`); a MySQL TIME is read as midnight.
* Copy tools: batch 0 copies nothing and reports success; a table that cannot be created is skipped and the program still exits with 0; string defaults, DATETIME, composite integer keys and wide keys are translated
  to what the target refuses or cannot hold; composite UNIQUE constraints are lost, and so is one on a single column of a longer key; a required flag without a value counts as given;
  no default of MySQL is read (`bin/mysql2sqlite.rs:277`); fractions of a second, exact decimals, MySQL TEXT and BINARY are changed by the drivers on the way (`db/sqlite.rs:53`, `db/mysql.rs:1082`, `:1093`).
* Storage: row ids are reused after a delete (`db/storage.rs:147`); `like_matcher` accepts too much when a % is not the first character (`:430`); `compare_values` takes all pairs it does not know for equal (`:405`);
  an offset beyond the rows panics with overflow checks (`:188`); an interrupted save loses both the old and the new file (`:79`).
* Migrator: it sends the text of data operations meant for a log in rollbacks (`orm/migration.rs:785`), DROP FOREIGN KEY to PostgreSQL (`:923`), creates tables without the indexes of their
  definition (`:1244`), and underflows in `get_status` when the database is ahead of the program (`:1419`).

## 7. Plan

Proofs: what `RecordedIsBuilt` needs of a plan.

Models: what is left under section 5 has no state of its own that another part decides on.
