------------------------------- MODULE Models -------------------------------
(***************************************************************************)
(* Models kept in a table: Database::auto_migrate, create, first, last,    *)
(* all, update and delete over a model of #[derive(Model)] with            *)
(*   id          an integer key,                                           *)
(*   x           a field of any supported type (shape.tag, shape.opt),     *)
(*   level, rank optional integers mirrored in the JSON column `data` at   *)
(*               "level" and "is.rank" (#[model(json = "...")]),           *)
(*   data        the optional JSON column,                                 *)
(*   updated_at  a field of its own, or in a Timestamps struct.            *)
(* Callers hold copies of models; each copy is its task's own.  A statement  *)
(* is answered, refused, or (where there is a network) carried out with    *)
(* its answer lost.  How the connection carries statements is the matter   *)
(* of PgConnection, MySqlConnection and Transactions.                      *)
(***************************************************************************)
EXTENDS ModelValues, FiniteSets

CONSTANTS Callers,        \* tasks that hold models
          Shapes,       \* records [db, tag, opt, stamps]: the dialect and the model
          Samples,      \* for each tag, the values that programs put into its fields
          Bounds        \* for each shape, a record of
                        \*   schemas: the sets of indexes its versions declare,
                        \*   others:  sets of names that indexes of other tables have,
                        \*   drafts:  records [level, rank, data] that models are created with,
                        \*   tasks, rows: the tasks that call and the keys there are,
                        \*   calls, starts: how many calls and restarts a behaviour has

\* What a field of an Option type may hold.
IsOption(v, S) == v = <<>> \/ (v = <<v[1]>> /\ v[1] \in S)

\* What the `data` column may hold, as far as the mirrored paths go.
IsDocument(d) ==
  /\ d = [kind |-> d.kind, level |-> d.level, is |-> d.is, rank |-> d.rank]
  /\ d.kind \in {"object", "other"} /\ d.is \in {"absent", "scalar", "object"}
  /\ IsOption(d.level, Int) /\ IsOption(d.rank, Int)
IsData(v) == v = <<>> \/ (v = <<v[1]>> /\ IsDocument(v[1]))

\* An index is [name, cols, by]: by are those of its columns that are tagged uniqueIndex,
\* and one makes the whole index unique.  Its name is its tag's or its column's, whatever
\* the tag.
IsSchema(v) == \A ix \in v : ix.by \subseteq ix.cols

ASSUME ModelAssumption ==
  /\ \A s \in Shapes :
       /\ s.db \in Dialects /\ s.tag \in Tags /\ s.opt \in BOOLEAN
       /\ Bounds[s].tasks \subseteq Callers /\ Bounds[s].calls \in Nat
       /\ \A v \in Bounds[s].schemas : IsSchema(v)
       /\ \A d \in Bounds[s].drafts : IsOption(d.level, Int) /\ IsOption(d.rank, Int) /\ IsData(d.data)
  /\ \A tag \in Tags : Samples[tag] \subseteq InType(tag)

VARIABLES shape,    \* this behaviour's dialect and model
          schema,   \* the indexes that the running version declares
          table,    \* the server: [made, uniques, indexes, rows, next], indexes being all there
                    \* are by their names and uniques the sets of columns that are unique
          todo,     \* auto_migrate: the indexes still to create, "idle" outside it
          migrated, \* auto_migrate returned Ok in this run of the program
          mem,      \* the copy each task holds
          fresh,    \* tasks whose copy was read or written after every other write of its row
          last,     \* what each task's last call was and whether it returned Ok
          wrote,    \* what the statements last wrote to each row, as the model had it
          kept,     \* the mirrored columns of each row that updates have promised to keep
          calls, starts

modelVars == <<shape, schema, table, todo, migrated, mem, fresh, last, wrote, kept, calls, starts>>

Ids      == 1..Bounds[shape].rows
Mirrored == {"level", "rank"}
NoModel  == [id |-> -1]
NoRow    == [gone |-> TRUE]
db       == shape.db

-----------------------------------------------------------------------------
(* JSON documents: an object with a value at "level", and at "is" nothing, *)
(* a scalar, or an object with a value at "rank"; or no object at all.     *)

At(doc, c) == IF c = "level" THEN doc.level ELSE doc.rank

\* json_set_path: false, with nothing written, when a parent is no object
SetPath(doc, c, v) ==
  CASE c = "level" -> [doc EXCEPT !.level = v]
    [] c = "rank"  -> IF doc.is = "scalar" THEN doc ELSE [doc EXCEPT !.is = "object", !.rank = v]

RemovePath(doc, c) ==
  CASE c = "level" -> [doc EXCEPT !.level = <<>>]
    [] c = "rank"  -> [doc EXCEPT !.rank = <<>>]

Empty == [kind |-> "object", level |-> <<>>, is |-> "absent", rank |-> <<>>]

SyncAddsOnly(m, cols) ==     \* None leaves the old value in the document
  LET doc == IF m.data = <<>> THEN Empty ELSE m.data[1]
      put(d, c) == IF c \notin cols \/ m[c] = <<>> THEN d ELSE SetPath(d, c, m[c])
  IN  IF doc.kind = "object" THEN <<put(put(doc, "level"), "rank")>> ELSE m.data

\* sync_json_fields: the fields among cols go into the copy's document
Sync(m, cols) ==
  LET doc == IF m.data = <<>> THEN Empty ELSE m.data[1]
      put(d, c) == IF c \notin cols THEN d
                   ELSE IF m[c] = <<>> THEN RemovePath(d, c) ELSE SetPath(d, c, m[c])
  IN  IF doc.kind = "object" THEN <<put(put(doc, "level"), "rank")>> ELSE m.data

SyncJsonFields(m, cols) ==
  LET d == Sync(m, cols)
  IN  [data |-> d,
       sent |-> cols \cap Mirrored # {} /\ d[1].kind = "object"]

-----------------------------------------------------------------------------
(* A row as the table keeps it, and as from_row makes a model of it.       *)

FieldTag(c) == [x |-> shape.tag, level |-> "i32", rank |-> "i32", data |-> "json", at |-> "datetime"][c]
Columns     == {"x", "level", "rank", "data", "at"}

\* The values that programs put into a field.
Values(c) == {<<v>> : v \in Samples[FieldTag(c)]} \cup (IF c \in Mirrored \/ shape.opt THEN {<<>>} ELSE {})

Stored(f) == [c \in DOMAIN f |-> Kept(db, ToColumn(FieldTag(c), f[c]))]

FromRow(id, prepared) ==
  LET q(c) == Decoded(db, TypeIn(FieldTag(c), db), table.rows[id][c], prepared)
      field(c, opt) == FromField(FieldTag(c), opt, q(c))
  IN  {[id |-> id, x |-> x, level |-> l, rank |-> r, data |-> d, at |-> a] :
         x \in field("x", shape.opt), l \in field("level", TRUE), r \in field("rank", TRUE),
         d \in field("data", TRUE),
         a \in IF shape.stamps = "struct" THEN FromStamp(q("at")) ELSE field("at", TRUE)}

Content(m) == [c \in Columns |-> m[c]]
Now        == <<calls>>          \* Utc::now(): later at every call

-----------------------------------------------------------------------------
(* The server.                                                             *)

Present == {i \in Ids : table.rows[i] # NoRow}

\* Does row r break a unique key beside the rows other than its own?  NULLs are distinct.
Clashes(i, r) ==
  \E key \in table.uniques : /\ \A c \in key : r[c][1] # "null"
                             /\ \E j \in Present \ {i} : \A c \in key : table.rows[j][c] = r[c]

Duplicated(key) ==
  \E i, j \in Present : /\ i # j
                        /\ \A c \in key : /\ table.rows[i][c][1] # "null"
                                          /\ table.rows[i][c] = table.rows[j][c]

Outcomes == IF db = "sqlite" THEN {"ok", "refused"} ELSE {"ok", "refused", "lost"}

-----------------------------------------------------------------------------
IsUnique(ix) == ix.by # {}
Keys(v)      == {ix.cols : ix \in {iy \in v : IsUnique(iy)}}
Named(ix)    == \E old \in table.indexes : old.name = ix.name

\* An index of another table, of which only the name matters.
Foreign(name) == [name |-> name, cols |-> {}, by |-> {}]

\* Bytes and documents are not indexed.
Versions == IF shape.tag \in {"bytes", "json"} THEN {{}} ELSE Bounds[shape].schemas

ModelInit ==
  /\ shape \in Shapes /\ schema \in Versions
  /\ \E names \in Bounds[shape].others :
       table = [made |-> FALSE, uniques |-> {}, indexes |-> {Foreign(n) : n \in names},
                rows |-> [i \in Ids |-> NoRow], next |-> 1]
  /\ todo = <<"idle", {}>> /\ migrated = FALSE
  /\ mem = [t \in Callers |-> NoModel] /\ fresh = {}
  /\ last = [t \in Callers |-> <<"none", TRUE>>]
  /\ wrote = [i \in Ids |-> NoRow] /\ kept = [i \in Ids |-> {}]
  /\ calls = 0 /\ starts = 0

ModelTypeOK ==
  /\ shape \in Shapes /\ schema \in Versions /\ migrated \in BOOLEAN
  /\ table.made \in BOOLEAN /\ table.next \in 1..(Bounds[shape].rows + 1)
  /\ table.indexes \subseteq UNION Versions \cup {Foreign(n) : n \in UNION Bounds[shape].others}
  /\ todo[1] \in {"idle", "table", "indexes"} /\ todo[2] \subseteq schema
  /\ \A t \in Callers : mem[t] = NoModel \/ mem[t].id \in Ids \cup {0}
  /\ fresh \subseteq {t \in Callers : mem[t] # NoModel}
  /\ kept \in [Ids -> SUBSET Mirrored]

\* The program ends and starts again, perhaps in a version with other indexes.
Restart ==
  /\ starts < Bounds[shape].starts /\ starts' = starts + 1
  /\ \E s \in Versions : schema' = s
  /\ todo' = <<"idle", {}>> /\ migrated' = FALSE
  /\ mem' = [t \in Callers |-> NoModel] /\ fresh' = {} /\ last' = [t \in Callers |-> <<"none", TRUE>>]
  /\ UNCHANGED <<shape, table, wrote, kept, calls>>

\* The table made by hand, with the indexes the model declares.
TableByHand ==
  /\ ~table.made /\ db = "postgresql" /\ todo[1] = "idle"
  /\ table' = [table EXCEPT !.made = TRUE, !.uniques = Keys(schema), !.indexes = @ \cup schema]
  /\ UNCHANGED <<shape, schema, todo, migrated, mem, fresh, last, wrote, kept, calls, starts>>

StartMigrate ==
  /\ todo[1] = "idle" /\ ~migrated /\ todo' = <<"table", {}>>
  /\ UNCHANGED <<shape, schema, table, migrated, mem, fresh, last, wrote, kept, calls, starts>>

\* A statement of auto_migrate fails: the error is returned at once.
MigrateFails ==
  /\ todo[1] # "idle" /\ todo' = <<"idle", {}>>
  /\ UNCHANGED <<shape, schema, table, migrated, mem, fresh, last, wrote, kept, calls, starts>>

\* Every column tagged uniqueIndex is UNIQUE on its own too: no index is parsed with partners.
ColumnUnique == {{c} : c \in UNION {ix.by : ix \in schema}}

\* CREATE TABLE IF NOT EXISTS; PostgreSQL has no "BIGINT SERIAL".
CreateTable ==
  /\ todo[1] = "table" /\ db # "postgresql"
  /\ table' = IF table.made THEN table
              ELSE [table EXCEPT !.made = TRUE, !.uniques = ColumnUnique]
  /\ IF schema = {} THEN /\ todo' = <<"idle", {}>> /\ migrated' = TRUE
                    ELSE /\ todo' = <<"indexes", schema>> /\ UNCHANGED migrated
  /\ UNCHANGED <<shape, schema, mem, fresh, last, wrote, kept, calls, starts>>

Indexed(ix, made) ==
  /\ table' = IF made
              THEN [table EXCEPT !.indexes = @ \cup {ix}, !.uniques = @ \cup Keys({ix})]
              ELSE table
  /\ IF todo[2] = {ix} THEN /\ todo' = <<"idle", {}>> /\ migrated' = TRUE
                       ELSE /\ todo' = <<"indexes", todo[2] \ {ix}>> /\ UNCHANGED migrated
  /\ UNCHANGED <<shape, schema, mem, fresh, last, wrote, kept, calls, starts>>

Rejected(ix) == IsUnique(ix) /\ Duplicated(ix.cols)

\* Mutant: an index that is refused is passed over.
IndexFailureIgnored ==
  /\ todo[1] = "indexes" /\ db = "sqlite"
  /\ \E ix \in todo[2] : Indexed(ix, ~Named(ix) /\ ~Rejected(ix))

\* CREATE [UNIQUE] INDEX IF NOT EXISTS: skipped when there is an index of that name, whatever
\* it is; refused when rows clash (MigrateFails), and always by MySQL, whose CREATE INDEX has no
\* IF NOT EXISTS.
CreateIndex ==
  /\ todo[1] = "indexes" /\ db = "sqlite"
  /\ \E ix \in todo[2] :
       \/ Named(ix) /\ Indexed(ix, FALSE)
       \/ ~Named(ix) /\ ~Rejected(ix) /\ Indexed(ix, TRUE)

-----------------------------------------------------------------------------
(* The calls of the tasks, once there is a table.                          *)

Calls(t, op, ok) ==
  /\ table.made /\ calls < Bounds[shape].calls /\ calls' = calls + 1 /\ last' = [last EXCEPT ![t] = <<op, ok>>]
  /\ UNCHANGED <<shape, schema, todo, migrated, starts>>

Same == UNCHANGED <<table, wrote, kept>>

\* The columns of f, and those of a row that f does not set.
Over(f, r) == [c \in DOMAIN f \cup DOMAIN r |-> IF c \in DOMAIN f THEN f[c] ELSE r[c]]

\* The tasks whose copies a write of row i leaves fresh, besides the writer.
Others(t, i) == {u \in fresh \ {t} : mem[u].id # i}

\* create: the hook sets the time, INSERT, and the key comes back (see Transactions for the two
\* statements and tasks in between).  A model with a key sends it along.
Insert(t, m, how) ==
  LET i == IF m.id > 0 THEN m.id ELSE table.next
      row == Stored(Content(m))
      works == i \in Ids /\ i \notin Present /\ ~Clashes(i, row)
      done == works /\ how # "refused"
      m2 == [m EXCEPT !.id = IF how = "ok" /\ works THEN i ELSE m.id]
      spent == db = "postgresql" /\ m.id = 0 /\ how # "refused"    \* its sequence keeps no gap
  IN  /\ i \in Ids
      /\ Calls(t, "create", how = "ok" /\ works)
      /\ mem' = [mem EXCEPT ![t] = m2]
      /\ IF done
         THEN /\ table' = [table EXCEPT !.rows[i] = row,
                             !.next = IF i < @ \/ (db = "postgresql" /\ m.id > 0) THEN @ ELSE i + 1]
              /\ wrote' = [wrote EXCEPT ![i] = Content(m)] /\ kept' = [kept EXCEPT ![i] = {}]
              /\ fresh' = Others(t, i) \cup (IF how = "ok" THEN {t} ELSE {})
         ELSE /\ table' = [table EXCEPT !.next = IF spent THEN i + 1 ELSE @]
              /\ fresh' = fresh \ {t}
              /\ UNCHANGED <<wrote, kept>>

Create(t) ==
  \E how \in Outcomes :
    \/ \E v \in Values("x"), d \in Bounds[shape].drafts :
         Insert(t, [id |-> 0, x |-> v, level |-> d.level, rank |-> d.rank, data |-> d.data, at |-> Now], how)
    \/ mem[t] # NoModel /\ Insert(t, [mem[t] EXCEPT !.at = Now], how)

\* first, last and all build models from rows; one that cannot be built is an error for all.
Reads(t, op, ids, prepared, pick) ==
  LET built == [i \in ids |-> FromRow(i, prepared)]
      ok == \A i \in ids : built[i] # {}
  IN  /\ Calls(t, op, ok) /\ Same
      /\ IF ok /\ pick \in ids
         THEN \E m \in built[pick] : mem' = [mem EXCEPT ![t] = m] /\ fresh' = fresh \cup {t}
         ELSE mem' = [mem EXCEPT ![t] = NoModel] /\ fresh' = fresh \ {t}

First(t) == \E i \in Ids : Reads(t, "first", {i} \cap Present, TRUE, i)
All(t)   == \E i \in Ids : Reads(t, "all", Present, FALSE, i)
Last(t)  == \E i \in Ids : /\ i \in Present /\ \A j \in Present : j <= i
                           /\ Reads(t, "last", {i}, FALSE, i)

\* update: the hook sets the time, mirrored fields among the columns go into the copy's document,
\* UPDATE ... WHERE id.  m is the copy as the caller left it, sets what the caller passes.
Write(t, m, sets, how) ==
  LET json == SyncJsonFields(m, DOMAIN sets)
      m2 == [m EXCEPT !.at = Now, !.data = json.data]
      f == [c \in DOMAIN sets \cup {"at"} \cup (IF json.sent THEN {"data"} ELSE {}) |->
              IF c = "at" THEN Now ELSE IF c = "data" /\ json.sent THEN json.data ELSE sets[c]]
      row == Over(Stored(f), table.rows[m.id])
      works == m.id \in Present => ~Clashes(m.id, row)
      done == works /\ m.id \in Present /\ how # "refused"
      same(c) == c \in DOMAIN sets /\ sets[c] = m[c]
  IN  /\ Calls(t, "update", how = "ok" /\ works)
      /\ mem' = [mem EXCEPT ![t] = m2]
      /\ IF done
         THEN /\ table' = [table EXCEPT !.rows[m.id] = row]
              /\ wrote' = [wrote EXCEPT ![m.id] = Over(f, @)]
              /\ kept' = [kept EXCEPT ![m.id] =
                            IF "data" \notin DOMAIN f THEN @ \ DOMAIN sets
                            ELSE {c \in Mirrored : IF c \in DOMAIN sets THEN same(c) ELSE t \in fresh /\ c \in @}]
              /\ fresh' = Others(t, m.id) \cup
                          (IF how = "ok" /\ t \in fresh /\ \A c \in DOMAIN sets : same(c) THEN {t} ELSE {})
         ELSE Same /\ fresh' = fresh \ {t}

\* The caller sets a field of its copy and passes that column or all of columns(), or passes a
\* value without setting the field.  A copy without a key is refused before anything is done.
Update(t) ==
  /\ mem[t] # NoModel
  /\ \E c \in {"x", "level", "rank"}, how \in Outcomes : \E val \in Values(c) :
       LET set == [mem[t] EXCEPT ![c] = val]
       IN     \/ mem[t].id > 0 /\ Write(t, set, [k \in {c} |-> val], how)
              \/ mem[t].id > 0 /\ Write(t, set, [k \in {"x", "level", "rank", "data"} |-> set[k]], how)
              \/ mem[t].id > 0 /\ Write(t, mem[t], [k \in {c} |-> val], how)
              \/ /\ mem[t].id = 0 /\ how = "refused" /\ Calls(t, "update", FALSE) /\ Same
                 /\ mem' = [mem EXCEPT ![t] = set] /\ fresh' = fresh \ {t}

Delete(t) ==
  /\ mem[t] # NoModel /\ mem[t].id > 0
  /\ \E how \in Outcomes :
       /\ Calls(t, "delete", how = "ok")
       /\ IF how # "refused"
          THEN /\ table' = [table EXCEPT !.rows[mem[t].id] = NoRow]
               /\ wrote' = [wrote EXCEPT ![mem[t].id] = NoRow] /\ kept' = [kept EXCEPT ![mem[t].id] = {}]
               /\ fresh' = Others(t, mem[t].id)
          ELSE Same /\ fresh' = fresh
       /\ UNCHANGED mem

ModelNext ==
  \/ Restart \/ TableByHand \/ StartMigrate \/ MigrateFails \/ CreateTable \/ CreateIndex
  \/ \E t \in Bounds[shape].tasks : Create(t) \/ First(t) \/ All(t) \/ Last(t) \/ Update(t) \/ Delete(t)

ModelSpec == ModelInit /\ [][ModelNext]_modelVars

-----------------------------------------------------------------------------
Near(a, b) == a = b \/ (a # <<>> /\ b # <<>> /\ a[1] - b[1] \in -1..1)

Agrees(m, w) ==
  /\ IF shape.tag = "datetime" THEN Near(m.x, w.x) ELSE m.x = w.x
  /\ m.level = w.level /\ m.rank = w.rank /\ m.data = w.data
  /\ Near(m.at, w.at) \/ (db = "sqlite" /\ shape.stamps = "struct")

\* A model that first, last or all returns holds, in every field, what the last statement that
\* wrote the column was given: the same value, or for a time one less than a second away.  And a
\* row that create or update wrote can be read, whatever the types of the fields are and whichever
\* protocol the driver reads in.  Two ways do fail, and are findings: first on MySQL with a bool,
\* and the times of a Timestamps struct on SQLite.
ReadIsWritten ==
  \A t \in Callers :
    last[t][1] \in {"first", "last", "all"} =>
      /\ last[t][2] \/ (db = "mysql" /\ shape.tag = "bool" /\ last[t][1] = "first")
      /\ (t \in fresh /\ mem[t] # NoModel) => Agrees(mem[t], wrote[mem[t].id])

\* "so that the scalar columns agree with the mirrored fields in `data`": once update has written
\* a mirrored column, from a copy whose field the caller had set to the value it passes, the
\* document and the column agree, until a copy that is not fresh (another task wrote the row, or
\* the copy's own update failed) or a value without its field is written.  A document without
\* room for the path (no object, a scalar on the way) has no mirror.
MirrorKept ==
  \A i \in Present : \A c \in kept[i] :
    \A m \in FromRow(i, FALSE) :
      LET room == m.data # <<>> /\ m.data[1].kind = "object" /\ (c = "rank" => m.data[1].is # "scalar")
      IN  room => At(m.data[1], c) = m[c]

\* Another index has the name of ix: one an earlier version declared plain or over other
\* columns, or one of another table, or a second of the model itself.
Shadowed(ix) == \E old \in table.indexes : old.name = ix.name /\ ~(IsUnique(old) /\ old.cols = ix.cols)

\* From the moment auto_migrate returns Ok no two rows share a key that the running version
\* declares unique, whatever tables, rows and indexes earlier versions and failed attempts left:
\* unless the name of the index is another's, when CREATE INDEX is skipped, which is a finding.
OkMeansUnique ==
  migrated => \A ix \in schema : IsUnique(ix) /\ ~Shadowed(ix) => ~Duplicated(ix.cols)
=============================================================================
