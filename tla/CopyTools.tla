------------------------------ MODULE CopyTools ------------------------------
(***************************************************************************)
(* What the six copy programs of src/src/bin make of a table: the columns  *)
(* each reads from the catalog of its source, the table it creates on its  *)
(* target, the query it pages with and the flags it insists on.            *)
(*                                                                         *)
(* A source table is [cols, pkey, uniques, rows]; a column of it is        *)
(* [name, type, notnull, def, auto].  A type is named as the catalog names *)
(* it and a default by what it stands for: "now", "today", "string", ...   *)
(* A built table is [cols, primary, uniques]; a column of it is            *)
(* [name, type, notnull, def, unique, auto, inline].                       *)
(*                                                                         *)
(* Of each program: xMain, what its main connects and whether it asks for  *)
(* the schema (the loop they share is Program of DataCopy); xRequired, the *)
(* flags parse_args insists on; xTables, what resolve_tables lists; xType  *)
(* and xDefault, the mappings; xCreate, the CREATE TABLE; xMigrate, the    *)
(* order of the pages and the placeholders of the INSERT.                  *)
(***************************************************************************)
EXTENDS Naturals, SequencesExt, Filtering

Names(cols) == [i \in DOMAIN cols |-> cols[i].name]

Plain(c, type, def) ==
  [name |-> c.name, type |-> type, notnull |-> ~c.nullable, def |-> def,
   unique |-> c.unique, auto |-> FALSE, inline |-> FALSE]

Primary(cols) == Names(Retain(cols, {c \in ToSet(cols) : ~c.primary}))

\* ORDER BY the first key column found, else by every column.
PageOrder(cols) ==
  LET keys == Primary(cols) IN IF keys = <<>> THEN Names(cols) ELSE <<Head(keys)>>

Paging(cols, holes) == [order |-> PageOrder(cols), insert |-> Names(cols), holes |-> holes]

-----------------------------------------------------------------------------
(* What fetch_columns reads from each kind of source.                      *)

\* COLUMN_KEY says PRI for every column of the key and UNI for a column that is
\* unique alone: an index over several columns is not read at all.  No default is
\* read either: COLUMN_DEFAULT is a LONGTEXT, which arrives as Bytes (mysql.rs:1093),
\* and get takes what as_str takes.
MysqlColumns(t) ==
  [i \in DOMAIN t.cols |->
     LET c == t.cols[i] IN
     [name |-> c.name, type |-> c.type, nullable |-> ~c.notnull, def |-> "none", auto |-> c.auto,
      primary |-> c.name \in ToSet(t.pkey),
      unique |-> c.name \notin ToSet(t.pkey) /\ <<c.name>> \in ToSet(t.uniques)]]

\* The rows of the constraint query, ordered by constraint: <<constraint, column>>.
UniqueRows(t) ==
  FlattenSeq([k \in DOMAIN t.uniques |-> [i \in DOMAIN t.uniques[k] |-> <<k, t.uniques[k][i]>>]])

\* Adjacent rows of one constraint make a group.
GroupsRead(t) ==
  LET rows == UniqueRows(t)
      read[n \in 0..Len(rows)] ==
        IF n = 0 THEN [name |-> 0, cur |-> <<>>, done |-> <<>>]
        ELSE LET g == read[n - 1]
                 row == rows[n]
             IN  IF g.name # 0 /\ g.name # row[1]
                 THEN [name |-> row[1], cur |-> <<row[2]>>, done |-> Append(g.done, g.cur)]
                 ELSE [name |-> row[1], cur |-> Append(g.cur, row[2]), done |-> g.done]
  IN  read[Len(rows)]

\* Mutant: the group that is still open after the last row is not pushed.
UniqueGroupsLost(t) == GroupsRead(t).done

UniqueGroups(t) ==
  LET end == GroupsRead(t)
  IN  IF end.cur = <<>> THEN end.done ELSE Append(end.done, end.cur)

Composite(groups) == Retain(groups, {g \in ToSet(groups) : Len(g) <= 1})

\* A column counts as generated when its default calls nextval; an identity
\* column has no default and is read as a plain one.
PgColumns(t) ==
  [i \in DOMAIN t.cols |->
     LET c == t.cols[i]
         key == c.name \in ToSet(t.pkey) IN
     [name |-> c.name, type |-> c.type, nullable |-> ~c.notnull, def |-> c.def,
      auto |-> c.def = "nextval", primary |-> key,
      unique |-> ~key /\ <<c.name>> \in ToSet(UniqueGroups(t))]]

\* PRAGMA table_info: no word of UNIQUE; an INT key column is taken for the rowid.
SqliteInt == {"INT", "INTEGER", "BIGINT"}

SqliteColumns(t) ==
  [i \in DOMAIN t.cols |->
     LET c == t.cols[i]
         key == c.name \in ToSet(t.pkey) IN
     [name |-> c.name, type |-> c.type, nullable |-> ~c.notnull, def |-> c.def,
      auto |-> key /\ c.type \in SqliteInt, primary |-> key, unique |-> FALSE]]

-----------------------------------------------------------------------------
(* mysql2sqlite                                                            *)

M2SMain == [source |-> "mysql", target |-> "sqlite", schema |-> FALSE]

M2SRequired == {"sqlite_file", "mhost", "mport", "mdb", "muser"}

M2STables(t) == t.kind = "table"

M2SType(type) ==
  CASE type \in {"tinyint", "smallint", "mediumint", "int", "bigint", "year", "bool"} -> "INTEGER"
    [] type \in {"decimal", "float", "double"} -> "REAL"
    [] type \in {"tinyblob", "blob", "longblob", "binary", "varbinary", "bit"} -> "BLOB"
    [] OTHER -> "TEXT"

\* MySQL tells a string without quotes: an empty one is taken for none, one that
\* spells a keyword or a number for that, and quotes at its ends are cut.
M2SDefault(def) ==
  CASE def \in {"now", "today()"} -> "now" [] def \in {"true", "false"} -> "number"
    [] def = "empty" -> "none" [] def \in {"word", "quoted"} -> "other"
    [] def \in {"none", "clock", "null", "number"} -> def [] OTHER -> "string"

\* A generated key is declared in its column, the rest of the key for the table.
M2SCreate(cols, groups) ==
  LET rowid(c) == c.auto /\ c.primary
      def(c) == IF c.auto THEN "none" ELSE M2SDefault(c.def)
  IN  [cols |-> [i \in DOMAIN cols |->
         IF rowid(cols[i])
         THEN [Plain(cols[i], "INTEGER", "none") EXCEPT !.notnull = FALSE, !.unique = FALSE,
                                                       !.auto = TRUE, !.inline = TRUE]
         ELSE Plain(cols[i], M2SType(cols[i].type), def(cols[i]))],
       primary |-> Primary(Retain(cols, {c \in ToSet(cols) : rowid(c)})),
       uniques |-> <<>>]

M2SMigrate(cols) == Paging(cols, "?")

-----------------------------------------------------------------------------
(* mysql2postgresql                                                        *)

M2PMain == [source |-> "mysql", target |-> "postgresql", schema |-> FALSE]

M2PRequired == {"mhost", "mport", "mdb", "muser", "phost", "pport", "pdb", "puser"}

M2PTables(t) == t.kind = "table"

\* Mutant: a bigint that counts up is given a 32 bit sequence, as an int is.
M2PSerialSmall(type) == "SERIAL"

M2PSerial(type) == IF type = "bigint" THEN "BIGSERIAL" ELSE "SERIAL"

M2PType(type) ==
  CASE type \in {"tinyint", "smallint", "year"} -> "SMALLINT"
    [] type \in {"mediumint", "int"} -> "INTEGER" [] type = "bigint" -> "BIGINT"
    [] type = "decimal" -> "NUMERIC" [] type = "float" -> "REAL"
    [] type = "double" -> "DOUBLE PRECISION" [] type = "bit" -> "BIT" [] type = "char" -> "CHAR"
    [] type \in {"varchar", "varbinary"} -> "VARCHAR"
    [] type \in {"tinyblob", "blob", "longblob", "binary"} -> "BYTEA" [] type = "date" -> "DATE"
    [] type \in {"datetime", "timestamp"} -> "TIMESTAMP" [] type = "time" -> "TIME"
    [] type = "json" -> "JSONB" [] type = "bool" -> "BOOLEAN" [] OTHER -> "TEXT"

\* A string is put in double quotes, which makes it the name of a column.
M2PDefault(def) ==
  CASE def \in {"now", "today()"} -> "now" [] def = "empty" -> "none" [] def = "word" -> "other"
    [] def \in {"none", "null", "number", "true", "false"} -> def [] OTHER -> "column"

M2PCreate(cols, groups) ==
  [cols |-> [i \in DOMAIN cols |->
     LET c == cols[i] IN
     IF c.auto THEN [Plain(c, M2PSerial(c.type), "none") EXCEPT !.auto = TRUE]
               ELSE Plain(c, M2PType(c.type), M2PDefault(c.def))],
   primary |-> Primary(cols),
   uniques |-> <<>>]

M2PMigrate(cols) == Paging(cols, "$")

-----------------------------------------------------------------------------
(* postgres2sqlite                                                         *)

P2SMain == [source |-> "postgresql", target |-> "sqlite", schema |-> TRUE]

P2SRequired == {"phost", "pport", "pdb", "puser", "sqlite_file"}

P2STables(t) == t.kind = "table"

P2SType(type) ==
  CASE type \in {"int2", "int4", "int8", "bool"} -> "INTEGER"
    [] type \in {"float4", "float8", "numeric", "money"} -> "REAL"
    [] type \in {"bytea", "bit", "varbit"} -> "BLOB"
    [] type \in {"timestamp", "timestamptz"} -> "DATETIME" [] type = "date" -> "DATE"
    [] type \in {"time", "timetz"} -> "TIME" [] OTHER -> "TEXT"

\* The text of an expression is cut at its cast and quoted as it stands; quotes at
\* the ends of a string and what follows a :: in it are cut as well.
P2SDefault(def) ==
  CASE def = "nextval" -> "none" [] def \in {"true", "false"} -> "number"
    [] def = "utcnow" -> "malformed" [] def = "quoted" -> "other"
    [] def \in {"none", "now", "today", "clock", "null", "number", "empty", "word"} -> def [] OTHER -> "string"

P2SCreate(cols, groups) ==
  LET rowid(c) == c.auto /\ c.primary
  IN  [cols |-> [i \in DOMAIN cols |->
         LET c == cols[i] IN
         IF rowid(c) THEN [Plain(c, "INTEGER", "none") EXCEPT !.unique = FALSE, !.auto = TRUE, !.inline = TRUE]
         ELSE Plain(c, P2SType(c.type), IF c.auto THEN "none" ELSE P2SDefault(c.def))],
       primary |-> Primary(Retain(cols, {c \in ToSet(cols) : rowid(c)})),
       uniques |-> Composite(groups)]

P2SMigrate(cols) == Paging(cols, "?")

-----------------------------------------------------------------------------
(* postgresql2mysql                                                        *)

P2MMain == [source |-> "postgresql", target |-> "mysql", schema |-> TRUE]

P2MRequired == {"phost", "pport", "pdb", "puser", "mhost", "mport", "mdb", "muser"}

P2MTables(t) == t.kind = "table"

P2MType(type) ==
  CASE type = "int2" -> "SMALLINT" [] type = "int4" -> "INT" [] type = "int8" -> "BIGINT"
    [] type = "float4" -> "FLOAT" [] type = "float8" -> "DOUBLE" [] type = "numeric" -> "DECIMAL"
    [] type = "money" -> "DECIMAL(19,2)" [] type = "bool" -> "TINYINT(1)"
    [] type \in {"varchar", "text", "json", "jsonb", "array"} -> "LONGTEXT"
    [] type = "bpchar" -> "CHAR(1)" [] type \in {"name", "interval"} -> "VARCHAR(64)"
    [] type = "bytea" -> "BLOB" [] type = "bit" -> "BIT" [] type = "varbit" -> "VARBINARY(255)"
    [] type \in {"timestamp", "timestamptz"} -> "DATETIME" [] type = "date" -> "DATE"
    [] type \in {"time", "timetz"} -> "TIME" [] type = "uuid" -> "CHAR(36)"
    [] type = "inet" -> "VARCHAR(45)" [] type = "macaddr" -> "VARCHAR(17)" [] OTHER -> "TEXT"

\* MySQL indexes no TEXT or BLOB: such a key column becomes a VARCHAR.
P2MTypeForCol(c, isKey) ==
  IF isKey /\ P2MType(c.type) \in {"TEXT", "LONGTEXT", "BLOB"} THEN "VARCHAR(255)" ELSE P2MType(c.type)

P2MDefault(def) ==
  CASE def = "nextval" -> "none" [] def = "utcnow" -> "now"
    [] def \in {"true", "false"} -> "number" [] def = "quoted" -> "other"
    [] def \in {"none", "now", "today", "user", "null", "number", "empty", "word"} -> def [] OTHER -> "string"

P2MCreate(cols, groups) ==
  LET keys == {cols[i].name : i \in {j \in DOMAIN cols : cols[j].primary \/ cols[j].unique}}
              \cup UNION {ToSet(groups[k]) : k \in DOMAIN groups}
  IN  [cols |-> [i \in DOMAIN cols |->
         LET c == cols[i]
             type == P2MTypeForCol(c, c.name \in keys) IN
         IF c.auto THEN [Plain(c, type, "none") EXCEPT !.auto = TRUE]
                   ELSE Plain(c, type, P2MDefault(c.def))],
       primary |-> Primary(cols),
       uniques |-> Composite(groups)]

P2MMigrate(cols) == Paging(cols, "?")

-----------------------------------------------------------------------------
(* sqlite2mysql and sqlite2postgres                                        *)

\* The declared types that contain a word, as SQLite's own affinity rules ask.
Text == {"VARCHAR", "CLOB", "TEXT"}
Blob == {"BLOB", ""}
Real == {"REAL", "FLOAT", "DOUBLE"}
Numeric == {"NUMERIC", "DECIMAL"}
HasDate == {"DATE", "DATETIME"}
HasTime == {"TIME", "TIMESTAMP", "DATETIME"}

S2MMain == [source |-> "sqlite", target |-> "mysql", schema |-> FALSE]

S2MRequired == {"sqlite_file", "mhost", "mport", "mdb", "muser"}

\* sqlite_master also lists the tables SQLite keeps for itself.
S2MTables(t) == t.kind = "table" /\ ~t.internal

S2MType(type) ==
  CASE type \in SqliteInt -> "BIGINT" [] type \in Text -> "TEXT" [] type \in Blob -> "LONGBLOB"
    [] type \in Real -> "DOUBLE" [] type \in Numeric -> "DECIMAL(20,10)"
    [] type \in HasDate -> "DATE" [] type \in HasTime \ HasDate -> "DATETIME"
    [] type = "BOOLEAN" -> "TINYINT(1)" [] OTHER -> "TEXT"

S2MDefault(def) ==
  CASE def \in {"true", "false"} -> "number" [] def = "quoted" -> "other"
    [] def \in {"none", "now", "today", "clock", "null", "number", "empty", "word"} -> def [] OTHER -> "string"

\* Each generated column is declared a primary key of its own.
S2MCreate(cols, groups) ==
  [cols |-> [i \in DOMAIN cols |->
     LET c == cols[i] IN
     IF c.auto THEN [Plain(c, S2MType(c.type), "none") EXCEPT !.notnull = TRUE, !.auto = TRUE, !.inline = TRUE]
               ELSE Plain(c, S2MType(c.type), S2MDefault(c.def))],
   primary |-> Primary(Retain(cols, {c \in ToSet(cols) : c.auto})),
   uniques |-> <<>>]

S2MMigrate(cols) == Paging(cols, "?")

S2PMain == [source |-> "sqlite", target |-> "postgresql", schema |-> FALSE]

S2PRequired == {"sqlite_file", "phost", "pport", "pdb", "puser"}

S2PTables(t) == t.kind = "table" /\ ~t.internal

S2PType(type) ==
  CASE type \in SqliteInt -> "BIGINT" [] type \in Text -> "TEXT" [] type \in Blob -> "BYTEA"
    [] type \in Real -> "DOUBLE PRECISION" [] type \in Numeric -> "NUMERIC"
    [] type \in HasDate -> "DATE" [] type \in HasTime \ HasDate -> "TIMESTAMP"
    [] type = "BOOLEAN" -> "BOOLEAN" [] OTHER -> "TEXT"

S2PDefault(def) ==
  CASE def \in {"none", "now", "today", "clock", "true", "false", "null", "number", "empty", "word"} -> def
    [] def = "quoted" -> "other" [] OTHER -> "string"

\* SERIAL is 32 bits wide, the INTEGER of SQLite it stands for is 64.
S2PCreate(cols, groups) ==
  [cols |-> [i \in DOMAIN cols |->
     LET c == cols[i] IN
     IF c.auto THEN [Plain(c, "SERIAL", "none") EXCEPT !.notnull = FALSE, !.auto = TRUE]
               ELSE Plain(c, S2PType(c.type), S2PDefault(c.def))],
   primary |-> Primary(cols),
   uniques |-> <<>>]

S2PMigrate(cols) == Paging(cols, "$")

-----------------------------------------------------------------------------
(* A program by its name.                                                  *)

Tools == {"mysql2sqlite", "mysql2postgresql", "postgres2sqlite", "postgresql2mysql",
          "sqlite2mysql", "sqlite2postgres"}

Main(tool) ==
  CASE tool = "mysql2sqlite" -> M2SMain [] tool = "mysql2postgresql" -> M2PMain
    [] tool = "postgres2sqlite" -> P2SMain [] tool = "postgresql2mysql" -> P2MMain
    [] tool = "sqlite2mysql" -> S2MMain [] tool = "sqlite2postgres" -> S2PMain

Required(tool) ==
  CASE tool = "mysql2sqlite" -> M2SRequired [] tool = "mysql2postgresql" -> M2PRequired
    [] tool = "postgres2sqlite" -> P2SRequired [] tool = "postgresql2mysql" -> P2MRequired
    [] tool = "sqlite2mysql" -> S2MRequired [] tool = "sqlite2postgres" -> S2PRequired

Listed(tool, t) ==
  CASE tool = "mysql2sqlite" -> M2STables(t) [] tool = "mysql2postgresql" -> M2PTables(t)
    [] tool = "postgres2sqlite" -> P2STables(t) [] tool = "postgresql2mysql" -> P2MTables(t)
    [] tool = "sqlite2mysql" -> S2MTables(t) [] tool = "sqlite2postgres" -> S2PTables(t)

Columns(tool, t) ==
  CASE Main(tool).source = "mysql" -> MysqlColumns(t)
    [] Main(tool).source = "postgresql" -> PgColumns(t)
    [] Main(tool).source = "sqlite" -> SqliteColumns(t)

Built(tool, t) ==
  LET cols == Columns(tool, t)
      groups == IF Main(tool).source = "postgresql" THEN UniqueGroups(t) ELSE <<>>
  IN  CASE tool = "mysql2sqlite" -> M2SCreate(cols, groups)
        [] tool = "mysql2postgresql" -> M2PCreate(cols, groups)
        [] tool = "postgres2sqlite" -> P2SCreate(cols, groups)
        [] tool = "postgresql2mysql" -> P2MCreate(cols, groups)
        [] tool = "sqlite2mysql" -> S2MCreate(cols, groups)
        [] tool = "sqlite2postgres" -> S2PCreate(cols, groups)

Migrate(tool, t) ==
  LET cols == Columns(tool, t) IN
  CASE tool = "mysql2sqlite" -> M2SMigrate(cols) [] tool = "mysql2postgresql" -> M2PMigrate(cols)
    [] tool = "postgres2sqlite" -> P2SMigrate(cols) [] tool = "postgresql2mysql" -> P2MMigrate(cols)
    [] tool = "sqlite2mysql" -> S2MMigrate(cols) [] tool = "sqlite2postgres" -> S2PMigrate(cols)

-----------------------------------------------------------------------------
(* The three targets (external): which CREATE TABLE each accepts ...       *)

KeyDeclarations(b) ==
  Len(SelectSeq(b.cols, LAMBDA c : c.inline)) + (IF b.primary = <<>> THEN 0 ELSE 1)

KeyOf(b) == ToSet(b.primary) \cup {b.cols[i].name : i \in {j \in DOMAIN b.cols : b.cols[j].inline}}

Indexed(b) ==
  KeyOf(b) \cup {b.cols[i].name : i \in {j \in DOMAIN b.cols : b.cols[j].unique}}
           \cup UNION {ToSet(b.uniques[k]) : k \in DOMAIN b.uniques}

DefaultAccepted(kind, c) ==
  CASE kind = "sqlite" -> c.def # "malformed"
    [] kind = "postgresql" -> c.def # "column" /\ ~(c.type = "BOOLEAN" /\ c.def = "number")
    [] kind = "mysql" ->
         CASE c.def \in {"none", "null"} -> TRUE
           [] c.def = "now" -> c.type = "DATETIME"
           [] c.def \in {"number", "string", "empty", "word", "other"} -> c.type \notin {"TEXT", "LONGTEXT", "BLOB", "LONGBLOB"}
           [] OTHER -> FALSE

Accepts(kind, b) ==
  /\ KeyDeclarations(b) <= 1
  /\ \A i \in DOMAIN b.cols : DefaultAccepted(kind, b.cols[i])
  /\ kind = "mysql" =>
       /\ \A i \in DOMAIN b.cols :
            b.cols[i].name \in Indexed(b) => b.cols[i].type \notin {"TEXT", "LONGTEXT", "BLOB", "LONGBLOB"}
       /\ \A i \in DOMAIN b.cols : b.cols[i].auto => b.cols[i].name \in Indexed(b)
       /\ Len(SelectSeq(b.cols, LAMBDA c : c.auto)) <= 1

(* ... the kinds of value a column of each type has room for ...           *)

Ints32 == {"i16", "u16", "i32"}
Ints64 == Ints32 \cup {"u32", "i64"}
Short  == {"char", "short"}
Days   == {"day", "second", "micro"}

Keeps(kind, type) ==
  CASE kind = "sqlite" ->
         CASE type = "INTEGER" -> Ints64 \cup {"bool"}
           [] type = "REAL" -> Ints32 \cup {"float", "double", "cents"}
           [] type = "BLOB" -> {"bytes", "long bytes", "bit", "bits"}
           [] OTHER -> Short \cup Days \cup {"zero", "long", "json", "clock", "tick", "zoned", "span"}
    [] kind = "postgresql" ->
         CASE type = "SMALLINT" -> {"i16"}
           [] type \in {"INTEGER", "SERIAL"} -> Ints32
           [] type \in {"BIGINT", "BIGSERIAL"} -> Ints64
           [] type = "NUMERIC" -> Ints64 \cup {"u64", "cents", "decimal"}
           [] type = "REAL" -> {"float"}
           [] type = "DOUBLE PRECISION" -> {"float", "double"}
           [] type = "BIT" -> {"bit"}
           [] type = "CHAR" -> {"char"}
           [] type = "BYTEA" -> {"bytes", "long bytes"}
           [] type = "DATE" -> {"day"}
           [] type = "TIMESTAMP" -> Days
           [] type = "TIME" -> {"clock", "tick"}
           [] type = "JSONB" -> {"json"}
           [] type = "BOOLEAN" -> {"bool"}
           [] OTHER -> Short \cup {"long"}
    [] kind = "mysql" ->
         CASE type = "TINYINT(1)" -> {"bool"}
           [] type = "SMALLINT" -> {"i16"}
           [] type = "INT" -> Ints32
           [] type = "BIGINT" -> Ints64
           [] type = "FLOAT" -> {"float"}
           [] type = "DOUBLE" -> {"float", "double"}
           [] type = "DECIMAL" -> Ints32 \cup {"u32"}
           [] type = "DECIMAL(19,2)" -> Ints32 \cup {"u32", "cents"}
           [] type = "DECIMAL(20,10)" -> Ints32 \cup {"cents"}
           [] type = "BIT" -> {"bit"}
           [] type = "CHAR(1)" -> {"char"}
           [] type \in {"CHAR(36)", "VARCHAR(17)", "VARCHAR(45)", "VARCHAR(64)", "VARCHAR(255)"} -> Short
           [] type = "VARBINARY(255)" -> {"bit", "bits", "bytes"}
           [] type = "BLOB" -> {"bytes"}
           [] type = "LONGBLOB" -> {"bytes", "long bytes"}
           [] type = "DATE" -> {"day"}
           [] type = "DATETIME" -> {"day", "second"}
           [] type = "TIME" -> {"clock", "span"}
           [] type = "LONGTEXT" -> Short \cup {"long", "json"}
           [] OTHER -> Short

\* The kinds of value a column of a source type may hold; "micro" is a point in
\* time with a fraction of a second and "zero" the date 0000-00-00, "tick" a time
\* of day with a fraction, "zoned" one with a time zone, "span" more than a day.
Values(kind, type) ==
  CASE kind = "mysql" ->
         CASE type \in {"tinyint", "year"} -> {"i16"} [] type = "smallint" -> {"i16", "u16"}
           [] type = "mediumint" -> {"i16", "i32"} [] type = "int" -> {"i32", "u32"}
           [] type = "bigint" -> {"i64", "u64"} [] type = "decimal" -> {"cents", "decimal"}
           [] type = "float" -> {"float"} [] type = "double" -> {"double"}
           [] type = "bit" -> {"bit", "bits"}
           [] type \in {"binary", "varbinary", "tinyblob"} -> {"bytes"}
           [] type \in {"blob", "longblob"} -> {"bytes", "long bytes"} [] type = "date" -> {"day", "zero"}
           [] type \in {"datetime", "timestamp"} -> {"second", "micro", "zero"}
           [] type = "time" -> {"clock", "tick", "span"} [] type = "json" -> {"json"}
           [] type \in {"text", "longtext"} -> {"short", "long"} [] OTHER -> Short
    [] kind = "postgresql" ->
         CASE type = "int2" -> {"i16"} [] type = "int4" -> {"i32"} [] type = "int8" -> {"i64"}
           [] type = "float4" -> {"float"} [] type = "float8" -> {"double"}
           [] type = "numeric" -> {"cents", "decimal"} [] type = "money" -> {"cents"}
           [] type = "bool" -> {"bool"}
           [] type \in {"varchar", "text", "citext", "array"} -> {"short", "long"}
           [] type = "bytea" -> {"bytes", "long bytes"}
           [] type \in {"bit", "varbit"} -> {"bit", "bits"}
           [] type \in {"timestamp", "timestamptz"} -> {"second", "micro"}
           [] type = "date" -> {"day"} [] type = "time" -> {"clock", "tick"} [] type = "timetz" -> {"zoned"}
           [] type \in {"json", "jsonb"} -> {"json"} [] OTHER -> Short
    [] kind = "sqlite" ->
         CASE type \in SqliteInt -> {"i32", "i64"} [] type \in Text -> {"short", "long"}
           [] type \in Blob -> {"bytes", "long bytes"} [] type \in Real -> {"double"}
           [] type \in Numeric -> {"i32", "cents"} [] type = "DATE" -> {"day"}
           [] type \in {"DATETIME", "TIMESTAMP"} -> {"second", "micro"}
           [] type = "TIME" -> {"clock"} [] type = "BOOLEAN" -> {"bool"} [] OTHER -> Short

(* ... and what becomes of a value between the two columns.                *)

\* What the SELECT yields: text that is valid UTF-8 is decoded by the type of its
\* column and kept as it is where that fails; "rounded" is a number close by, as
\* the FLOAT of a text result and an exact number read as f64 are.
MysqlYields(type, v) ==
  IF v \in {"float", "decimal"} THEN {"rounded"}
  ELSE IF v \in {"u32", "u64", "zero"} THEN {"text"}
  ELSE CASE type \in {"text", "longtext", "blob", "longblob"} -> {"bytes"}
         [] type \in {"binary", "varbinary", "bit"} -> {"text", "bytes"}
         [] type \in {"date", "datetime", "timestamp"} -> {"time"}
         [] type \in {"char", "varchar", "enum", "json", "time"} -> {"text"}
         [] OTHER -> {"number"}

PgYields(type, v) ==
  IF v = "decimal" THEN {"rounded"}
  ELSE CASE type \in {"int2", "int4", "int8", "float4", "float8", "numeric", "bool"} -> {"number"}
         [] type = "bytea" -> {"bytes"}
         [] type \in {"date", "timestamp", "timestamptz"} -> {"time"}
         [] OTHER -> {"text"}

SqliteYields(type) ==
  CASE type \in Blob -> {"bytes"}
    [] type \in SqliteInt \cup Real \cup Numeric \cup {"BOOLEAN"} -> {"number"}
    [] OTHER -> {"text"}

Yields(kind, type, v) ==
  CASE kind = "mysql" -> MysqlYields(type, v)
    [] kind = "postgresql" -> PgYields(type, v)
    [] kind = "sqlite" -> SqliteYields(type)

\* What the INSERT makes of it: SQLite is given a time to the second, PostgreSQL
\* bytes as \x and hex digits.  Bytes stay what they are in a binary column only,
\* and only they do; the text of money is no number, that of bits no bits.
Binary == {"BLOB", "LONGBLOB", "VARBINARY(255)", "BYTEA"}

Stores(kind, type, form, v) ==
  /\ v \in Keeps(kind, type)
  /\ form # "rounded"
  /\ form = "bytes" <=> type \in Binary
  /\ form = "text" => v \notin {"cents", "bit", "bits"}
  /\ kind = "sqlite" /\ form = "time" => v # "micro"

\* A column of one type arrives whole in a column of another.
Arrives(source, was, kind, now) ==
  \A v \in Values(source, was) : \A form \in Yields(source, was, v) : Stores(kind, now, form, v)

Types(kind) ==
  CASE kind = "mysql" ->
         {"tinyint", "smallint", "mediumint", "int", "bigint", "year", "decimal", "float", "double", "bit",
          "char", "varchar", "text", "longtext", "enum", "binary", "varbinary", "blob", "longblob", "date",
          "datetime", "timestamp", "time", "json"}
    [] kind = "postgresql" ->
         {"int2", "int4", "int8", "float4", "float8", "numeric", "money", "bool", "varchar", "bpchar", "text",
          "name", "citext", "bytea", "bit", "varbit", "timestamp", "timestamptz", "date", "time", "timetz",
          "interval", "json", "jsonb", "uuid", "inet", "macaddr", "array"}
    [] kind = "sqlite" ->
         SqliteInt \cup Text \cup Blob \cup Real \cup Numeric \cup HasDate \cup HasTime \cup {"BOOLEAN"}

\* The kinds of default an information schema, a catalog or a PRAGMA may tell; a
\* string may be empty, spell a keyword or a number ("word"), or have quotes at its
\* ends or a :: in it ("quoted").
Defaults(kind) ==
  {"none", "null", "number", "string", "empty", "word", "quoted", "now", "clock", "true", "false", "call"}
  \cup CASE kind = "mysql" -> {"today()"}
         [] kind = "postgresql" -> {"today", "user", "utcnow", "nextval"}
         [] kind = "sqlite" -> {"today"}

\* A column that counts up is an integer, and in MySQL it has no default.
IsColumn(kind, c) ==
  /\ c.type \in Types(kind) /\ c.def \in Defaults(kind)
  /\ c.notnull \in BOOLEAN /\ c.auto \in BOOLEAN
  /\ kind = "mysql" /\ c.auto =>
       c.type \in {"tinyint", "smallint", "mediumint", "int", "bigint"} /\ c.def = "none"
  /\ c.def = "nextval" => c.type \in {"int2", "int4", "int8"}

\* Keys and constraints are over columns of the table.
IsTable(kind, t) ==
  /\ t.rows \in Seq([k : Nat, r : Nat])
  /\ t.cols \in Seq(ToSet(t.cols))
  /\ \A i \in DOMAIN t.cols : IsColumn(kind, t.cols[i])
  /\ t.pkey \in Seq(ToSet(Names(t.cols)))
  /\ t.uniques \in Seq(Seq(ToSet(Names(t.cols))) \ {<<>>})
=============================================================================
