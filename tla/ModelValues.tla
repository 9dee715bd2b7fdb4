---------------------------- MODULE ModelValues ----------------------------
(***************************************************************************)
(* The way of one field value from a model to a column and back: the       *)
(* generated columns(), the driver's encoding, what the column keeps, the  *)
(* driver's decoding and the generated from_row, for the three dialects.   *)
(*                                                                         *)
(* A field value is <<n>>, or <<>> for the None of an Option.  A SqlValue  *)
(* is <<variant, payload>>; the payload of a String is <<form, payload>>,  *)
(* where the form says what the text spells ("text" for anything else).    *)
(* Time counts half seconds.  A conversion that may fail yields the set of *)
(* its results: one value, or none.                                        *)
(***************************************************************************)
EXTENDS Integers, TLC

Dialects == {"sqlite", "mysql", "postgresql"}

Ints   == {"i8", "i16", "i32", "i64"}
Floats == {"f32", "f64"}
Tags   == Ints \cup Floats \cup {"string", "bool", "datetime", "uuid", "bytes", "json"}

Null == <<"null", 0>>
Forms == {"text", "uuid", "datetime", "json"}
Spelled(form, n) == <<"string", <<form, n>>>>

\* i8 is -2^7 .. 2^7 - 1, i16 is -2^15 .. 2^15 - 1.
Half8  == 128
Half16 == 32768

\* What a field of a tag may hold.
InType(tag) ==
  CASE tag = "bool"   -> {0, 1}
    [] tag = "i8"     -> -Half8..(Half8 - 1)
    [] tag = "i16"    -> -Half16..(Half16 - 1)
    [] tag = "string" -> Forms \X Int
    [] OTHER          -> Int

\* `as i8`, `as i16`: the low bits.  TLC's integers are the i32 the wider casts keep.
LowBits(n, half) == ((n + half) % (2 * half)) - half
Cast(tag, n) ==
  CASE tag = "i8"  -> LowBits(n, Half8)
    [] tag = "i16" -> LowBits(n, Half16)
    [] OTHER       -> n

-----------------------------------------------------------------------------
(* The generated code.                                                     *)

ToColumn(tag, v) ==
  CASE v = <<>>                         -> Null
    [] v # <<>> /\ tag = "uuid"         -> Spelled("uuid", v[1])
    [] v # <<>> /\ tag # "uuid"         -> <<tag, v[1]>>

FromColumn(tag, q) ==
  LET k == q[1]  n == q[2] IN
  CASE tag = "string" -> IF k \in {"json", "bool"} \cup Ints THEN {<<<<k, n>>>>}
                         ELSE IF k = "string" THEN {<<n>>} ELSE {}
    [] tag = "bool" -> IF k = "bool" \/ (k \in {"i32", "i64"} /\ n \in {0, 1}) THEN {<<n>>} ELSE {}
    [] tag \in Ints -> IF k \in Ints THEN {<<Cast(tag, n)>>} ELSE {}
    [] tag \in Floats -> IF k \in Floats THEN {<<n>>} ELSE {}
    [] tag = "bytes" -> IF k = "bytes" THEN {<<n>>} ELSE {}
    [] tag = "uuid" -> IF k = "string" /\ n[1] = "uuid" THEN {<<n[2]>>} ELSE {}
    [] tag \in {"datetime", "json"} ->
         IF k = tag THEN {<<n>>}
         ELSE IF k = "string" /\ n[1] = tag THEN {<<n[2]>>} ELSE {}

\* An Option field takes NULL for None; any other field fails on it.
FromField(tag, opt, q) == IF opt /\ q[1] = "null" THEN {<<>>} ELSE FromColumn(tag, q)

\* A Timestamps struct takes a DateTime and turns anything else into None.
FromStamp(q) == IF q[1] = "datetime" THEN {<<q[2]>>} ELSE {<<>>}

ColumnType(tag) ==
  CASE tag \in {"i8", "i16", "i32"} -> "Integer"
    [] tag = "i64"      -> "BigInteger"
    [] tag = "f32"      -> "Float"
    [] tag = "f64"      -> "Double"
    [] tag = "bool"     -> "Boolean"
    [] tag = "datetime" -> "DateTime"
    [] tag = "bytes"    -> "Binary"
    [] tag = "json"     -> "Json"
    [] tag = "uuid"     -> "Uuid"
    [] tag = "string"   -> "String"

AsSql(type, db) ==
  CASE type = "Integer"    -> "INT"
    [] type = "BigInteger" -> "BIGINT"
    [] type = "Boolean"    -> IF db = "mysql" THEN "TINYINT" ELSE "BOOLEAN"
    [] type = "Float"      -> IF db = "mysql" THEN "FLOAT" ELSE "REAL"
    [] type = "Double"     -> [postgresql |-> "DOUBLE PRECISION", sqlite |-> "REAL", mysql |-> "DOUBLE"][db]
    [] type = "DateTime"   -> IF db = "postgresql" THEN "TIMESTAMP" ELSE "DATETIME"
    [] type = "Json"       -> [postgresql |-> "JSONB", sqlite |-> "TEXT", mysql |-> "JSON"][db]
    [] type = "Binary"     -> "BLOB"
    [] type \in {"String", "Uuid"} -> "VARCHAR"

-----------------------------------------------------------------------------
(* SQLite: the values of rusqlite.  A column keeps what it is given: the   *)
(* affinity of each type above fits the values its fields send.            *)

SqliteTimeAsNumber(q) ==     \* a DateTime bound as a number of seconds
  CASE q[1] \in {"datetime", "bool"} \cup Ints -> <<"integer", q[2]>>
    [] q[1] \in Floats    -> <<"real", q[2]>>
    [] q[1] = "string"    -> <<"text", q[2]>>
    [] q[1] = "bytes"     -> <<"blob", q[2]>>
    [] q[1] = "json"      -> <<"text", <<"json", q[2]>>>>
    [] q[1] = "null"      -> Null

ToSqlite(q) ==
  CASE q[1] \in {"bool"} \cup Ints -> <<"integer", q[2]>>
    [] q[1] \in Floats    -> <<"real", q[2]>>
    [] q[1] = "string"    -> <<"text", q[2]>>
    [] q[1] = "bytes"     -> <<"blob", q[2]>>
    [] q[1] = "datetime"  -> <<"text", <<"datetime", 2 * (q[2] \div 2)>>>>   \* no fraction
    [] q[1] = "json"      -> <<"text", <<"json", q[2]>>>>
    [] q[1] = "null"      -> Null

FromSqlite(c) ==
  <<[integer |-> "i64", real |-> "f64", text |-> "string", blob |-> "bytes", null |-> "null"][c[1]], c[2]>>

-----------------------------------------------------------------------------
(* MySQL: the binary parameters of a prepared statement; rows in binary    *)
(* after one, in text after a plain query.                                 *)

MySqlType(q) ==
  CASE q[1] = "null"            -> "NULL"
    [] q[1] \in {"bool", "i8"}  -> "TINY"
    [] q[1] = "i16"             -> "SHORT"
    [] q[1] = "i32"             -> "LONG"
    [] q[1] = "i64"             -> "LONGLONG"
    [] q[1] = "f32"             -> "FLOAT"
    [] q[1] = "f64"             -> "DOUBLE"
    [] q[1] \in {"string", "json"} -> "VAR_STRING"
    [] q[1] = "bytes"           -> "BLOB"
    [] q[1] = "datetime"        -> "DATETIME"

BinaryParam(q) == <<MySqlType(q), IF q[1] = "json" THEN <<"json", q[2]>> ELSE q[2]>>

\* DATETIME has no fraction: the server rounds.
MySqlKeeps(w) ==
  CASE w[1] = "NULL"     -> Null
    [] w[1] = "DATETIME" -> <<"kept", 2 * ((w[2] + 1) \div 2)>>
    [] OTHER             -> <<"kept", w[2]>>

\* The type code of a result column, and the variants it is decoded to.
MySqlCode(type) ==
  [INT |-> "LONG", BIGINT |-> "LONGLONG", TINYINT |-> "TINY", FLOAT |-> "FLOAT", DOUBLE |-> "DOUBLE",
   VARCHAR |-> "VAR_STRING", DATETIME |-> "DATETIME", JSON |-> "JSON", BLOB |-> "BLOB"][type]

DecodeText(code, n) ==
  CASE code \in {"TINY", "SHORT", "LONG"} -> <<"i32", n>>
    [] code = "LONGLONG" -> <<"i64", n>>
    [] code = "FLOAT"    -> <<"f32", n>>
    [] code = "DOUBLE"   -> <<"f64", n>>
    [] code = "DATETIME" -> <<"datetime", n>>
    [] code = "BLOB"     -> <<"bytes", n>>
    [] OTHER             -> <<"string", n>>

DecodeBinary(code, n) ==
  CASE code = "TINY"     -> <<"i8", n>>
    [] code = "SHORT"    -> <<"i16", n>>
    [] code = "LONG"     -> <<"i32", n>>
    [] code = "LONGLONG" -> <<"i64", n>>
    [] code = "FLOAT"    -> <<"f32", n>>
    [] code = "DOUBLE"   -> <<"f64", n>>
    [] code = "DATETIME" -> <<"datetime", n>>
    [] code = "BLOB"     -> <<"bytes", n>>
    [] OTHER             -> <<"string", n>>

-----------------------------------------------------------------------------
(* PostgreSQL: parameters and rows in text.                                *)

EncodeText(q) ==
  CASE q[1] \in Ints   -> <<"num", q[2]>>
    [] q[1] \in Floats -> <<"float", q[2]>>
    [] q[1] = "string" -> q[2]
    [] OTHER           -> q

PgKeeps(w) == IF w[1] = "null" THEN Null ELSE <<"kept", w>>

DecodeOid(type, w) ==
  CASE type = "BOOLEAN"   -> <<"bool", w[2]>>
    [] type = "INT"       -> <<"i32", w[2]>>
    [] type = "BIGINT"    -> <<"i64", w[2]>>
    [] type = "REAL"      -> <<"f32", w[2]>>
    [] type = "DOUBLE PRECISION" -> <<"f64", w[2]>>
    [] type = "BYTEA"     -> <<"bytes", w[2]>>
    [] type = "JSONB"     -> <<"json", w[2]>>
    [] type = "TIMESTAMP" -> <<"datetime", w[2]>>
    [] type = "VARCHAR"   -> <<"string", w>>

-----------------------------------------------------------------------------
(* The whole way, for a field of a tag.                                    *)

\* A PostgreSQL server has no BLOB: its tables are made by hand with BYTEA.
TypeIn(tag, db) ==
  LET type == AsSql(ColumnType(tag), db) IN IF db = "postgresql" /\ type = "BLOB" THEN "BYTEA" ELSE type

Kept(db, q) ==
  CASE db = "sqlite"     -> ToSqlite(q)
    [] db = "mysql"      -> MySqlKeeps(BinaryParam(q))
    [] db = "postgresql" -> PgKeeps(EncodeText(q))

Decoded(db, type, cell, prepared) ==
  CASE cell[1] = "null"  -> Null
    [] cell[1] # "null" /\ db = "sqlite" -> FromSqlite(cell)
    [] cell[1] # "null" /\ db = "mysql"  ->
         IF prepared THEN DecodeBinary(MySqlCode(type), cell[2]) ELSE DecodeText(MySqlCode(type), cell[2])
    [] cell[1] # "null" /\ db = "postgresql" -> DecodeOid(type, cell[2])
=============================================================================
