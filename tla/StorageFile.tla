---------------------------- MODULE StorageFile ----------------------------
(***************************************************************************)
(* The tormdb file of src/src/db/storage.rs: encode and decode.  An engine *)
(* is a function from table names to a schema and rows.  A file is the     *)
(* sequence of its fields; bytes, lengths and UTF-8 are abstracted, so a   *)
(* field is there or it is not.                                            *)
(***************************************************************************)
EXTENDS Integers, SequencesExt

CONSTANT MaxNanos      \* the last date that i64 nanoseconds can hold

Null     == [t |-> "Null", n |-> 0]
Val(t, n) == [t |-> t, n |-> n]
NoEngine == <<>>       \* the empty map of tables

(* What a table is made of.                                                *)
Types     == {"Null", "Bool", "I8", "I16", "I32", "I64", "F32", "F64", "String", "Bytes", "DateTime", "Json"}
SqlValues == {Null} \cup [t : Types \ {"Null"}, n : Int]
OptionOf(S) == {o \in Seq(S) : Len(o) <= 1}

ColumnTypes == {"Integer", "BigInt", "Real", "Text", "Boolean", "Blob", "DateTime"}
ColumnDefs  == [name : STRING, type : ColumnTypes, nullable : BOOLEAN, unique : BOOLEAN,
                default : OptionOf(SqlValues)]
TableSchemas == [columns : Seq(ColumnDefs), primary_key : OptionOf(STRING)]
RowsData    == [id : Nat, values : Seq(SqlValues)]
TablesData  == [schema : TableSchemas, rows : Seq(RowsData)]

\* put_sql_value: eight-, sixteen- and thirty-two-bit integers share a tag, and
\* so do the two floats.
Tag(t) == CASE t = "Null" -> 0 [] t = "Bool" -> 1
            [] t \in {"I8", "I16", "I32"} -> 2
            [] t = "I64" -> 3
            [] t \in {"F32", "F64"} -> 4
            [] t = "String" -> 5 [] t = "Bytes" -> 6 [] t = "DateTime" -> 7 [] t = "Json" -> 8

\* sql_value: what each tag is read as.
TypeOfTag == <<"Bool", "I32", "I64", "F64", "String", "Bytes", "DateTime", "Json">>

PutValue(v) ==
  CASE v.t = "Null" -> <<0>>
    [] v.t = "DateTime" /\ v.n > MaxNanos -> <<Tag(v.t), 0>>
    [] OTHER -> <<Tag(v.t), v.n>>

\* An Option: a flag, then what it holds (a sequence of length 0 or 1).
PutOption(o, Put(_)) == IF o = <<>> THEN <<0>> ELSE <<1>> \o Put(o[1])

PutAll(s, Put(_)) == <<Len(s)>> \o FlattenSeq([i \in DOMAIN s |-> Put(s[i])])

PutColumn(c) == <<c.name, c.type, c.nullable, c.unique>> \o PutOption(c.default, PutValue)

PutRow(r) == <<r.id>> \o PutAll(r.values, PutValue)

PutTable(name, d) ==
  <<name>> \o PutAll(d.schema.columns, PutColumn)
           \o PutOption(d.schema.primary_key, LAMBDA k : <<k>>)
           \o PutAll(d.rows, PutRow)

Encode(e) ==
  <<"TORMDB01", 1>> \o PutAll(SetToSeq(DOMAIN e), LAMBDA name : PutTable(name, e[name]))

-----------------------------------------------------------------------------
(* The reader: `at` fields are consumed, `got` is the last thing read, and  *)
(* `ok` is FALSE once the end of the file was met.                          *)

Reader == [at |-> 0, ok |-> TRUE, got |-> 0]

\* r, as the reader that read x.
Got(r, x) == [at |-> r.at, ok |-> r.ok, got |-> x]

\* Mutant: the reader keeps what it has when the file ends.
FieldUnchecked(b, r) ==
  IF r.at < Len(b) THEN [at |-> r.at + 1, ok |-> r.ok, got |-> b[r.at + 1]]
                   ELSE [at |-> r.at, ok |-> r.ok, got |-> 0]

Field(b, r) ==
  IF r.at < Len(b) THEN [at |-> r.at + 1, ok |-> r.ok, got |-> b[r.at + 1]]
                   ELSE [at |-> r.at, ok |-> FALSE, got |-> 0]

\* A count, then so many items.
GetAll(b, r, Get(_, _)) ==
  LET n == Field(b, r)
      item[k \in 0..n.got] ==
        IF k = 0 THEN Got(n, <<>>)
        ELSE LET q == Get(b, item[k - 1]) IN Got(q, Append(item[k - 1].got, q.got))
  IN item[n.got]

GetOption(b, r, Get(_, _)) ==
  LET flag == Field(b, r)
      q    == Get(b, flag)
  IN IF flag.got = 0 THEN Got(flag, <<>>) ELSE Got(q, <<q.got>>)

GetValue(b, r) ==
  LET tag == Field(b, r)
      v   == Field(b, tag)
  IN IF tag.got = 0 THEN Got(tag, Null) ELSE Got(v, Val(TypeOfTag[tag.got], v.got))

GetColumn(b, r) ==
  LET name == Field(b, r)
      type == Field(b, name)
      null == Field(b, type)
      uniq == Field(b, null)
      dflt == GetOption(b, uniq, GetValue)
  IN Got(dflt, [name |-> name.got, type |-> type.got, nullable |-> null.got,
                unique |-> uniq.got, default |-> dflt.got])

GetRow(b, r) ==
  LET id   == Field(b, r)
      vals == GetAll(b, id, GetValue)
  IN Got(vals, [id |-> id.got, values |-> vals.got])

GetTable(b, r) ==
  LET name == Field(b, r)
      cols == GetAll(b, name, GetColumn)
      key  == GetOption(b, cols, Field)
      rows == GetAll(b, key, GetRow)
  IN Got(rows, <<name.got, [schema |-> [columns |-> cols.got, primary_key |-> key.got],
                            rows   |-> rows.got]>>)

\* decode: whether the file is sound, and the engine it holds.  The version is
\* read and not looked at; of two tables of a name the later one stays.
Decode(b) ==
  LET magic   == Field(b, Reader)
      version == Field(b, magic)
      tables  == GetAll(b, version, GetTable)
      ts      == tables.got
      Final(name) == SelectLastInSeq(ts, LAMBDA t : t[1] = name)
  IN [ok |-> tables.ok,
      engine |-> IF tables.ok THEN [name \in {ts[i][1] : i \in DOMAIN ts} |-> ts[Final(name)][2]]
                              ELSE NoEngine]
=============================================================================
