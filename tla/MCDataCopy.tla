------------------------------ MODULE MCDataCopy ------------------------------
(* Small databases for the copy programs: tables with a generated key, a key  *)
(* of two columns, no key, every type, and those a target refuses.            *)
EXTENDS DataCopy

Row(k, r) == [k |-> k, r |-> r]
Keyed  == <<Row(1, 1), Row(2, 1), Row(3, 1)>>
Tied   == <<Row(1, 1), Row(1, 2), Row(2, 1)>>
Equal  == <<Row(2, 1), Row(1, 1), Row(2, 1)>>
OldRow == <<Row(1, 1)>>

Col(name, type, notnull, def) ==
  [name |-> name, type |-> type, notnull |-> notnull, def |-> def, auto |-> FALSE]
Auto(name, type) == [Col(name, type, TRUE, "none") EXCEPT !.auto = TRUE]
Key(name, type) == Col(name, type, TRUE, "none")

Table(cols, pkey, uniques, rows) ==
  [kind |-> "table", internal |-> FALSE, cols |-> cols, pkey |-> pkey, uniques |-> uniques, rows |-> rows]

Missing == Table(<<>>, <<>>, <<>>, <<>>)
View(t) == [t EXCEPT !.kind = "view", !.pkey = <<>>]

Wide(kind) ==
  LET types == FoldSet(LAMBDA type, seq : Append(seq, type), <<>>, Types(kind))
  IN  Table([i \in DOMAIN types |-> Col(types[i], types[i], FALSE, "none")], <<>>, <<>>, Equal)

Pair(type) == Table(<<Key("a", type), Key("b", type), Col("c", type, FALSE, "null")>>, <<"a", "b">>, <<>>, Tied)

MysqlTables ==
  {Table(<<Auto("id", "int"), Col("code", "varchar", TRUE, "none"), Col("day", "date", FALSE, "today()"),
           Col("at", "datetime", FALSE, "now"), Col("n", "bigint", FALSE, "number")>>,
         <<"id">>, <<<<"code">>, <<"day", "n">>>>, Keyed),
   Table(<<Auto("id", "bigint")>>, <<"id">>, <<>>, Keyed),
   Table(<<Key("id", "int"), Col("name", "varchar", FALSE, "string"), Col("e", "varchar", TRUE, "empty"),
           Col("t", "time", FALSE, "clock")>>, <<"id">>, <<>>, Keyed),
   Table(<<Auto("a", "int"), Key("b", "int")>>, <<"a", "b">>, <<>>, Tied),
   Pair("int"), Wide("mysql")}

PgTables ==
  {Table(<<[Auto("id", "int8") EXCEPT !.def = "nextval"], Col("code", "varchar", TRUE, "none"),
           Col("x", "int4", FALSE, "number"), Col("y", "text", FALSE, "none"), Col("f", "bool", FALSE, "true")>>,
         <<"id">>, <<<<"code">>, <<"x", "y">>>>, Keyed),
   Table(<<Key("id", "text"), Col("x", "int4", FALSE, "none"), Col("y", "int4", FALSE, "none")>>,
         <<"id">>, <<<<"x", "y">>, <<"y">>>>, Keyed),
   Table(<<Key("id", "uuid"), Col("at", "timestamp", FALSE, "utcnow")>>, <<"id">>, <<>>, Keyed),
   Table(<<[Key("id", "uuid") EXCEPT !.def = "call"], Col("d", "date", FALSE, "today"),
           Col("q", "varchar", FALSE, "quoted"), Col("e", "varchar", FALSE, "empty")>>, <<"id">>, <<>>, Keyed),
   Pair("int4"), Wide("postgresql")}

SqliteTables ==
  {Table(<<Key("id", "INTEGER"), Col("n", "REAL", FALSE, "number"), Col("at", "TIMESTAMP", FALSE, "now")>>,
         <<"id">>, <<<<"n">>>>, Keyed),
   Table(<<Key("id", "INTEGER"), Col("f", "BOOLEAN", FALSE, "number"), Col("s", "TEXT", FALSE, "string")>>,
         <<"id">>, <<>>, Keyed),
   Table(<<Key("id", "TEXT"), Col("q", "BLOB", FALSE, "quoted"), Col("w", "TEXT", FALSE, "word")>>,
         <<"id">>, <<>>, Keyed),
   Pair("INTEGER"), Wide("sqlite")}

Tables(tool) ==
  CASE Main(tool).source = "mysql" -> MysqlTables
    [] Main(tool).source = "postgresql" -> PgTables
    [] Main(tool).source = "sqlite" -> SqliteTables

\* A table the target may refuse, then one it takes: what the first leaves behind.
PairType(tool) ==
  CASE Main(tool).source = "mysql" -> "int"
    [] Main(tool).source = "postgresql" -> "int4"
    [] Main(tool).source = "sqlite" -> "TEXT"

Pairs(tool) ==
  LET last == [Pair(PairType(tool)) EXCEPT !.rows = <<Head(@)>>]
  IN  {<<t, last>> : t \in {u \in Tables(tool) : u.rows = Keyed}}

Job(tool, source, given, flags, batch) ==
  [tool |-> tool, source |-> source, given |-> given, flags |-> flags, batch |-> batch]

Singles == {Job(tool, <<t>>, Required(tool), flags, batch) :
              tool \in Tools, t \in UNION {Tables(x) : x \in Tools}, flags \in {{}, {"data_only"}}, batch \in 0..2}

MCJobs ==
  {j \in Singles : j.source[1] \in Tables(j.tool)}
  \cup UNION {{Job(tool, s, Required(tool), flags, 2) : s \in Pairs(tool), flags \in {{}, {"create_only"}, {"create_only", "data_only"}}} :
            tool \in Tools}
  \cup {Job(tool, <<Missing, View(Pair(PairType(tool))), [Missing EXCEPT !.internal = TRUE]>>, given, flags, 1) :
          tool \in Tools, given \in {{}, {"mhost", "phost"}} \cup {Required(x) : x \in Tools},
          flags \in {{"tables", "create_only", "data_only"}, {}}}
=============================================================================
