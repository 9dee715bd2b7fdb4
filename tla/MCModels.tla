------------------------------ MODULE MCModels ------------------------------
(* Models on every dialect and field type, with small tables.              *)
EXTENDS Models

Doc(kind, level, is, rank) == <<[kind |-> kind, level |-> level, is |-> is, rank |-> rank]>>

\* two values of each type: the ends of i8, and times with and without a fraction
MCSamples ==
  [t \in Tags |-> CASE t = "string"   -> {<<"text", 1>>, <<"text", 2>>}
                    [] t = "bool"     -> {0, 1}
                    [] t = "i8"       -> {-128, 127}
                    [] t = "datetime" -> {2, 3}
                    [] t = "i32"      -> {1}
                    [] OTHER          -> {1, 2}]

Plain    == [level |-> <<1>>, rank |-> <<>>, data |-> <<>>]
Mirrors  == {Plain,
             [level |-> <<>>, rank |-> <<1>>, data |-> Doc("object", <<1>>, "scalar", <<>>)],
             [level |-> <<1>>, rank |-> <<1>>, data |-> Doc("object", <<>>, "object", <<1>>)],
             [level |-> <<1>>, rank |-> <<>>, data |-> Doc("other", <<>>, "absent", <<>>)]}

\* an index on x, plain or unique; one of two columns, of which both or one is tagged unique
Index(name, cols, by) == [name |-> name, cols |-> cols, by |-> by]
PlainX  == Index("x", {"x"}, {})
UniqueX == Index("x", {"x"}, {"x"})
UniqueXL == Index("xl", {"x", "level"}, {"x", "level"})
UniqueL  == Index("xl", {"level"}, {"level"})
MixedXL  == Index("xl", {"x", "level"}, {"level"})
Indexes  == {{}, {PlainX}, {UniqueX, UniqueXL}, {PlainX, MixedXL}, {UniqueL}}

\* Every type of field goes its way and back; one shape shows the unique indexes of several
\* versions, one the documents, and the values.
Shape(d, t, o, s) == [db |-> d, tag |-> t, opt |-> o, stamps |-> s]
Fields    == {Shape(d, t, FALSE, "field") : d \in Dialects, t \in Tags}
             \cup {Shape(d, t, TRUE, "struct") : d \in Dialects, t \in {"bool", "datetime"}}
Indexing  == {Shape("sqlite", "bool", FALSE, "struct")}
Mirroring == {Shape("mysql", "i32", FALSE, "struct")}
MCShapes  == Fields \cup Indexing \cup Mirroring

MCBounds ==
  [s \in MCShapes |->
     CASE s \in Indexing  -> [schemas |-> Indexes, others |-> {{}, {"xl"}}, drafts |-> {Plain}, tasks |-> {CHOOSE t \in Callers : TRUE},
                              rows |-> 2, calls |-> 3, starts |-> 1]
       [] s \in Mirroring -> [schemas |-> {{}}, others |-> {{}}, drafts |-> Mirrors, tasks |-> Callers,
                              rows |-> 1, calls |-> 4, starts |-> 0]
       [] s \in Fields    -> [schemas |-> IF s.tag = "string" THEN {{}, {UniqueX}} ELSE {{}}, others |-> {{}},
                              drafts |-> {Plain}, tasks |-> {CHOOSE t \in Callers : TRUE},
                              rows |-> 1, calls |-> 3, starts |-> 0]]
=============================================================================
