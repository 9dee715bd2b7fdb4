--------------------------- MODULE StorageEngine ---------------------------
(***************************************************************************)
(* The in-memory engine of src/src/db/storage.rs, behind the tokio mutex   *)
(* of src/src/db/async_storage.rs: every operation runs to its end while   *)
(* it holds the lock, so it is one step.  The file is written in place,    *)
(* and the process may die, or the write fail, half way.                   *)
(***************************************************************************)
EXTENDS StorageFile, FiniteSetsExt, Filtering

CONSTANTS
  TableNames,  \* names of tables
  Schemas,     \* schemas tables are created with
  Inputs,      \* rows handed to insert
  Updates,     \* maps from column name to new value handed to update
  Wheres,      \* where clauses
  MaxRows,     \* bound on the rows of all tables together
  Cuts,        \* where an interrupted write may stop, in fields
  UsizeMax     \* usize::MAX

ASSUME StorageAssumption ==
  /\ MaxRows \in Nat /\ UsizeMax \in Nat
  /\ Cuts \subseteq Nat
  /\ TableNames \subseteq STRING /\ Schemas \subseteq TableSchemas
  /\ Inputs \subseteq Seq(SqlValues)
  /\ \A u \in Updates : \A col \in DOMAIN u : u[col] \in SqlValues

VARIABLES
  tables,      \* the engine: a function from names to TableData
  file,        \* the fields of the file, NoFile before the first save
  saved        \* history: the engine the file holds in full, empty if none

storeVars == <<tables, file, saved>>

NoFile == <<"no file">>
Usize  == 0..UsizeMax
Rows(d) == Len(d.rows)
TotalRows == MapThenSumSet(LAMBDA n : Rows(tables[n]), DOMAIN tables)

-----------------------------------------------------------------------------
(* is_type_compatible and the where clauses.                                *)

Stores(type) ==
  CASE type = "Integer"  -> {"I8", "I16", "I32"}
    [] type = "BigInt"   -> {"I64", "I8", "I16", "I32"}
    [] type = "Real"     -> {"F32", "F64"}
    [] type = "Text"     -> {"String"}
    [] type = "Boolean"  -> {"Bool"}
    [] type = "Blob"     -> {"Bytes"}
    [] type = "DateTime" -> {"DateTime"}

Accepts(col, v) == IF v = Null THEN col.nullable ELSE v.t \in Stores(col.type)

\* The position of the first column of that name, 0 if there is none.
Position(schema, name) == SelectInSeq(schema.columns, LAMBDA c : c.name = name)

ColumnValue(row, schema, name) ==
  LET i == Position(schema, name) IN IF i = 0 THEN Null ELSE row.values[i]

\* compare_values: two values that it does not know to compare are equal.
Compare(a, b) ==
  IF a.t # b.t \/ a.t \notin {"I64", "I32", "F64", "String"} \/ a.n = b.n THEN 0
  ELSE IF a.n < b.n THEN -1 ELSE 1

Simple(c, row, schema) ==
  LET v == ColumnValue(row, schema, c.col)
      d == Compare(v, c.val)
  IN CASE c.op = "Eq"  -> v = c.val
       [] c.op = "Ne"  -> v # c.val
       [] c.op = "Gt"  -> d > 0
       [] c.op = "Gte" -> d >= 0
       [] c.op = "Lt"  -> d < 0
       [] c.op = "Lte" -> d <= 0
       [] c.op = "IsNull"    -> v = Null
       [] c.op = "IsNotNull" -> v # Null

\* evaluate_where_clause, for And and Or of two simple clauses; "All" is None.
Matches(c, row, schema) ==
  CASE c.op = "All" -> TRUE
    [] c.op = "And" -> Simple(c.left, row, schema) /\ Simple(c.right, row, schema)
    [] c.op = "Or"  -> Simple(c.left, row, schema) \/ Simple(c.right, row, schema)
    [] OTHER        -> Simple(c, row, schema)

Matching(d, c) == Retain(d.rows, {r \in ToSet(d.rows) : ~Matches(c, r, d.schema)})

-----------------------------------------------------------------------------
(* select: LIMIT and OFFSET in usize arithmetic of a release build.         *)

Wrap(n) == n % (UsizeMax + 1)

\* s.into_iter().skip(from).take(count)
SkipTake(s, from, count) == SubSeq(s, from + 1, Min({from + count, Len(s)}))

\* Mutant: the end is taken for the number of rows.
PageToEnd(s, offset, limit) ==
  LET end == IF limit = <<>> THEN Len(s) ELSE Min({Wrap(offset + limit[1]), Len(s)})
  IN SkipTake(s, offset, end)

\* `limit` is an option: <<>> or <<n>>.
Page(s, offset, limit) ==
  LET end == IF limit = <<>> THEN Len(s) ELSE Min({Wrap(offset + limit[1]), Len(s)})
  IN SkipTake(s, offset, Wrap(end - offset))

TrailingStars(pattern, p) == \A i \in p..Len(pattern) : pattern[i] = "%"

\* A turn of the loop of like_matcher: the two indexes, the last '%' met, 0 if
\* none, and the text index to retry from; `no` is its return false.
LikeTurn(text, pattern, m) ==
  LET here == m.p <= Len(pattern)
  IN  IF m.no \/ m.t > Len(text) THEN m
      ELSE IF here /\ pattern[m.p] \in {"_", text[m.t]} THEN [m EXCEPT !.t = @ + 1, !.p = @ + 1]
      ELSE IF here /\ pattern[m.p] = "%" THEN [m EXCEPT !.star = m.p, !.p = @ + 1]
      ELSE IF m.star > 0 THEN [m EXCEPT !.p = m.star + 1, !.again = @ + 1, !.t = m.again + 1]
      ELSE [m EXCEPT !.no = TRUE]

\* Texts and patterns are sequences of characters.  Every turn goes on in the
\* pattern or to a later retry, so the loop is over after as many turns.
LikeMatcher(text, pattern) ==
  LET turns == (Len(text) + 1) * (Len(pattern) + 2)
      run[n \in 0..turns] ==
        IF n = 0 THEN [t |-> 1, p |-> 1, star |-> 0, again |-> 1, no |-> FALSE]
                 ELSE LikeTurn(text, pattern, run[n - 1])
  IN  ~run[turns].no /\ TrailingStars(pattern, run[turns].p)

-----------------------------------------------------------------------------
(* The operations.                                                          *)

StoreInit == tables = NoEngine /\ file = NoFile /\ saved = NoEngine

CreateTable(name, schema) ==
  /\ name \notin DOMAIN tables
  /\ tables' = [n \in DOMAIN tables \cup {name} |->
                  IF n = name THEN [schema |-> schema, rows |-> <<>>] ELSE tables[n]]
  /\ UNCHANGED <<file, saved>>

DropTable(name) ==
  /\ name \in DOMAIN tables
  /\ tables' = [n \in DOMAIN tables \ {name} |-> tables[n]]
  /\ UNCHANGED <<file, saved>>

\* The id of the row is the new number of rows, not a counter; a Vec holds at
\* most usize::MAX of them.
Insert(name, values) ==
  /\ name \in DOMAIN tables /\ TotalRows < MaxRows
  /\ LET d == tables[name] IN
       /\ Rows(d) < UsizeMax
       /\ Len(values) = Len(d.schema.columns)
       /\ \A i \in DOMAIN values : Accepts(d.schema.columns[i], values[i])
       /\ tables' = [tables EXCEPT ![name].rows = Append(@, [id |-> Rows(d) + 1, values |-> values])]
  /\ UNCHANGED <<file, saved>>

\* A column the table does not have is neither an error nor an update.
Assign(d, row, updates) ==
  [row EXCEPT !.values = [i \in DOMAIN @ |->
     LET col == d.schema.columns[i].name
     IN IF col \in DOMAIN updates /\ Position(d.schema, col) = i THEN updates[col] ELSE @[i]]]

\* Mutant: a new value is checked for its type and not for NOT NULL.
UpdateMayNull(name, updates, c) ==
  /\ name \in DOMAIN tables
  /\ LET d == tables[name] IN
       /\ \A i \in DOMAIN d.schema.columns :
            LET col == d.schema.columns[i] IN
            col.name \in DOMAIN updates => \/ updates[col.name] = Null
                                           \/ Accepts(col, updates[col.name])
       /\ tables' = [tables EXCEPT ![name].rows = [i \in DOMAIN @ |->
            IF Matches(c, @[i], d.schema) THEN Assign(d, @[i], updates) ELSE @[i]]]
  /\ UNCHANGED <<file, saved>>

Update(name, updates, c) ==
  /\ name \in DOMAIN tables
  /\ LET d == tables[name] IN
       /\ \A col \in DOMAIN updates :
            LET i == Position(d.schema, col)
            IN i > 0 => Accepts(d.schema.columns[i], updates[col])
       /\ tables' = [tables EXCEPT ![name].rows = [i \in DOMAIN @ |->
            IF Matches(c, @[i], d.schema) THEN Assign(d, @[i], updates) ELSE @[i]]]
  /\ UNCHANGED <<file, saved>>

Delete(name, c) ==
  /\ name \in DOMAIN tables
  /\ LET d == tables[name] IN
       tables' = [tables EXCEPT ![name].rows = Retain(@, {r \in ToSet(@) : Matches(c, r, d.schema)})]
  /\ UNCHANGED <<file, saved>>

ClearEngine ==
  /\ tables' = NoEngine
  /\ UNCHANGED <<file, saved>>

\* std::fs::write truncates the file and writes the encoding over it.
Save ==
  /\ file' = Encode(tables)
  /\ saved' = tables
  /\ UNCHANGED tables

\* The write stops half way: the disk is full, or the process dies with it.
SaveTorn ==
  /\ LET b == Encode(tables) IN \E k \in Cuts : k < Len(b) /\ file' = SubSeq(b, 1, k)
  /\ saved' = NoEngine
  /\ UNCHANGED tables \/ tables' = NoEngine

\* load_from_file: a new engine, in the place of the one there was.
Load ==
  /\ file # NoFile
  /\ LET d == Decode(file) IN d.ok /\ tables' = d.engine
  /\ UNCHANGED <<file, saved>>

StoreNext ==
  \/ \E n \in TableNames, s \in Schemas : CreateTable(n, s)
  \/ \E n \in TableNames : DropTable(n)
  \/ \E n \in TableNames, v \in Inputs : Insert(n, v)
  \/ \E n \in TableNames, u \in Updates, c \in Wheres : Update(n, u, c)
  \/ \E n \in TableNames, c \in Wheres : Delete(n, c)
  \/ ClearEngine
  \/ Save
  \/ SaveTorn
  \/ Load

StoreSpec == StoreInit /\ [][StoreNext]_storeVars

-----------------------------------------------------------------------------
(* Properties.                                                             *)

EngineOK(e) ==
  /\ DOMAIN e \subseteq TableNames
  /\ \A n \in DOMAIN e : /\ e[n] \in TablesData
                         /\ \A i \in DOMAIN e[n].rows : Len(e[n].rows[i].values) = Len(e[n].schema.columns)

\* The shape of the engine and of the engine being saved.
StoreTypeOK == EngineOK(tables) /\ EngineOK(saved) /\ DOMAIN file = 1..Len(file)

\* Whatever was inserted, updated, deleted, saved and loaded before: every value
\* of every row is one its column accepts, and no NOT NULL column holds NULL
\* (storage.rs:131-146, 210-221; after a load nothing checks it again).
Fits(d) ==
  \A i \in DOMAIN d.rows : \A k \in DOMAIN d.schema.columns :
    Accepts(d.schema.columns[k], d.rows[i].values[k])

RowsFitSchema == \A n \in DOMAIN tables : Fits(tables[n])

\* What a value is after it was written and read: narrow integers and floats
\* are widened, a date out of range is not kept.
SameValue(v, w) ==
  \/ w = v
  \/ v.t \in {"I8", "I16"} /\ w = Val("I32", v.n)
  \/ v.t = "F32" /\ w = Val("F64", v.n)
  \/ v.t = "DateTime" /\ w.t = "DateTime" /\ v.n > MaxNanos
SameColumn(c, e) ==
  /\ e = [c EXCEPT !.default = e.default]
  /\ Len(e.default) = Len(c.default)
  /\ \A i \in DOMAIN c.default : SameValue(c.default[i], e.default[i])
SameSchema(d, e) ==
  /\ e.primary_key = d.primary_key
  /\ Len(e.columns) = Len(d.columns)
  /\ \A i \in DOMAIN d.columns : SameColumn(d.columns[i], e.columns[i])
SameTable(d, e) ==
  /\ SameSchema(d.schema, e.schema)
  /\ Rows(e) = Rows(d)
  /\ \A i \in DOMAIN d.rows :
       /\ e.rows[i].id = d.rows[i].id
       /\ Len(e.rows[i].values) = Len(d.rows[i].values)
       /\ \A k \in DOMAIN d.rows[i].values : SameValue(d.rows[i].values[k], e.rows[i].values[k])
SameEngine(a, b) == DOMAIN b = DOMAIN a /\ \A n \in DOMAIN a : SameTable(a[n], b[n])

\* A load finds the engine of the last save, value by value, or an error, and
\* never a part of it: wherever a write was cut, no strict prefix of a file is
\* accepted (the reader of storage.rs:722-808 meets the end of the file; looked
\* at in the states a save ends in, which hold every file there is).
LoadIsLastSave ==
  file # NoFile =>
    /\ Decode(file).ok => SameEngine(saved, Decode(file).engine)
    /\ tables = saved => \A k \in 0..(Len(file) - 1) : ~Decode(SubSeq(file, 1, k)).ok

\* With any limit and offset, sums that wrap around and offsets beyond the end
\* included, a release build returns the rows offset+1 to offset+limit of those
\* that match, in their order (storage.rs:180-188).
PageIsSlice ==
  \A n \in DOMAIN tables, c \in Wheres :
    LET found == Matching(tables[n], c) IN
    \A offset \in Usize, limit \in {<<>>} \cup {<<l>> : l \in Usize} :
      Page(found, offset, limit) =
        SubSeq(found, offset + 1, IF limit = <<>> THEN Len(found) ELSE Min({offset + limit[1], Len(found)}))

\* What LIKE means: the pattern can be laid over the text, f[i] being where its
\* first i characters end.
Lies(f, text, pattern) ==
  /\ f[0] = 0 /\ f[Len(pattern)] = Len(text)
  /\ \A i \in 1..Len(pattern) :
       IF pattern[i] = "%" THEN f[i - 1] <= f[i]
       ELSE f[i] = f[i - 1] + 1 /\ pattern[i] \in {"_", text[f[i]]}

Like(text, pattern) == \E f \in [0..Len(pattern) -> 0..Len(text)] : Lies(f, text, pattern)

StarFirst(pattern) == \A i \in DOMAIN pattern : pattern[i] = "%" => i = 1

\* like_matcher finds every text LIKE accepts, and only those when '%' is the
\* first character of the pattern or does not occur (storage.rs:415-442); no
\* text here holds a '%' itself, which the matcher takes for a plain character.
\* It depends on no state: looking at it in the empty engine is enough.
LikeFindsAll ==
  tables = NoEngine =>
  \A text \in BoundedSeq({"a", "b"}, 3), pattern \in BoundedSeq({"a", "b", "%", "_"}, 3) :
    /\ Like(text, pattern) => LikeMatcher(text, pattern)
    /\ LikeMatcher(text, pattern) /\ StarFirst(pattern) => Like(text, pattern)

\* A select returns the page asked for of the rows that match: the slice in
\* wrapping arithmetic, and every row whose text LIKE accepts.
SelectIsExact == PageIsSlice /\ LikeFindsAll
=============================================================================
