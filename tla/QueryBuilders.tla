---------------------------- MODULE QueryBuilders ----------------------------
(* A caller chains calls on one of the three builders (Query and QueryBuilder *)
(* of orm/query.rs, AdvancedQuery of orm/advanced_query.rs), then builds one  *)
(* statement, or reads a table page by page with paginate. `asked` keeps the  *)
(* calls as they were made; the properties compare what the server does with  *)
(* the statement against what those calls say. Another caller types raw SQL,  *)
(* character by character, for convert_placeholders.                          *)
EXTENDS SqlText

CONSTANTS
  Apis,       \* "Query", "QueryBuilder", "AdvancedQuery", "raw"
  Dialects,   \* "sqlite", "mysql", "postgresql"
  Tables,     \* names given to new
  Leaves,     \* conditions of where_eq ... where_not_null
  Boxed,      \* conditions given to Query's or, and
  Raws,       \* texts given to where_raw, or, and
  Groups,     \* lists of conditions given to where_or
  Havings,    \* conditions given to having
  JoinArgs,   \* [type, table, alias, on] given to the joins
  Orders,     \* <<column, direction>> given to order_by
  Limits, Offsets, Pages, \* numbers given to limit, offset and paginate
  Updates,    \* column-to-value maps given to update
  Alphabet, MaxText, \* characters of raw SQL, and how many
  MaxCalls,   \* bound: calls in one chain
  MaxWord     \* u64::MAX, scaled down: 2^w - 1

ASSUME BuilderBounds == MaxCalls \in Nat /\ MaxText \in 0..8 /\ MaxWord \in Nat /\ NULL \notin Limits

VARIABLES api, q, asked, stmt, pager, text
vars == <<api, q, asked, stmt, pager, text>>

Unset == -1
NoStmt == [verb |-> "none"]
NotPaging == [on |-> FALSE, dialect |-> "", per |-> 0, page |-> 0, read |-> <<>>]

\* AdvancedQuery has neither where_gte, where_lte, where_not_in, where_not_null nor where_or, or, and.
AdvancedOps == {"=", "!=", ">", "<", "LIKE", "IN", "BETWEEN", "IS NULL"}

-----------------------------------------------------------------------------
(* The builders. `texts` and `binds` are QueryBuilder's, which renders each   *)
(* condition at the call; the others keep `conds` and render when they build. *)
New(table) ==
  [table |-> Safe(table), conds |-> <<>>, texts |-> <<>>, binds |-> <<>>, orders |-> <<>>,
   limit |-> Unset, offset |-> Unset, joins |-> <<>>, groups |-> <<>>, having |-> <<>>, cols |-> <<>>, aggregates |-> <<>>, unions |-> 0]

AddCondition(cond) == [q EXCEPT !.conds = Append(@, cond)]

AddRendered(cond) == [q EXCEPT !.texts = Append(@, ToSql(cond).text), !.binds = @ \o ToSql(cond).params]

AddText(word, raw) == [q EXCEPT !.texts = Append(@, <<Word(word)>> \o raw)]

\* Query and AdvancedQuery keep a pair: limit keeps the offset, offset without
\* a limit means the largest limit. QueryBuilder keeps the two apart.
SetLimit(n) ==
  IF api = "QueryBuilder" THEN [q EXCEPT !.limit = n]
  ELSE [q EXCEPT !.limit = n, !.offset = IF @ = Unset THEN 0 ELSE @]

SetOffsetOnly(n) == \* mutant: an offset forgets the limit before it
  IF api = "QueryBuilder" THEN [q EXCEPT !.offset = n]
  ELSE [q EXCEPT !.offset = n, !.limit = MaxWord]

SetOffset(n) ==
  IF api = "QueryBuilder" THEN [q EXCEPT !.offset = n]
  ELSE [q EXCEPT !.offset = n, !.limit = IF @ = Unset THEN MaxWord ELSE @]

\* (page - 1) * per_page in u64, as a release build wraps it.
PastPage(page, per) == page * per \* mutant: pages counted from zero
Skipped(page, per) == (page - 1) * per

Paginated(query, page, per) == [query EXCEPT !.limit = per, !.offset = Skipped(page, per) % (MaxWord + 1)]

-----------------------------------------------------------------------------
(* What build, count, build_delete, build_update, build_insert write.         *)
Statement(verb, sets, where, having, params) ==
  [verb |-> verb, table |-> q.table, sets |-> sets, joins |-> <<>>, where |-> where, groups |-> <<>>,
   having |-> having, cols |-> <<>>, orders |-> <<>>, limit |-> Unset, offset |-> Unset, unions |-> 0,
   params |-> params]

\* `LIMIT n`, and ` OFFSET m` only when m > 0 (QueryBuilder: when there is one).
WithPage(built) ==
  [built EXCEPT !.orders = q.orders, !.limit = q.limit,
                !.offset = IF api # "QueryBuilder" /\ q.offset = 0 THEN Unset ELSE q.offset]

BuildQueryBuilder == WithPage(Statement("select", <<>>, Joined(q.texts, "AND"), <<>>, q.binds))

BuildSelect ==
  LET where == WhereSql(q.conds)
  IN  WithPage(Statement("select", <<>>, where.text, <<>>, where.params))

BuildCount ==
  LET where == WhereSql(q.conds) IN Statement("count", <<>>, where.text, <<>>, where.params)

BuildDelete ==
  LET where == WhereSql(q.conds) IN Statement("delete", <<>>, where.text, <<>>, where.params)

\* The columns in one order, their values in the same, and the WHERE after them.
BuildUpdate(columns, updates) ==
  LET where == WhereSql(q.conds)
  IN  Statement("update", columns, where.text, <<>>,
                [i \in DOMAIN columns |-> updates[columns[i]]] \o where.params)

BuildInsert(columns, updates) ==
  Statement("insert", columns, <<>>, <<>>, [i \in DOMAIN columns |-> updates[columns[i]]])

\* SELECT ... FROM, JOINs, WHERE, GROUP BY, HAVING, ORDER BY, LIMIT, UNIONs.
AdvancedSelect ==
  LET where  == WhereSql(q.conds)
      having == WhereSql(q.having)
  IN  [WithPage(Statement("select", <<>>, where.text, having.text, where.params \o having.params))
         EXCEPT !.joins = q.joins, !.groups = q.groups, !.unions = q.unions,
                !.cols = IF q.cols # <<>> THEN q.cols ELSE q.aggregates]

\* The joins lose their aliases, and HAVING is not written.
AdvancedCount ==
  [BuildCount EXCEPT !.joins = [i \in DOMAIN q.joins |-> [q.joins[i] EXCEPT !.alias = ""]],
                     !.groups = q.groups]

\* build_update and build_delete of AdvancedQuery write no joins.
AdvancedUpdate(columns, updates) ==
  [BuildUpdate(columns, updates) EXCEPT !.sets = [i \in DOMAIN columns |-> Safe(columns[i])]]

AdvancedDelete == BuildDelete

-----------------------------------------------------------------------------
Init ==
  /\ api \in Apis
  /\ \E table \in Tables : q = New(table) /\ asked = <<[m |-> "new", arg |-> table]>>
  /\ stmt = NoStmt /\ pager = NotPaging /\ text = <<>>

Call(m, arg, query) ==
  /\ api # "raw" /\ stmt = NoStmt /\ ~pager.on /\ Len(asked) <= MaxCalls
  /\ q' = query
  /\ asked' = Append(asked, [m |-> m, arg |-> arg])
  /\ UNCHANGED <<api, stmt, pager, text>>

Where == \E cond \in Leaves : api = "Query" /\ Call("where", cond, AddCondition(cond))
BuilderWhere == \E cond \in Leaves : api = "QueryBuilder" /\ Call("where", cond, AddRendered(cond))
AdvancedWhere ==
  \E cond \in Leaves : api = "AdvancedQuery" /\ cond.op \in AdvancedOps /\ Call("where", cond, AddCondition(cond))

WhereRaw == \E raw \in Raws : api \in {"Query", "AdvancedQuery"} /\ Call("where", Raw(raw), AddCondition(Raw(raw)))

WhereOr == \E of \in Groups : api = "Query" /\ Call("where", Box("OrGroup", of), AddCondition(Box("OrGroup", of)))

OrAnd ==
  \E word \in {"OR", "AND"} :
     \/ api = "Query" /\ \E cond \in Boxed : Call("orand", word, AddCondition(Box(word, <<cond>>)))
     \/ api = "QueryBuilder" /\ \E raw \in Raws : Call("orand", word, AddText(word, raw))

OrderBy == \E order \in Orders : Call("order", order, [q EXCEPT !.orders = Append(@, <<Safe(order[1]), order[2]>>)])

Limit == \E n \in Limits : Call("limit", n, SetLimit(n))
Offset == \E n \in Offsets : Call("offset", n, SetOffset(n))
Paginate == \E p \in Pages : api # "QueryBuilder" /\ Call("paginate", p, Paginated(q, p[1], p[2]))

Join ==
  /\ api = "AdvancedQuery"
  /\ \E j \in JoinArgs :
        Call("join", j, [q EXCEPT !.joins = Append(@, [j EXCEPT !.table = Safe(@), !.alias = Safe(@)])])

GroupBy == \E cols \in {<<"a">>} : api = "AdvancedQuery" /\ Call("group", cols, [q EXCEPT !.groups = cols])
Having == \E cond \in Havings : api = "AdvancedQuery" /\ Call("having", cond, [q EXCEPT !.having = <<cond>>])
Union == api = "AdvancedQuery" /\ Call("union", 1, [q EXCEPT !.unions = @ + 1])
Select ==
  \E cols \in {<<"id">>, <<"id", "unknown">>} :
     api = "AdvancedQuery" /\ Call("select", cols, [q EXCEPT !.cols = [i \in DOMAIN cols |-> Safe(cols[i])]])

\* count, sum, avg, min, max: listed only when select was not called.
Aggregate == \E col \in {"a"} : api = "AdvancedQuery" /\ Call("aggregate", col, [q EXCEPT !.aggregates = Append(@, Safe(col))])

\* Relation::build_query: the related rows by their foreign key, one or all of
\* them; many_to_many asks for a column named like the join table.
Relation ==
  /\ api = "Query" /\ Len(asked) = 1 /\ stmt = NoStmt /\ ~pager.on
  /\ \E key \in {"a", "join_table"}, one \in BOOLEAN, id \in {1} :
        LET cond == Leaf("=", key, <<id>>)
            all  == [q EXCEPT !.conds = Append(@, cond)]
        IN  /\ q' = IF one THEN [all EXCEPT !.limit = 1, !.offset = 0] ELSE all
            /\ asked' = asked \o <<[m |-> "where", arg |-> cond]>>
                              \o IF one THEN <<[m |-> "limit", arg |-> 1]>> ELSE <<>>
  /\ UNCHANGED <<api, stmt, pager, text>>

Built(built, how) ==
  /\ api # "raw" /\ stmt = NoStmt /\ ~pager.on
  /\ stmt' = built /\ asked' = asked \o how
  /\ UNCHANGED <<api, q, pager, text>>

Build(built)          == Built(built, <<>>)
Write(built, updates) == Built(built, <<[m |-> "set", arg |-> updates]>>)

BuildRead ==
  \/ api = "QueryBuilder" /\ Build(BuildQueryBuilder)
  \/ api = "Query" /\ (Build(BuildSelect) \/ Build(BuildCount))
  \/ api = "AdvancedQuery" /\ (Build(AdvancedSelect) \/ Build(AdvancedCount))

\* Query sorts the columns; AdvancedQuery takes them as the HashMap yields them.
BuildWrite ==
  \/ api = "Query" /\ Build(BuildDelete)
  \/ api = "AdvancedQuery" /\ Build(AdvancedDelete)
  \/ \E updates \in Updates :
       \/ api = "Query"
          /\ Write(BuildUpdate(SetToSortSeq(DOMAIN updates, LAMBDA c, d : c = "a" \/ d = "id"), updates), updates)
       \/ api = "AdvancedQuery" /\ \E columns \in SetToSeqs(DOMAIN updates) : Write(AdvancedUpdate(columns, updates), updates)
       \/ api = "Query" /\ \E columns \in SetToSeqs(DOMAIN updates) : Write(BuildInsert(columns, updates), updates)

-----------------------------------------------------------------------------
(* What the server makes of a statement.                                      *)
Params(s) == Len(s.sets) + Holes(s.where) + Holes(s.having)

CanRun(s, dialect) ==
  /\ s.table # "" /\ FromReadable(s.joins, dialect)
  /\ Params(s) = Len(s.params)
  /\ ToSet(s.sets) \cup ToSet(s.groups) \cup ToSet(s.cols) \cup {s.orders[i][1] : i \in DOMAIN s.orders}
       \subseteq FromColumns(s.joins)
  /\ s.verb = "update" => s.sets # <<>>
  /\ s.verb = "insert" => (s.sets # <<>> \/ dialect = "mysql")
  /\ Max({s.limit, s.offset}) > MaxWord \div 2 => dialect = "mysql"
  /\ (s.offset # Unset /\ s.limit = Unset) => dialect = "postgresql"
  /\ s.unions > 0 => (dialect # "sqlite" /\ s.orders = <<>> /\ s.limit = Unset)
  /\ s.having # <<>> => s.groups # <<>>

\* One row for each group: what it was grouped by, and how many rows it holds.
GroupRows(rows, groups) ==
  LET key(r) == [c \in ToSet(groups) |-> r[c]]
  IN  {key(r) @@ ("COUNT(*)" :> Cardinality({x \in rows : key(x) = key(r)})) : r \in rows}

\* The rows the WHERE keeps, the groups the HAVING keeps, and what SET assigns.
Run(s, dialect) ==
  LET from  == FromRows(s.joins)
      text2 == Bound(s.where \o s.having, SubSeq(s.params, Len(s.sets) + 1, Len(s.params)))
      where == Filter(SubSeq(text2, 1, Len(s.where)), from, FromColumns(s.joins), dialect)
      kept  == IF s.groups = <<>> THEN [ok |-> TRUE, rows |-> {}]
               ELSE Filter(SubSeq(text2, Len(s.where) + 1, Len(text2)), GroupRows(where.rows, s.groups),
                           ToSet(s.groups) \cup {"COUNT(*)"}, dialect)
  IN  IF CanRun(s, dialect) /\ where.ok /\ kept.ok
      THEN [ok |-> TRUE, rows |-> where.rows, groups |-> kept.rows,
            set |-> {<<s.sets[i], s.params[i]>> : i \in DOMAIN s.sets}]
      ELSE [ok |-> FALSE, rows |-> {}, groups |-> {}, set |-> {}]

\* r may come before t: the first ORDER BY column they differ in says so.
Before(orders, r, t) ==
  LET differ == {i \in DOMAIN orders : r[orders[i][1]] # t[orders[i][1]]}
      col    == orders[Min(differ)]
  IN  differ = {} \/ IF col[2] = "DESC" THEN r[col[1]] > t[col[1]] ELSE r[col[1]] < t[col[1]]

\* Rows in the order of an ORDER BY that has the unique column id.
Total(orders) == \E i \in DOMAIN orders : orders[i][1] = "id"
Listing(rows, orders) == SetToSortSeq(rows, LAMBDA r, t : r = t \/ Before(orders, r, t))

Page(list, limit, offset) ==
  LET skip == IF offset = Unset THEN 0 ELSE offset
  IN  SubSeq(list, skip + 1, IF limit = Unset THEN Len(list) ELSE Min({skip + limit, Len(list)}))

-----------------------------------------------------------------------------
(* A caller that reads everything page by page, in an order without ties,     *)
(* until a page comes back short.                                             *)
StartPaging ==
  /\ api \in {"Query", "AdvancedQuery"} /\ stmt = NoStmt /\ ~pager.on
  /\ q.limit = Unset /\ q.joins = <<>> /\ q.groups = <<>> /\ Total(q.orders)
  /\ \E dialect \in Dialects, per \in Limits :
        /\ Run(BuildSelect, dialect).ok
        /\ pager' = [on |-> TRUE, dialect |-> dialect, per |-> per, page |-> 1, read |-> <<>>]
  /\ UNCHANGED <<api, q, asked, stmt, text>>

\* The caller builds the page's statement, runs it and keeps its rows.
ReadPage ==
  /\ pager.on /\ stmt = NoStmt
  /\ LET paged == Paginated(q, pager.page, pager.per)
         built == [BuildSelect EXCEPT !.limit = paged.limit, !.offset = IF paged.offset = 0 THEN Unset ELSE paged.offset]
         got   == Page(Listing(Run(built, pager.dialect).rows, built.orders), built.limit, built.offset)
     IN  /\ q' = paged
         /\ pager' = [pager EXCEPT !.page = @ + 1, !.read = @ \o got]
         /\ stmt' = IF Len(got) < pager.per THEN built ELSE NoStmt
  /\ UNCHANGED <<api, asked, text>>

Type == api = "raw" /\ Len(text) < MaxText /\ \E c \in Alphabet : text' = Append(text, c)
        /\ UNCHANGED <<api, q, asked, stmt, pager>>

Next ==
  \/ Where \/ BuilderWhere \/ AdvancedWhere \/ WhereRaw \/ WhereOr \/ OrAnd \/ OrderBy \/ Limit \/ Offset \/ Paginate
  \/ Join \/ GroupBy \/ Having \/ Union \/ Select \/ Aggregate \/ Relation
  \/ BuildRead \/ BuildWrite \/ StartPaging \/ ReadPage \/ Type

Spec == Init /\ [][Next]_vars

-----------------------------------------------------------------------------
(* What the calls say.                                                        *)
Args(m) == LET calls == SelectSeq(asked, LAMBDA call : call.m = m)
           IN  [i \in DOMAIN calls |-> calls[i].arg]
Last1(seq) == IF seq = <<>> THEN <<>> ELSE <<Last(seq)>>

RECURSIVE Means(_, _, _)
Means(cond, rows, dialect) ==
  CASE cond.op = "Raw" -> Filter(cond.raw, rows, DOMAIN (CHOOSE r \in rows : TRUE), dialect).rows
    [] cond.op = "OrGroup" -> UNION {Means(cond.of[i], rows, dialect) : i \in DOMAIN cond.of}
    [] OTHER -> {r \in rows : Holds(cond.op, r[cond.col], cond.vals)}

\* A raw text with an OR of its own is the caller's to put in parentheses.
LooseOr(cond) == cond.op = "Raw" /\ \E i \in DOMAIN cond.raw :
                    /\ cond.raw[i].t = "OR"
                    /\ \A j \in 1..i : cond.raw[j].t # "("

Identifiers ==
  {asked[1].arg} \cup {cond.col : cond \in ToSet(Args("where"))}
  \cup IF stmt.verb = "select" THEN {order[1] : order \in ToSet(Args("order"))} ELSE {}

\* Whatever the chain and the database: the statement is refused, or it takes
\* the rows every condition asked for is true of, no more and no fewer, groups
\* them and keeps the groups as asked, and writes the values asked for. A chain
\* with an identifier sql_safety refused never reaches a row; neither does one
\* with `or` or `and`, whose text no server reads. Left out: a raw OR without
\* parentheses beside other conditions, and joins in UPDATE and DELETE, which
\* AdvancedQuery does not write (query.rs:531-745, advanced_query.rs:347-522).
ChainMeaning ==
  stmt # NoStmt /\ ~pager.on => \A dialect \in Dialects :
    LET conds == Args("where")
        joins == Args("join")
        from  == FromRows(joins)
        ran   == Run(stmt, dialect)
        loose == Len(conds) > 1 /\ \E i \in DOMAIN conds : LooseOr(conds[i])
        apart == stmt.verb \in {"update", "delete"} /\ joins # <<>>
    IN  /\ ran.ok /\ stmt.verb \in {"update", "insert"} =>
             LET updates == Last(Args("set")) IN ran.set = {<<c, updates[c]>> : c \in DOMAIN updates}
        /\ ran.ok /\ stmt.verb # "insert" /\ ~loose /\ ~apart =>
          /\ Args("orand") = <<>>
          /\ Identifiers \cap Rejected = {}
          /\ ran.rows = {r \in from : \A i \in DOMAIN conds : r \in Means(conds[i], from, dialect)}
          /\ stmt.verb = "select" /\ Args("group") # <<>> =>
               LET groups == GroupRows(ran.rows, Last(Args("group")))
               IN  ran.groups = {g \in groups : \A c \in ToSet(Last1(Args("having"))) :
                                                   g \in Means(c, groups, dialect)}

\* The pages of a SELECT: the last limit and the last offset asked for hold,
\* in whichever order they were called, paginate counts pages from 1, and page 0
\* has no rows (query.rs:507-529).
AskedLimit ==
  LET set == SelectSeq(asked, LAMBDA c : c.m \in {"limit", "paginate"})
  IN  IF set = <<>> THEN Unset ELSE IF Last(set).m = "limit" THEN Last(set).arg ELSE Last(set).arg[2]
AskedOffset ==
  LET set == SelectSeq(asked, LAMBDA c : c.m \in {"offset", "paginate"})
  IN  IF set = <<>> THEN 0 ELSE IF Last(set).m = "offset" THEN Last(set).arg ELSE (Last(set).arg[1] - 1) * Last(set).arg[2]

PageAsked ==
  stmt # NoStmt /\ ~pager.on => \A dialect \in Dialects :
    LET ran  == Run(stmt, dialect)
        list == Listing(ran.rows, stmt.orders)
        page == Page(list, stmt.limit, stmt.offset)
    IN  stmt.verb = "select" /\ stmt.groups = <<>> /\ stmt.joins = <<>> /\ ran.ok /\ Total(stmt.orders) =>
          page = IF AskedOffset < 0 THEN <<>> ELSE Page(list, AskedLimit, AskedOffset)

\* Reading page after page returns every row that meets the conditions once, in
\* order, as many as the COUNT of the same chain (query.rs:523-529, 570-584).
PagesCoverOnce ==
  pager.on /\ stmt # NoStmt =>
    LET conds == Args("where")
        all   == {r \in Users : \A i \in DOMAIN conds : r \in Means(conds[i], Users, pager.dialect)}
    IN  (Len(conds) > 1 => \A i \in DOMAIN conds : ~LooseOr(conds[i])) =>
          /\ pager.read = Listing(all, Args("order"))
          /\ Cardinality(Run(BuildCount, pager.dialect).rows) = Len(pager.read)

\* A second reading of SQL text, one character at a time: a `?` is a hole unless
\* a string or a `--` comment is open.
Mode(mode, c) ==
  CASE mode = "string"  -> IF c = "'" THEN "code" ELSE "string"
    [] mode = "comment" -> IF c = "newline" THEN "code" ELSE "comment"
    [] mode = "dash"    -> IF c = "-" THEN "comment" ELSE IF c = "'" THEN "string" ELSE "code"
    [] mode = "code"    -> IF c = "-" THEN "dash" ELSE IF c = "'" THEN "string" ELSE "code"

IsHole(i) == text[i] = "?" /\ FoldLeft(Mode, "code", SubSeq(text, 1, i - 1)) \in {"code", "dash"}

\* convert_placeholders numbers the holes of any SQL in order and leaves all other
\* text alone; converting a second time, as SqlStatement and then Database do,
\* changes nothing more (query.rs:98-135, database.rs:304-324).
ConvertKeepsHoles ==
  LET once == ConvertPlaceholders(text)
  IN  /\ once = [i \in DOMAIN text |->
                   IF IsHole(i) THEN Dollar[Cardinality({j \in 1..i : IsHole(j)})] ELSE text[i]]
      /\ ConvertPlaceholders(once) = once
=============================================================================
