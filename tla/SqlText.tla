------------------------------- MODULE SqlText -------------------------------
(* The text the query builders write, and the server that reads it.           *)
(* Text is a sequence of tokens: a comparison with its `?` holes, AND, OR and *)
(* parentheses (orm/query.rs, WhereCondition::to_sql). The server is outside  *)
(* the program: it binds the parameters from left to right, reads AND before  *)
(* OR, and refuses what it cannot read. convert_placeholders, which turns the *)
(* holes into $1, $2 ... for PostgreSQL, works on characters.                 *)
EXTENDS Integers, Sequences, SequencesExt, FiniteSetsExt, TLC

CONSTANTS
  Rejected,  \* identifiers that utils/sql_safety.rs refuses
  Users,     \* rows of the table the chains start from: id, a
  Posts      \* rows of the table they join: ref (a user's id) and b

NULL == 0

\* safe_column, safe_identifier, safe_table: a refused identifier becomes "".
Safe(identifier) == IF identifier \in Rejected THEN "" ELSE identifier

-----------------------------------------------------------------------------
(* Conditions and their text.                                                 *)
Leaf(op, col, vals) == [op |-> op, col |-> col, vals |-> vals, of |-> <<>>, raw |-> <<>>]
Box(op, of)         == [op |-> op, col |-> "", vals |-> <<>>, of |-> of, raw |-> <<>>]
Raw(text)           == [op |-> "Raw", col |-> "", vals |-> <<>>, of |-> <<>>, raw |-> text]

Word(t)          == [t |-> t, op |-> "", col |-> "", holes |-> 0, vals |-> <<>>]
Cmp(op, col, n)  == [t |-> "cmp", op |-> op, col |-> col, holes |-> n, vals |-> <<>>]
Lit(op, col, vs) == [t |-> "cmp", op |-> op, col |-> col, holes |-> 0, vals |-> vs]

Parens(text) == <<Word("(")>> \o text \o <<Word(")")>>

\* texts.join(" AND "), texts.join(" OR ")
Joined(texts, word) ==
  IF texts = <<>> THEN <<>>
  ELSE FoldLeft(LAMBDA all, text : all \o <<Word(word)>> \o text, Head(texts), Tail(texts))

OrGroupBare(parts) == \* mutant: the group without its parentheses
  [text   |-> Joined([i \in DOMAIN parts |-> parts[i].text], "OR"),
   params |-> FlattenSeq([i \in DOMAIN parts |-> parts[i].params])]

OrGroup(parts) ==
  [text   |-> Parens(Joined([i \in DOMAIN parts |-> parts[i].text], "OR")),
   params |-> FlattenSeq([i \in DOMAIN parts |-> parts[i].params])]

RECURSIVE ToSql(_)
ToSql(cond) ==
  CASE cond.op = "Raw" -> [text |-> cond.raw, params |-> <<>>]
    [] cond.op = "OrGroup" -> OrGroup([i \in DOMAIN cond.of |-> ToSql(cond.of[i])])
    [] cond.op \in {"OR", "AND"} ->
         LET inner == ToSql(cond.of[1])
         IN  [text |-> <<Word(cond.op)>> \o Parens(inner.text), params |-> inner.params]
    [] OTHER -> [text |-> <<Cmp(cond.op, Safe(cond.col), Len(cond.vals))>>, params |-> cond.vals]

\* The loop every build_* has: clauses joined by AND, bindings appended in turn.
WhereSql(conds) ==
  LET parts == [i \in DOMAIN conds |-> ToSql(conds[i])]
  IN  [text   |-> Joined([i \in DOMAIN parts |-> parts[i].text], "AND"),
       params |-> FlattenSeq([i \in DOMAIN parts |-> parts[i].params])]

-----------------------------------------------------------------------------
(* The server: which rows a condition's text is true of.                      *)
Holes(text) == FoldLeft(LAMBDA n, token : n + token.holes, 0, text)

\* The text with its holes filled from params, left to right.
Bound(text, params) ==
  [i \in DOMAIN text |->
     IF text[i].holes = 0 THEN text[i]
     ELSE LET before == Holes(SubSeq(text, 1, i - 1))
          IN  [text[i] EXCEPT !.vals = SubSeq(params, before + 1, before + text[i].holes)]]

Holds(op, v, vals) ==
  CASE op = "IS NULL"     -> v = NULL
    [] op = "IS NOT NULL" -> v # NULL
    [] op = "="           -> v # NULL /\ v = vals[1]
    [] op = "LIKE"        -> v # NULL /\ v = vals[1]
    [] op = "!="          -> v # NULL /\ v # vals[1]
    [] op = ">"           -> v # NULL /\ v > vals[1]
    [] op = ">="          -> v # NULL /\ v >= vals[1]
    [] op = "<"           -> v # NULL /\ v < vals[1]
    [] op = "<="          -> v # NULL /\ v <= vals[1]
    [] op = "BETWEEN"     -> v # NULL /\ vals[1] <= v /\ v <= vals[2]
    [] op = "IN"          -> v # NULL /\ v \in ToSet(vals)
    [] op = "NOT IN"      -> vals = <<>> \/ (v # NULL /\ v \notin ToSet(vals))

\* Only SQLite takes an empty list after IN.
Readable(token, columns, dialect) ==
  /\ token.col \in columns
  /\ token.op \in {"IN", "NOT IN"} /\ token.vals = <<>> => dialect = "sqlite"

\* One parenthesis open: the rows of the ANDs read so far, those of the ORs
\* before them, and whether an operand comes next.
Open(rows) == [or |-> {}, and |-> rows, operand |-> TRUE]
Value(frame) == frame.or \cup frame.and
Operand(frame, rows) == [frame EXCEPT !.and = @ \cap rows, !.operand = FALSE]

\* Reads one token; a stack that is empty has met text it cannot read.
ReadToken(stack, token, rows, columns, dialect) ==
  IF stack = <<>> THEN <<>>
  ELSE LET top == Last(stack)
           below == Front(stack)
       IN CASE token.t = "cmp" /\ top.operand /\ Readable(token, columns, dialect) ->
                 Append(below, Operand(top, {r \in rows : Holds(token.op, r[token.col], token.vals)}))
            [] token.t = "(" /\ top.operand -> Append(stack, Open(rows))
            [] token.t = "AND" /\ ~top.operand -> Append(below, [top EXCEPT !.operand = TRUE])
            [] token.t = "OR" /\ ~top.operand -> Append(below, [Open(rows) EXCEPT !.or = Value(top)])
            [] token.t = ")" /\ ~top.operand /\ below # <<>> ->
                 Append(Front(below), Operand(Last(below), Value(top)))
            [] OTHER -> <<>>

\* The rows a whole WHERE or HAVING text keeps; no text keeps them all.
Filter(text, rows, columns, dialect) ==
  LET stack == FoldLeft(LAMBDA st, token : ReadToken(st, token, rows, columns, dialect), <<Open(rows)>>, text)
      ok    == text = <<>> \/ (Len(stack) = 1 /\ ~stack[1].operand)
  IN  [ok |-> ok, rows |-> IF ok THEN Value(stack[1]) ELSE {}]

-----------------------------------------------------------------------------
(* JOIN: `type table AS alias ON condition`; the condition names the joined   *)
(* table, and the server knows it by its alias if it has one.                 *)
JoinedColumn(name) == CASE name = "posts" -> "posts.b" [] name = "p" -> "p.b" [] OTHER -> ""
Known(join) == IF join.alias = "" THEN join.table ELSE join.alias

JoinRows(rows, join) ==
  LET column   == JoinedColumn(Known(join))
      left     == {r \in rows : \A p \in Posts : p.ref # r.id}
      right    == {p \in Posts : \A r \in rows : p.ref # r.id}
      nothing  == IF rows = {} THEN Users ELSE rows
      absent   == [c \in DOMAIN (CHOOSE r \in nothing : TRUE) |-> NULL]
  IN  {rp[1] @@ (column :> rp[2].b) : rp \in {x \in rows \X Posts : x[1].id = x[2].ref}}
      \cup (IF join.type \in {"LEFT", "FULL"} THEN {r @@ (column :> NULL) : r \in left} ELSE {})
      \cup (IF join.type \in {"RIGHT", "FULL"} THEN {absent @@ (column :> p.b) : p \in right} ELSE {})

FromRows(joins) == FoldLeft(JoinRows, Users, joins)

FromColumns(joins) == {"id", "a"} \cup {JoinedColumn(Known(joins[i])) : i \in DOMAIN joins}

\* Each name once, and each ON condition about a name the server knows.
FromReadable(joins, dialect) ==
  /\ \A i \in DOMAIN joins : joins[i].table # "" /\ joins[i].on = Known(joins[i])
  /\ \A i, j \in DOMAIN joins : i # j => Known(joins[i]) # Known(joins[j])
  /\ dialect = "mysql" => \A i \in DOMAIN joins : joins[i].type # "FULL"

-----------------------------------------------------------------------------
(* convert_placeholders: characters, one of them a `?` outside literals.      *)
Dollar == <<"$1", "$2", "$3", "$4", "$5", "$6", "$7", "$8">>

At(s, i) == IF i \in DOMAIN s THEN s[i] ELSE ""

LineEnd(s, i) ==
  LET ends == {j \in i..Len(s) : s[j] = "newline"} IN IF ends = {} THEN Len(s) + 1 ELSE Min(ends)

CommentIgnored(s, i) == FALSE \* mutant: a comment is read as code

CommentAt(s, i) == s[i] = "-" /\ At(s, i + 1) = "-"

RECURSIVE Convert(_, _, _, _)
Convert(s, i, inSingle, n) ==
  CASE i > Len(s) -> <<>>
    [] i <= Len(s) /\ inSingle ->
         IF s[i] = "'" /\ At(s, i + 1) = "'" THEN <<"'", "'">> \o Convert(s, i + 2, TRUE, n)
         ELSE <<s[i]>> \o Convert(s, i + 1, s[i] # "'", n)
    [] i <= Len(s) /\ ~inSingle ->
         IF CommentAt(s, i) THEN SubSeq(s, i, LineEnd(s, i) - 1) \o Convert(s, LineEnd(s, i), FALSE, n)
         ELSE IF s[i] = "?" THEN <<Dollar[n + 1]>> \o Convert(s, i + 1, FALSE, n + 1)
         ELSE <<s[i]>> \o Convert(s, i + 1, s[i] = "'", n)

ConvertPlaceholders(s) == Convert(s, 1, FALSE, 0)
=============================================================================
