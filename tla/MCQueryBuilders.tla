--------------------------- MODULE MCQueryBuilders ---------------------------
(* A table of four users, a table of posts, and what callers give builders.   *)
EXTENDS QueryBuilders

User(id, a) == [id |-> id, a |-> a]
Post(ref, b) == [ref |-> ref, b |-> b]
MCUsers == {User(1, 1), User(2, 2), User(3, 1), User(4, NULL)}
MCPosts == {Post(1, 1), Post(1, 2), Post(7, 3)}

MCLeaves ==
  {Leaf("=", "a", <<1>>), Leaf(">", "id", <<2>>), Leaf("IN", "id", <<1, 2>>), Leaf("BETWEEN", "id", <<2, 3>>),
   Leaf("NOT IN", "a", <<>>), Leaf("IS NULL", "a", <<>>), Leaf("<", "bad;", <<1>>), Leaf("<", "posts.b", <<3>>)}

MCBoxed == {Leaf("=", "a", <<2>>)}
MCRaws == {<<Lit("=", "a", <<2>>), Word("OR"), Lit("=", "id", <<4>>)>>, <<Cmp("=", "a", 1)>>}
MCGroups == {<<Leaf("=", "a", <<2>>), Leaf("BETWEEN", "id", <<3, 4>>)>>,
             <<Box("OrGroup", <<Leaf("=", "id", <<1>>), Raw(<<Lit("=", "a", <<2>>)>>)>>), Leaf("<", "a", <<2>>)>>, <<>>}
MCHavings == {Leaf("=", "a", <<1>>), Leaf(">", "COUNT(*)", <<1>>)}
JoinArg(type, table, alias, on) == [type |-> type, table |-> table, alias |-> alias, on |-> on]
MCJoins == {JoinArg(type, "posts", "", "posts") : type \in {"INNER", "LEFT", "RIGHT", "FULL"}}
           \cup {JoinArg("LEFT", "posts", "p", "p"), JoinArg("INNER", "bad;", "", "posts")}
MCOrders == {<<"id", "DESC">>, <<"a", "ASC">>, <<"bad;", "ASC">>}
MCPages == {<<0, 2>>, <<2, 2>>}
MCUpdates == {[a |-> 2, id |-> 9], [a |-> 1], <<>>}
=============================================================================
