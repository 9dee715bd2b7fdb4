----------------------------- MODULE MCStorage -----------------------------
(* StorageEngine for TLC: two tables, an Integer NOT NULL and a BigInt      *)
(* column in one schema, a date and a text with a default in the other.     *)
EXTENDS StorageEngine

Col(name, type, nullable, default) ==
  [name |-> name, type |-> type, nullable |-> nullable, unique |-> ~nullable, default |-> default]
Cond(op, col, v) == [op |-> op, col |-> col, val |-> v]

MCSchemas == {
  [columns |-> <<Col("id", "Integer", FALSE, <<>>), Col("n", "BigInt", TRUE, <<>>)>>, primary_key |-> <<"id">>],
  [columns |-> <<Col("d", "DateTime", TRUE, <<Null>>), Col("n", "Integer", TRUE, <<Val("I32", 1)>>)>>, primary_key |-> <<>>]}

MCInputs == {<<Val("I8", 1), Null>>, <<Val("DateTime", 2), Null>>, <<Val("I32", 1)>>}

MCUpdates == {("id" :> Null), ("n" :> Val("I32", 2)) @@ ("x" :> Null)}

MCWheres == {[op |-> "All"],
  [op |-> "And", left |-> Cond("Eq", "id", Val("I32", 1)), right |-> Cond("IsNull", "n", Null)],
  [op |-> "And", left |-> Cond("Ne", "n", Null), right |-> Cond("Gte", "n", Val("I32", 2))],
  [op |-> "Or", left |-> Cond("Gt", "n", Val("I32", 1)), right |-> Cond("IsNotNull", "x", Null)],
  [op |-> "Or", left |-> Cond("Lt", "d", Val("I64", 3)), right |-> Cond("Lte", "n", Val("I32", 1))]}
=============================================================================
