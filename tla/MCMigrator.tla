----------------------------- MODULE MCMigrator -----------------------------
(***************************************************************************)
(* Migrator for TLC: a program with two migrations and an older one that   *)
(* has only the first.  The plans use every kind of operation, and their   *)
(* rollbacks undo what the migrations do, in the reverse order.            *)
(***************************************************************************)
EXTENDS Migrator

MCRegistered == [p \in Procs |-> IF p = "new" THEN <<1, 2>> ELSE <<1>>]

ASSUME RegisteredInOrder == InOrder
ASSUME SeedsStandAlone == SeedsAlone
ASSUME PlansBuildOnThemselves == BuildsOnItself

Create(t, cols) == [op |-> "CreateTable", t |-> t, cols |-> cols]
OnName(op, t, n) == [op |-> op, t |-> t, n |-> n]
To(op, t, n, to) == [op |-> op, t |-> t, n |-> n, to |-> to]
Insert(t, k, guard, from) ==
  [op |-> "InsertRow", t |-> t, key |-> k, guard |-> guard, from |-> from]
Raw(t, k) == [op |-> "RawSql", t |-> t, key |-> k]
Update(t, k, to) == [op |-> "UpdateRows", t |-> t, key |-> k, to |-> to]
Delete(t, k) == [op |-> "DeleteRows", t |-> t, key |-> k]
DropTab(t) == [op |-> "DropTable", t |-> t]
Rename(t, to) == [op |-> "RenameTable", t |-> t, to |-> to]

\* Two tables, an index, a foreign key and seed rows, one found by a lookup.
Seeded == <<
  [up   |-> <<Create("a", {"x"}), OnName("AddIndex", "a", "i"), Insert("a", "k", TRUE, {}),
              Raw("a", "m")>>,
   down |-> <<DropTab("a"), OnName("DropIndex", "a", "i")>>],
  [up   |-> <<Create("b", {"y"}), Insert("b", "k", TRUE, {<<"a", "k">>}),
              OnName("AddForeignKey", "b", "a")>>,
   down |-> <<DropTab("b"), OnName("DropForeignKey", "b", "a")>>] >>

\* A table whose columns and name change.
Altered == <<
  [up   |-> <<Create("a", {"x"}), OnName("AddColumn", "a", "y")>>,
   down |-> <<DropTab("a")>>],
  [up   |-> <<To("RenameColumn", "a", "x", "z"), Rename("a", "b"),
              OnName("ModifyColumn", "b", "z"), OnName("DropColumn", "b", "y")>>,
   down |-> <<To("RenameColumn", "a", "z", "x"), Rename("b", "a"),
              OnName("AddColumn", "b", "y")>>] >>

\* Rows that a migration corrects; an old table and its index are cleared away.
Corrected == <<
  [up   |-> <<Create("a", {"x"}), Insert("a", "k", TRUE, {}), Insert("a", "m", FALSE, {})>>,
   down |-> <<DropTab("a"), Delete("a", "k")>>],
  [up   |-> <<Update("a", "k", "m"), Delete("a", "m"), OnName("AddIndex", "a", "i"),
              DropTab("b")>>,
   down |-> <<Insert("a", "k", FALSE, {}), OnName("DropIndex", "a", "i")>>] >>

MCSettings ==
  {[dialect |-> d, plan |-> p] : d \in {"mysql", "postgresql"}, p \in {Seeded, Altered}}
    \cup {[dialect |-> "sqlite", plan |-> p] : p \in {Seeded, Corrected}}
=============================================================================
