---------------------------- MODULE Transactions ----------------------------
(***************************************************************************)
(* Transaction and Database::create of src/src/db/database.rs, used by     *)
(* tasks that share one connection.  The three dialects differ in what the *)
(* server makes of BEGIN, COMMIT and a failed statement, and in how create *)
(* learns the key of the row it inserted.                                  *)
(*                                                                         *)
(* A statement is one step: the mutex of the connection is held from its   *)
(* first byte to its answer (PgConnection).  An answer is one message; a   *)
(* call reads one, and what it does not read is read by the next call.     *)
(***************************************************************************)
EXTENDS Naturals, Sequences

CONSTANTS Tasks,      \* tasks that share the connection
          MaxRow,     \* bound on the rows inserted
          MaxUnread   \* bound on the answers left in the stream

ASSUME TxAssumption == MaxRow \in Nat /\ MaxUnread \in Nat

VARIABLES
  dialect,   \* db_type() of the connection
  srv,       \* the session on the server
  unread,    \* answers in the stream that no call has read
  obj,       \* the Transaction of each task and its two flags
  mine,      \* history: rows whose insert through that Transaction returned Ok
  solo,      \* history: no other Transaction was open beside it
  model,     \* what create knows: the row it inserted, the id it has set
  orphan,    \* history: a server transaction was left without a Transaction
  doubt      \* history: a call has left an answer in the stream, or may have

vars == <<dialect, srv, unread, obj, mine, solo, model, orphan, doubt>>

Rows    == 1..MaxRow
Server  == [inTx : BOOLEAN, aborted : BOOLEAN, next : 1..(MaxRow + 1), lastId : 0..MaxRow,
            pending : SUBSET Rows, durable : SUBSET Rows]
Replies == [ok : BOOLEAN, val : 0..MaxRow]
Err     == [ok |-> FALSE, val |-> 0]
Ready   == [ok |-> TRUE, val |-> 0]       \* ReadyForQuery with nothing before it
NotCreated == [st |-> "none", row |-> 0, id |-> 0]

TypeOK ==
  /\ dialect \in {"sqlite", "mysql", "postgresql"}
  /\ srv \in Server
  /\ unread \in Seq(Replies)
  /\ obj \in [Tasks -> {"none", "open", "committed", "rolled_back"}]
  /\ mine \in [Tasks -> SUBSET (0..MaxRow)]
  /\ solo \in [Tasks -> BOOLEAN]
  /\ model \in [Tasks -> [st : {"none", "inserted", "created"}, row : 0..MaxRow, id : 0..MaxRow]]
  /\ orphan \in BOOLEAN /\ doubt \in BOOLEAN

Init ==
  /\ dialect \in {"sqlite", "mysql", "postgresql"}
  /\ srv = [inTx |-> FALSE, aborted |-> FALSE, next |-> 1, lastId |-> 0,
            pending |-> {}, durable |-> {}]
  /\ unread = <<>>
  /\ obj = [t \in Tasks |-> "none"]
  /\ mine = [t \in Tasks |-> {}]
  /\ solo = [t \in Tasks |-> FALSE]
  /\ model = [t \in Tasks |-> NotCreated]
  /\ orphan = FALSE
  /\ doubt = FALSE

-----------------------------------------------------------------------------
(* The servers (external): the outcomes a statement may have.              *)

Done(s)    == [to |-> s, rep |-> Ready]
Refused(s) == [to |-> s, rep |-> Err]
MadeDurable(s)    == [s EXCEPT !.inTx = FALSE, !.durable = @ \cup s.pending, !.pending = {}]
Undone(s)  == [s EXCEPT !.inTx = FALSE, !.aborted = FALSE, !.pending = {}]

BeginOn(s) ==
  IF ~s.inTx THEN {Done([s EXCEPT !.inTx = TRUE])}
  ELSE CASE dialect = "sqlite"     -> {Refused(s)}
         [] dialect = "mysql"      -> {Done([MadeDurable(s) EXCEPT !.inTx = TRUE])}
         [] dialect = "postgresql" -> {IF s.aborted THEN Refused(s) ELSE Done(s)}

\* SQLite may be busy and keep the transaction; PostgreSQL may refuse and undo it.
CommitOn(s) ==
  CASE dialect = "sqlite"     -> {Refused(s)} \cup IF s.inTx THEN {Done(MadeDurable(s))} ELSE {}
    [] dialect = "mysql"      -> {Done(MadeDurable(s))}
    [] dialect = "postgresql" -> IF s.aborted THEN {Done(Undone(s))}
                                 ELSE {Done(MadeDurable(s)), Refused(Undone(s))}

RollbackOn(s) ==
  IF dialect = "sqlite" /\ ~s.inTx THEN {Refused(s)} ELSE {Done(Undone(s))}

\* The answer carries the key only where RETURNING asks for it.
InsertOn(s) ==
  LET r == s.next
      added == IF s.inTx THEN [s EXCEPT !.pending = @ \cup {r}] ELSE [s EXCEPT !.durable = @ \cup {r}]
      key == IF dialect = "postgresql" THEN r ELSE 0
      failed == [s EXCEPT !.aborted = dialect = "postgresql" /\ s.inTx]
  IN  IF s.aborted THEN {Refused(s)}
      ELSE {[to |-> [added EXCEPT !.next = r + 1, !.lastId = r], rep |-> [ok |-> TRUE, val |-> key]],
            Refused(failed)}

LastIdOn(s) == {[to |-> s, rep |-> [ok |-> TRUE, val |-> s.lastId]]}

-----------------------------------------------------------------------------
(* One call of the connection.                                             *)

\* A PostgreSQL call stops at ErrorResponse and leaves ReadyForQuery unread.
Answer(rep) == IF rep.ok \/ dialect # "postgresql" THEN <<rep>> ELSE <<rep, Ready>>

Call(outcomes, got) ==
  /\ \/ \E o \in outcomes :                        \* sent, and an answer read
          LET wire == unread \o Answer(o.rep) IN
          /\ srv' = o.to
          /\ got = Head(wire)
          /\ unread' = Tail(wire)
          /\ doubt' = (doubt \/ unread' # <<>>)
     \/ \E o \in outcomes :                        \* sent, timed out
          /\ dialect # "sqlite" /\ got = Err
          /\ srv' = o.to
          /\ unread' = unread \o Answer(o.rep)
          /\ doubt' = TRUE
     \/ /\ dialect # "sqlite" /\ got = Err         \* timed out before it was sent
        /\ UNCHANGED <<srv, unread, doubt>>
  /\ Len(unread') <= MaxUnread
  /\ UNCHANGED dialect

-----------------------------------------------------------------------------
(* The Transaction object.                                                 *)

Begin(t) ==
  /\ obj[t] = "none"
  /\ \E got \in Replies :
       /\ Call(BeginOn(srv), got)
       /\ \/ /\ got.ok
             /\ obj' = [obj EXCEPT ![t] = "open"]
             /\ mine' = [mine EXCEPT ![t] = {}]
             /\ solo' = IF \E u \in Tasks : obj[u] = "open"
                        THEN [u \in Tasks |-> IF u = t \/ obj[u] = "open" THEN FALSE ELSE solo[u]]
                        ELSE [solo EXCEPT ![t] = TRUE]
             /\ UNCHANGED orphan
          \/ /\ ~got.ok
             /\ orphan' = (orphan \/ doubt')
             /\ UNCHANGED <<obj, mine, solo>>
  /\ UNCHANGED model

\* Mutant: the flag is set before the statement has succeeded.
CommitFlagFirst(t) ==
  /\ obj[t] = "open"
  /\ \E got \in Replies :
       /\ Call(CommitOn(srv), got)
       /\ obj' = [obj EXCEPT ![t] = "committed"]
  /\ UNCHANGED <<mine, solo, model, orphan>>

\* commit or rollback of a Transaction that has ended, either way: Ok, and nothing is sent.
EndedAlready(t) == obj[t] \in {"committed", "rolled_back"} /\ UNCHANGED vars

\* `committed` and `rolled_back` are set by success alone: a failure may be retried.
Commit(t) ==
  \/ /\ obj[t] = "open"
     /\ \E got \in Replies :
          /\ Call(CommitOn(srv), got)
          /\ obj' = IF got.ok THEN [obj EXCEPT ![t] = "committed"] ELSE obj
     /\ UNCHANGED <<mine, solo, model, orphan>>
  \/ EndedAlready(t)

\* Mutant: as Drop does, rollback only sets the flag.
RollbackFlagOnly(t) ==
  /\ obj[t] = "open"
  /\ obj' = [obj EXCEPT ![t] = "rolled_back"]
  /\ UNCHANGED <<dialect, srv, unread, doubt, mine, solo, model, orphan>>

\* Mutant: the other statement is sent.
RollbackCommits(t) ==
  /\ obj[t] = "open"
  /\ \E got \in Replies :
       /\ Call(CommitOn(srv), got)
       /\ obj' = IF got.ok THEN [obj EXCEPT ![t] = "rolled_back"] ELSE obj
  /\ UNCHANGED <<mine, solo, model, orphan>>

Rollback(t) ==
  \/ /\ obj[t] = "open"
     /\ \E got \in Replies :
          /\ Call(RollbackOn(srv), got)
          /\ obj' = IF got.ok THEN [obj EXCEPT ![t] = "rolled_back"] ELSE obj
     /\ UNCHANGED <<mine, solo, model, orphan>>
  \/ EndedAlready(t)

\* Transaction::execute looks at no flag: after commit it runs on its own.
TxExecute(t) ==
  /\ obj[t] # "none"
  /\ srv.next <= MaxRow
  /\ \E got \in Replies :
       /\ Call(InsertOn(srv), got)
       /\ mine' = IF got.ok /\ obj[t] = "open"
                  THEN [mine EXCEPT ![t] = @ \cup {IF srv'.next # srv.next THEN srv.next ELSE 0}]
                  ELSE mine
  /\ UNCHANGED <<obj, solo, model, orphan>>

\* Drop sets rolled_back and sends nothing.
DropTransaction(t) ==
  /\ obj[t] # "none"
  /\ obj' = [obj EXCEPT ![t] = "none"]
  /\ mine' = [mine EXCEPT ![t] = {}]
  /\ solo' = [solo EXCEPT ![t] = FALSE]
  /\ orphan' = (orphan \/ obj[t] = "open")
  /\ UNCHANGED <<dialect, srv, unread, doubt, model>>

-----------------------------------------------------------------------------
(* Database::create of a model that has no id yet.                         *)

Inserting(t, asks) ==
  /\ model[t].st # "inserted"
  /\ srv.next <= MaxRow
  /\ \E got \in Replies :
       /\ Call(InsertOn(srv), got)
       /\ model' = [model EXCEPT ![t] =
            IF ~got.ok THEN NotCreated
            ELSE [st  |-> IF asks THEN "inserted" ELSE "created",
                  row |-> IF srv'.next # srv.next THEN srv.next ELSE 0,
                  id  |-> IF asks THEN 0 ELSE got.val]]
  /\ UNCHANGED <<obj, mine, solo, orphan>>

\* Mutant: PostgreSQL asks with a second statement as well.
CreateAsks(t) == Inserting(t, TRUE)

\* PostgreSQL reads the key from INSERT ... RETURNING, the others ask afterwards.
CreateModel(t) == Inserting(t, dialect # "postgresql")

\* SELECT LAST_INSERT_ID() or last_insert_rowid(): a statement of its own.
AskId(t) ==
  /\ model[t].st = "inserted"
  /\ \E got \in Replies :
       /\ Call(LastIdOn(srv), got)
       /\ model' = [model EXCEPT ![t] = IF got.ok THEN [@ EXCEPT !.st = "created", !.id = got.val]
                                                  ELSE NotCreated]
  /\ UNCHANGED <<obj, mine, solo, orphan>>

-----------------------------------------------------------------------------
Next == \E t \in Tasks : \/ Begin(t) \/ Commit(t) \/ Rollback(t) \/ TxExecute(t)
                         \/ DropTransaction(t) \/ CreateModel(t) \/ AskId(t)

Spec == Init /\ [][Next]_vars

-----------------------------------------------------------------------------
(* Properties.                                                             *)

\* When commit has ended a Transaction, every row whose insert through it
\* returned Ok is on disk, though statements of other tasks run in between on
\* the same session: as long as no answer was left unread and no other
\* Transaction overlapped (a second BEGIN commits or joins the first).  An Ok
\* alone does not say so: commit after a rollback is Ok as well.
CommitIsDurable ==
  ~doubt => \A t \in Tasks : obj[t] = "committed" /\ solo[t] => mine[t] \subseteq srv.durable

\* Under the same conditions none of those rows is on disk after a rollback.
RollbackUndoes ==
  ~doubt => \A t \in Tasks : obj[t] = "rolled_back" /\ solo[t] => mine[t] \cap srv.durable = {}

\* A transaction open on the server belongs to a Transaction that can still end
\* it, or one was dropped open or a BEGIN that timed out has left it there.
ServerTxIsOwned == srv.inTx => orphan \/ \E t \in Tasks : obj[t] = "open"

\* With RETURNING, create sets the id of the row it inserted, whatever the other
\* tasks insert meanwhile.  The other dialects read the last id in a statement
\* of its own, before which another task may insert: there it is not so.
ReturningIsOwn ==
  ~doubt /\ dialect = "postgresql" =>
    \A t \in Tasks : model[t].st = "created" => model[t].id = model[t].row
=============================================================================
