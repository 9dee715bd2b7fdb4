--------------------------- MODULE DatabaseProofs ---------------------------
(***************************************************************************)
(* Theorems about the two specifications of src/src/db/database.rs.        *)
(*                                                                         *)
(* Transactions, for every set of tasks and every bound: what commit and   *)
(* rollback promise while several tasks share one session, who owns the    *)
(* transaction that is open on the server, and whose key create takes from *)
(* RETURNING.                                                              *)
(*                                                                         *)
(* Models, for every set of dialects, fields, values, schemas, drafts and  *)
(* bounds: a unique index that auto_migrate reported is one that no two    *)
(* rows violate, what a read returns is what was written, and the columns  *)
(* that update mirrors agree with the document, in whatever order tasks    *)
(* create, read, save, delete and restart.                                 *)
(***************************************************************************)
EXTENDS Transactions, Models, TLAPS

\* An answer that was left behind is known about, and SQLite leaves none.
StreamKnown ==
  /\ unread # <<>> => doubt
  /\ dialect = "sqlite" => unread = <<>>

\* Only a failed statement aborts the transaction, and PostgreSQL's failure
\* leaves an answer behind.
AbortedIsDoubt == srv.aborted => doubt

\* The rows of the server are the ones inserted so far, on disk or not yet.
RowsInserted ==
  /\ srv.pending \cup srv.durable \subseteq 1..(srv.next - 1)
  /\ srv.pending \cap srv.durable = {}

\* A solo Transaction is the only one open, and its rows wait in the server's
\* transaction until it ends.
SoloHolds ==
  \A t \in Tasks : obj[t] = "open" /\ solo[t] =>
    /\ \A u \in Tasks : obj[u] = "open" => u = t
    /\ ~doubt => srv.inTx /\ mine[t] \subseteq srv.pending

\* After its commit they are on disk; after its rollback they are nowhere, and
\* no later row takes their place.
SoloEnded ==
  ~doubt => \A t \in Tasks : solo[t] =>
    /\ obj[t] = "committed" => mine[t] \subseteq srv.durable
    /\ obj[t] = "rolled_back" => /\ mine[t] \subseteq 1..(srv.next - 1)
                                 /\ mine[t] \cap (srv.pending \cup srv.durable) = {}

\* PostgreSQL never waits for a second statement to learn a key.
NeverAsks == dialect = "postgresql" => \A t \in Tasks : model[t].st # "inserted"

TxInv == /\ TypeOK /\ StreamKnown /\ AbortedIsDoubt /\ RowsInserted
         /\ SoloHolds /\ SoloEnded /\ NeverAsks /\ ServerTxIsOwned /\ ReturningIsOwn

-----------------------------------------------------------------------------
(* One call of the connection.                                             *)

LEMMA AnswerFacts ==
  ASSUME NEW rep \in Replies
  PROVE  /\ Answer(rep) \in Seq(Replies) /\ Answer(rep) # <<>> /\ Head(Answer(rep)) = rep
         /\ dialect = "sqlite" => Tail(Answer(rep)) = <<>>
         /\ dialect = "postgresql" /\ ~rep.ok => Tail(Answer(rep)) # <<>>
<1>1. Ready \in Replies
  BY TxAssumption DEF Ready, Replies
<1>2. CASE rep.ok \/ dialect # "postgresql"
  <2>1. Answer(rep) = <<rep>>
    BY <1>2 DEF Answer
  <2>2. QED BY <2>1, <1>2
<1>3. CASE ~(rep.ok \/ dialect # "postgresql")
  <2>1. Answer(rep) = <<rep, Ready>>
    BY <1>3 DEF Answer
  <2>2. <<rep, Ready>> \in Seq(Replies)
    BY <1>1
  <2>3. Tail(<<rep, Ready>>) # <<>>
    OBVIOUS
  <2>4. QED BY <2>1, <2>2, <2>3, <1>3
<1>4. QED BY <1>2, <1>3

\* What a call leaves behind; its answer is its statement's own as long as the
\* stream is not in doubt.
Answered(S, got) ==
  /\ dialect' = dialect /\ got \in Replies
  /\ unread' \in Seq(Replies) /\ doubt' \in BOOLEAN
  /\ doubt => doubt'
  /\ StreamKnown'
  /\ \/ srv' = srv /\ got = Err
     \/ \E o \in S : /\ srv' = o.to
                     /\ ~doubt' \/ dialect = "sqlite" => got = o.rep
                     /\ ~doubt' /\ dialect = "postgresql" => o.rep.ok

LEMMA CallFacts ==
  ASSUME unread \in Seq(Replies), doubt \in BOOLEAN, StreamKnown,
         NEW S, \A o \in S : o.rep \in Replies, NEW got, Call(S, got)
  PROVE  Answered(S, got)
<1>0. dialect' = dialect /\ Err \in Replies
  BY TxAssumption DEF Call, Err, Replies
<1>1. ASSUME NEW o \in S, srv' = o.to, got = Head(unread \o Answer(o.rep)),
             unread' = Tail(unread \o Answer(o.rep)), doubt' = (doubt \/ unread' # <<>>)
      PROVE  /\ got \in Replies /\ unread' \in Seq(Replies) /\ doubt' \in BOOLEAN
             /\ doubt => doubt'
             /\ StreamKnown'
             /\ ~doubt' \/ dialect = "sqlite" => got = o.rep
             /\ ~doubt' /\ dialect = "postgresql" => o.rep.ok
  <2>1. /\ Answer(o.rep) \in Seq(Replies) /\ Answer(o.rep) # <<>> /\ Head(Answer(o.rep)) = o.rep
        /\ dialect = "sqlite" => Tail(Answer(o.rep)) = <<>>
        /\ dialect = "postgresql" /\ ~o.rep.ok => Tail(Answer(o.rep)) # <<>>
    BY AnswerFacts
  <2>2. unread \o Answer(o.rep) \in Seq(Replies) /\ unread \o Answer(o.rep) # <<>>
    BY <2>1
  <2>3. got \in Replies /\ unread' \in Seq(Replies)
    BY <2>2, <1>1
  <2>4. unread = <<>> => got = o.rep /\ unread' = Tail(Answer(o.rep))
    BY <2>1, <1>1
  <2>5. doubt' \in BOOLEAN /\ (doubt => doubt') /\ (unread' # <<>> => doubt')
    BY <1>1
  <2>6. ~doubt' \/ dialect = "sqlite" => unread = <<>>
    BY <2>5 DEF StreamKnown
  <2>7. dialect = "sqlite" => unread' = <<>>
    BY <2>1, <2>4, <2>6
  <2>8. ~doubt' /\ dialect = "postgresql" => o.rep.ok
    BY <2>1, <2>4, <2>5, <2>6
  <2>9. QED BY <2>3, <2>4, <2>5, <2>6, <2>7, <2>8, <1>0 DEF StreamKnown
<1>2. ASSUME NEW o \in S, dialect # "sqlite", got = Err, srv' = o.to,
             unread' = unread \o Answer(o.rep), doubt' = TRUE
      PROVE  /\ got \in Replies /\ unread' \in Seq(Replies) /\ doubt' \in BOOLEAN
             /\ doubt => doubt'
             /\ StreamKnown'
             /\ ~doubt' \/ dialect = "sqlite" => got = o.rep
             /\ ~doubt' /\ dialect = "postgresql" => o.rep.ok
  <2>1. Answer(o.rep) \in Seq(Replies)
    BY AnswerFacts
  <2>2. QED BY <2>1, <1>0, <1>2 DEF StreamKnown
<1>4. \/ \E o \in S : /\ srv' = o.to /\ got = Head(unread \o Answer(o.rep))
                     /\ unread' = Tail(unread \o Answer(o.rep))
                     /\ doubt' = (doubt \/ unread' # <<>>)
      \/ \E o \in S : /\ dialect # "sqlite" /\ got = Err /\ srv' = o.to
                     /\ unread' = unread \o Answer(o.rep) /\ doubt' = TRUE
      \/ got = Err /\ UNCHANGED <<srv, unread, doubt>>
  BY DEF Call
<1>5. CASE got = Err /\ UNCHANGED <<srv, unread, doubt>>
  BY <1>0, <1>5 DEF Answered, StreamKnown
<1>6. QED BY <1>0, <1>1, <1>2, <1>4, <1>5 DEF Answered
-----------------------------------------------------------------------------
(* What each statement may do to the session.                              *)

\* Statements that insert nothing: rows move to the disk, or are undone.
NoRows(s, n) ==
  /\ n \in Server
  /\ n.next = s.next /\ (n.aborted => s.aborted)
  /\ s.durable \subseteq n.durable /\ n.pending \subseteq s.pending
  /\ n.durable \subseteq s.durable \cup s.pending
  /\ s.pending \cap s.durable = {} => n.pending \cap n.durable = {}

LEMMA ReadyOrErr ==
  ASSUME NEW s
  PROVE  /\ Done(s).to = s /\ Done(s).rep.ok /\ Done(s).rep \in Replies
         /\ Refused(s).to = s /\ ~Refused(s).rep.ok /\ Refused(s).rep \in Replies
BY TxAssumption DEF Done, Refused, Ready, Err, Replies

LEMMA KeptFacts ==
  ASSUME NEW s \in Server
  PROVE  /\ NoRows(s, MadeDurable(s)) /\ ~MadeDurable(s).inTx
         /\ MadeDurable(s).durable = s.durable \cup s.pending /\ MadeDurable(s).pending = {}
<1>1. /\ MadeDurable(s) \in Server /\ ~MadeDurable(s).inTx /\ MadeDurable(s).next = s.next
      /\ MadeDurable(s).aborted = s.aborted /\ MadeDurable(s).durable = s.durable \cup s.pending
      /\ MadeDurable(s).pending = {}
  BY DEF MadeDurable, Server
<1>2. QED BY <1>1 DEF NoRows

LEMMA UndoneFacts ==
  ASSUME NEW s \in Server
  PROVE  /\ NoRows(s, Undone(s)) /\ ~Undone(s).inTx
         /\ Undone(s).durable = s.durable /\ Undone(s).pending = {}
<1>1. /\ Undone(s) \in Server /\ ~Undone(s).inTx /\ Undone(s).next = s.next
      /\ ~Undone(s).aborted /\ Undone(s).durable = s.durable /\ Undone(s).pending = {}
  BY DEF Undone, Server
<1>2. QED BY <1>1 DEF NoRows

LEMMA SameFacts ==
  ASSUME NEW s \in Server PROVE NoRows(s, s)
BY DEF NoRows

LEMMA OpenedFacts ==
  ASSUME NEW s \in Server, NEW n \in Server, NoRows(s, n)
  PROVE  NoRows(s, [n EXCEPT !.inTx = TRUE]) /\ [n EXCEPT !.inTx = TRUE].inTx
<1> DEFINE m == [n EXCEPT !.inTx = TRUE]
<1>1. /\ m \in Server /\ m.inTx /\ m.next = n.next /\ m.aborted = n.aborted
      /\ m.durable = n.durable /\ m.pending = n.pending
  BY DEF Server
<1> HIDE DEF m
<1>2. NoRows(s, m)
  BY <1>1 DEF NoRows
<1>3. QED BY <1>1, <1>2 DEF m

LEMMA BeginFacts ==
  ASSUME TypeOK, NEW o \in BeginOn(srv)
  PROVE  /\ o.rep \in Replies /\ NoRows(srv, o.to)
         /\ o.rep.ok => o.to.inTx
         /\ ~o.rep.ok => o.to = srv
<1>1. srv \in Server /\ dialect \in {"sqlite", "mysql", "postgresql"}
  BY DEF TypeOK
<1> DEFINE opened == [srv EXCEPT !.inTx = TRUE]
           again  == [MadeDurable(srv) EXCEPT !.inTx = TRUE]
<1>2. NoRows(srv, opened) /\ opened.inTx /\ NoRows(srv, again) /\ again.inTx
  BY <1>1, KeptFacts, SameFacts, OpenedFacts DEF NoRows
<1>3. \/ o = Done(opened) \/ o = Done(again) \/ o = Refused(srv)
      \/ o = Done(srv) /\ srv.inTx
  BY <1>1 DEF BeginOn
<1> HIDE DEF opened, again
<1>4. QED BY <1>1, <1>2, <1>3, ReadyOrErr, SameFacts

LEMMA CommitFacts ==
  ASSUME TypeOK, NEW o \in CommitOn(srv)
  PROVE  /\ o.rep \in Replies /\ NoRows(srv, o.to)
         /\ dialect # "sqlite" \/ o.rep.ok => ~o.to.inTx
         /\ o.rep.ok /\ ~srv.aborted => o.to.durable = srv.durable \cup srv.pending
         /\ dialect # "postgresql" /\ ~o.rep.ok => o.to = srv
<1>1. srv \in Server /\ dialect \in {"sqlite", "mysql", "postgresql"}
  BY DEF TypeOK
<1>2. \/ o = Refused(srv) /\ dialect = "sqlite"
      \/ o = Done(MadeDurable(srv))
      \/ o = Done(Undone(srv)) /\ srv.aborted
      \/ o = Refused(Undone(srv)) /\ dialect = "postgresql"
  BY <1>1 DEF CommitOn
<1>3. QED BY <1>1, <1>2, ReadyOrErr, SameFacts, KeptFacts, UndoneFacts

LEMMA RollbackFacts ==
  ASSUME TypeOK, NEW o \in RollbackOn(srv)
  PROVE  /\ o.rep \in Replies /\ NoRows(srv, o.to) /\ ~o.to.inTx
         /\ o.rep.ok => o.to.durable = srv.durable /\ o.to.pending = {}
         /\ ~o.rep.ok => o.to = srv
<1>1. srv \in Server
  BY DEF TypeOK
<1>2. \/ o = Refused(srv) /\ ~srv.inTx
      \/ o = Done(Undone(srv))
  BY DEF RollbackOn
<1>3. QED BY <1>1, <1>2, ReadyOrErr, SameFacts, UndoneFacts

LEMMA InsertFacts ==
  ASSUME TypeOK, srv.next <= MaxRow, NEW o \in InsertOn(srv)
  PROVE  /\ o.rep \in Replies /\ o.to \in Server /\ o.to.inTx = srv.inTx
         /\ o.rep.ok =>
              /\ o.to.next = srv.next + 1 /\ o.to.aborted = srv.aborted
              /\ \/ /\ srv.inTx /\ o.to.pending = srv.pending \cup {srv.next}
                    /\ o.to.durable = srv.durable
                 \/ /\ ~srv.inTx /\ o.to.durable = srv.durable \cup {srv.next}
                    /\ o.to.pending = srv.pending
              /\ dialect = "postgresql" => o.rep.val = srv.next
         /\ ~o.rep.ok =>
              /\ o.to.next = srv.next /\ o.to.pending = srv.pending /\ o.to.durable = srv.durable
              /\ o.to.aborted => srv.aborted \/ dialect = "postgresql"
<1>1. /\ srv \in Server /\ srv.next \in Rows /\ srv.next + 1 \in 1..(MaxRow + 1)
      /\ srv.next \in 0..MaxRow /\ 0 \in 0..MaxRow /\ dialect \in {"sqlite", "mysql", "postgresql"}
  BY TxAssumption DEF TypeOK, Server, Rows
<1> DEFINE key == IF dialect = "postgresql" THEN srv.next ELSE 0
           added == IF srv.inTx THEN [srv EXCEPT !.pending = @ \cup {srv.next}]
                    ELSE [srv EXCEPT !.durable = @ \cup {srv.next}]
           next == [added EXCEPT !.next = srv.next + 1, !.lastId = srv.next]
           failed == [srv EXCEPT !.aborted = dialect = "postgresql" /\ srv.inTx]
<1>2. \/ o = Refused(srv) \/ o = Refused(failed)
      \/ o = [to |-> next, rep |-> [ok |-> TRUE, val |-> key]]
  BY DEF InsertOn
<1>3. /\ failed \in Server /\ failed.inTx = srv.inTx /\ failed.next = srv.next
      /\ failed.pending = srv.pending /\ failed.durable = srv.durable
      /\ failed.aborted => dialect = "postgresql"
  BY <1>1 DEF Server
<1>4. /\ added \in Server /\ added.inTx = srv.inTx /\ added.aborted = srv.aborted
      /\ \/ /\ srv.inTx /\ added.pending = srv.pending \cup {srv.next}
            /\ added.durable = srv.durable
         \/ /\ ~srv.inTx /\ added.durable = srv.durable \cup {srv.next}
            /\ added.pending = srv.pending
  <2>1. CASE srv.inTx
    BY <2>1, <1>1 DEF Server
  <2>2. CASE ~srv.inTx
    BY <2>2, <1>1 DEF Server
  <2>3. QED BY <2>1, <2>2
<1> HIDE DEF added
<1>5. /\ next \in Server /\ next.inTx = added.inTx /\ next.aborted = added.aborted
      /\ next.next = srv.next + 1 /\ next.pending = added.pending /\ next.durable = added.durable
  BY <1>1, <1>4 DEF Server
<1>6. [ok |-> TRUE, val |-> key] \in Replies /\ (dialect = "postgresql" => key = srv.next)
  BY <1>1 DEF Replies
<1> HIDE DEF key, next, failed
<1>7. CASE o = Refused(srv)
  BY <1>7, <1>1, ReadyOrErr
<1>8. CASE o = Refused(failed)
  BY <1>8, <1>3, ReadyOrErr
<1>9. CASE o = [to |-> next, rep |-> [ok |-> TRUE, val |-> key]]
  BY <1>9, <1>4, <1>5, <1>6
<1>10. QED BY <1>2, <1>7, <1>8, <1>9

LEMMA LastIdFacts ==
  ASSUME TypeOK, NEW o \in LastIdOn(srv)
  PROVE  o.rep \in Replies /\ o.to = srv
<1>1. srv.lastId \in 0..MaxRow /\ o = [to |-> srv, rep |-> [ok |-> TRUE, val |-> srv.lastId]]
  BY DEF TypeOK, LastIdOn, Server
<1>2. QED BY <1>1 DEF Replies
-----------------------------------------------------------------------------
(* Each action keeps the invariant.                                        *)

ServerOK == srv \in Server /\ RowsInserted /\ AbortedIsDoubt
StreamOK == /\ dialect \in {"sqlite", "mysql", "postgresql"}
            /\ unread \in Seq(Replies) /\ doubt \in BOOLEAN /\ StreamKnown
ObjectOK == /\ obj \in [Tasks -> {"none", "open", "committed", "rolled_back"}]
            /\ mine \in [Tasks -> SUBSET (0..MaxRow)]
            /\ solo \in [Tasks -> BOOLEAN]
            /\ orphan \in BOOLEAN
ModelOK ==
  /\ model \in [Tasks -> [st : {"none", "inserted", "created"}, row : 0..MaxRow, id : 0..MaxRow]]
  /\ NeverAsks /\ ReturningIsOwn
SoloOK == SoloHolds /\ SoloEnded

LEMMA TxInvParts ==
  TxInv <=> ServerOK /\ StreamOK /\ ObjectOK /\ ModelOK /\ SoloOK /\ ServerTxIsOwned
BY DEF TxInv, TypeOK, ServerOK, StreamOK, ObjectOK, ModelOK, SoloOK

LEMMA TxInvPartsNext ==
  TxInv' <=> ServerOK' /\ StreamOK' /\ ObjectOK' /\ ModelOK' /\ SoloOK' /\ ServerTxIsOwned'
BY DEF TxInv, TypeOK, ServerOK, StreamOK, ObjectOK, ModelOK, SoloOK

LEMMA QuietServer ==
  ASSUME ServerOK, NoRows(srv, srv'), doubt => doubt'
  PROVE  ServerOK'
<1>1. RowsInserted'
  BY DEF ServerOK, RowsInserted, NoRows
<1>2. srv' \in Server /\ AbortedIsDoubt'
  BY DEF ServerOK, AbortedIsDoubt, NoRows, Server
<1>3. QED BY <1>1, <1>2 DEF ServerOK

\* A Transaction that has ended is not touched by what inserts no row.
LEMMA QuietEnded ==
  ASSUME SoloEnded, doubt => doubt', NoRows(srv, srv'), NEW u \in Tasks, ~doubt',
         obj'[u] = obj[u], mine'[u] = mine[u], solo'[u] => solo[u], solo'[u]
  PROVE  /\ obj'[u] = "committed" => mine'[u] \subseteq srv'.durable
         /\ obj'[u] = "rolled_back" => /\ mine'[u] \subseteq 1..(srv'.next - 1)
                                      /\ mine'[u] \cap (srv'.pending \cup srv'.durable) = {}
<1>1. /\ obj[u] = "committed" => mine[u] \subseteq srv.durable
      /\ obj[u] = "rolled_back" => /\ mine[u] \subseteq 1..(srv.next - 1)
                                  /\ mine[u] \cap (srv.pending \cup srv.durable) = {}
  BY DEF SoloEnded
<1>2. /\ srv'.next = srv.next /\ srv.durable \subseteq srv'.durable
      /\ srv'.pending \cup srv'.durable \subseteq srv.pending \cup srv.durable
  BY DEF NoRows
<1>3. QED BY <1>1, <1>2

LEMMA SameModel ==
  ASSUME ModelOK, dialect' = dialect, doubt => doubt', model' = model
  PROVE  ModelOK'
BY DEF ModelOK, NeverAsks, ReturningIsOwn

LEMMA BeginKeeps ==
  ASSUME TxInv, NEW t \in Tasks, Begin(t)
  PROVE  TxInv'
<1>0. /\ ServerOK /\ StreamOK /\ ObjectOK /\ ModelOK /\ SoloHolds /\ SoloEnded
      /\ ServerTxIsOwned /\ TypeOK /\ obj[t] = "none" /\ model' = model
  BY TxInvParts DEF Begin, TxInv, SoloOK
<1>1. PICK got \in Replies :
        /\ Call(BeginOn(srv), got)
        /\ \/ /\ got.ok
              /\ obj' = [obj EXCEPT ![t] = "open"]
              /\ mine' = [mine EXCEPT ![t] = {}]
              /\ solo' = IF \E u \in Tasks : obj[u] = "open"
                         THEN [u \in Tasks |-> IF u = t \/ obj[u] = "open" THEN FALSE ELSE solo[u]]
                         ELSE [solo EXCEPT ![t] = TRUE]
              /\ UNCHANGED orphan
           \/ /\ ~got.ok
              /\ orphan' = (orphan \/ doubt')
              /\ UNCHANGED <<obj, mine, solo>>
  BY DEF Begin
<1>2. \A o \in BeginOn(srv) :
        /\ o.rep \in Replies /\ NoRows(srv, o.to)
        /\ o.rep.ok => o.to.inTx
        /\ ~o.rep.ok => o.to = srv
  BY <1>0, BeginFacts
<1>3. Answered(BeginOn(srv), got)
  <2>1. \A o \in BeginOn(srv) : o.rep \in Replies
    BY <1>2
  <2>2. unread \in Seq(Replies) /\ doubt \in BOOLEAN /\ StreamKnown /\ Call(BeginOn(srv), got)
    BY <1>0, <1>1 DEF StreamOK
  <2>3. QED BY <2>1, <2>2, CallFacts
<1>4. /\ NoRows(srv, srv')
      /\ got.ok /\ ~doubt' => srv'.inTx
      /\ ~got.ok /\ ~doubt' => srv' = srv
  <2>1. CASE srv' = srv /\ got = Err
    BY <2>1, <1>0, SameFacts DEF ServerOK, Err
  <2>2. ASSUME NEW o \in BeginOn(srv), srv' = o.to, ~doubt' => got = o.rep
        PROVE  /\ NoRows(srv, srv')
               /\ got.ok /\ ~doubt' => srv'.inTx
               /\ ~got.ok /\ ~doubt' => srv' = srv
    <3>1. NoRows(srv, o.to) /\ (o.rep.ok => o.to.inTx) /\ (~o.rep.ok => o.to = srv)
      BY <1>2
    <3>2. NoRows(srv, srv')
      BY <3>1, <2>2
    <3>3. QED BY <3>1, <3>2, <2>2
  <2>3. QED BY <2>1, <2>2, <1>3 DEF Answered
<1>5. ServerOK' /\ StreamOK' /\ ModelOK'
  BY <1>0, <1>3, <1>4, QuietServer, SameModel DEF StreamOK, Answered
<1>6. CASE got.ok
  <2>1. /\ obj' = [obj EXCEPT ![t] = "open"] /\ mine' = [mine EXCEPT ![t] = {}]
        /\ orphan' = orphan
        /\ solo' = IF \E u \in Tasks : obj[u] = "open"
                   THEN [u \in Tasks |-> IF u = t \/ obj[u] = "open" THEN FALSE ELSE solo[u]]
                   ELSE [solo EXCEPT ![t] = TRUE]
    BY <1>1, <1>6
  <2>2. ObjectOK'
    BY <2>1, <1>0 DEF ObjectOK
  <2>3. /\ obj'[t] = "open" /\ mine'[t] = {}
        /\ \A u \in Tasks \ {t} : obj'[u] = obj[u] /\ mine'[u] = mine[u] /\ (solo'[u] => solo[u])
        /\ \A u \in Tasks : solo'[u] /\ obj'[u] = "open" => \A w \in Tasks : obj'[w] = "open" => w = u
    BY <2>1, <1>0 DEF ObjectOK
  <2>4. ASSUME NEW u \in Tasks, obj'[u] = "open", solo'[u]
        PROVE  /\ \A w \in Tasks : obj'[w] = "open" => w = u
               /\ ~doubt' => srv'.inTx /\ mine'[u] \subseteq srv'.pending
    BY <2>3, <2>4, <1>4, <1>6
  <2>5. SoloHolds'
    BY <2>4 DEF SoloHolds
  <2>6. SoloEnded'
    BY <2>3, <1>0, <1>3, <1>4, QuietEnded DEF SoloEnded, Answered
  <2>7. ServerTxIsOwned'
    BY <2>3 DEF ServerTxIsOwned
  <2>8. QED BY <1>5, <2>2, <2>5, <2>6, <2>7, TxInvPartsNext DEF SoloOK
<1>7. CASE ~got.ok
  <2>1. orphan' = (orphan \/ doubt') /\ UNCHANGED <<obj, mine, solo>>
    BY <1>1, <1>7
  <2>2. ObjectOK'
    BY <2>1, <1>0, <1>3 DEF ObjectOK, Answered
  <2>3. SoloHolds'
    BY <2>1, <1>0, <1>3, <1>4, <1>7 DEF SoloHolds, Answered
  <2>4. SoloEnded'
    BY <2>1, <1>0, <1>3, <1>4, QuietEnded DEF SoloEnded, Answered
  <2>5. ServerTxIsOwned'
    BY <2>1, <1>0, <1>3, <1>4, <1>7 DEF ServerTxIsOwned, Answered
  <2>6. QED BY <1>5, <2>2, <2>3, <2>4, <2>5, TxInvPartsNext DEF SoloOK
<1>8. QED BY <1>6, <1>7
\* COMMIT and ROLLBACK differ in what becomes of the rows that wait.
LEMMA EndKeeps ==
  ASSUME TxInv, NEW t \in Tasks, obj[t] = "open", NEW S, NEW got \in Replies, Answered(S, got),
         NEW how \in {"committed", "rolled_back"},
         obj' = IF got.ok THEN [obj EXCEPT ![t] = how] ELSE obj,
         UNCHANGED <<mine, solo, model, orphan>>,
         NoRows(srv, srv'),
         got.ok => ~srv'.inTx,
         ~got.ok /\ ~doubt' => srv' = srv,
         got.ok /\ ~doubt' /\ how = "committed" => srv.pending \subseteq srv'.durable,
         got.ok /\ ~doubt' /\ how = "rolled_back" => srv'.durable = srv.durable /\ srv'.pending = {}
  PROVE  TxInv'
<1>0. /\ ServerOK /\ StreamOK /\ ObjectOK /\ ModelOK /\ SoloHolds /\ SoloEnded
      /\ ServerTxIsOwned
  BY TxInvParts DEF SoloOK
<1>1. ServerOK' /\ StreamOK' /\ ModelOK'
  BY <1>0, QuietServer, SameModel DEF StreamOK, Answered
<1>2. ObjectOK'
  BY <1>0 DEF ObjectOK
<1>3. CASE got.ok
  <2>1. \A u \in Tasks : obj'[u] = IF u = t THEN how ELSE obj[u]
    BY <1>0, <1>3 DEF ObjectOK
  <2>2. SoloHolds'
    <3>1. \A u \in Tasks : obj'[u] = "open" => u # t /\ obj[u] = "open"
      BY <2>1
    <3>2. \A u \in Tasks : ~(obj'[u] = "open" /\ solo'[u])
      BY <3>1, <1>0 DEF SoloHolds
    <3>3. QED BY <3>2 DEF SoloHolds
  <2>3. ASSUME ~doubt', solo[t]
        PROVE  /\ how = "committed" => mine'[t] \subseteq srv'.durable
               /\ how = "rolled_back" => /\ mine'[t] \subseteq 1..(srv'.next - 1)
                                        /\ mine'[t] \cap (srv'.pending \cup srv'.durable) = {}
    <3>1. mine[t] \subseteq srv.pending
      BY <2>3, <1>0 DEF SoloHolds, Answered
    <3>2. srv.pending \subseteq 1..(srv.next - 1) /\ srv.pending \cap srv.durable = {}
      BY <1>0 DEF ServerOK, RowsInserted
    <3>3. srv'.next = srv.next
      BY DEF NoRows
    <3>4. QED BY <3>1, <3>2, <3>3, <2>3, <1>3
  <2>4. SoloEnded'
    <3> SUFFICES ASSUME ~doubt', NEW u \in Tasks, solo'[u]
                 PROVE  /\ obj'[u] = "committed" => mine'[u] \subseteq srv'.durable
                        /\ obj'[u] = "rolled_back" =>
                             /\ mine'[u] \subseteq 1..(srv'.next - 1)
                             /\ mine'[u] \cap (srv'.pending \cup srv'.durable) = {}
      BY DEF SoloEnded
    <3>1. CASE u = t
      BY <3>1, <2>1, <2>3
    <3>2. CASE u # t
      BY <3>2, <2>1, <1>0, QuietEnded DEF Answered
    <3>3. QED BY <3>1, <3>2
  <2>5. ServerTxIsOwned'
    BY <1>3 DEF ServerTxIsOwned
  <2>6. QED BY <1>1, <1>2, <2>2, <2>4, <2>5, TxInvPartsNext DEF SoloOK
<1>4. CASE ~got.ok
  <2>1. UNCHANGED <<obj, mine, solo, orphan>>
    BY <1>4
  <2>2. SoloHolds'
    BY <2>1, <1>0, <1>4 DEF SoloHolds, Answered
  <2>3. SoloEnded'
    BY <2>1, <1>0, QuietEnded DEF SoloEnded, Answered
  <2>4. ServerTxIsOwned'
    BY <2>1 DEF ServerTxIsOwned
  <2>5. QED BY <1>1, <1>2, <2>2, <2>3, <2>4, TxInvPartsNext DEF SoloOK
<1>5. QED BY <1>3, <1>4

LEMMA CommitKeeps ==
  ASSUME TxInv, NEW t \in Tasks, Commit(t), ~EndedAlready(t)
  PROVE  TxInv'
<1>0. ServerOK /\ StreamOK /\ TypeOK /\ srv \in Server /\ obj[t] = "open"
  BY TxInvParts DEF Commit, TxInv, ServerOK
<1>1. PICK got \in Replies :
        /\ Call(CommitOn(srv), got)
        /\ obj' = IF got.ok THEN [obj EXCEPT ![t] = "committed"] ELSE obj
        /\ UNCHANGED <<mine, solo, model, orphan>>
  BY DEF Commit
<1>2. \A o \in CommitOn(srv) :
        /\ o.rep \in Replies /\ NoRows(srv, o.to)
        /\ dialect # "sqlite" \/ o.rep.ok => ~o.to.inTx
        /\ o.rep.ok /\ ~srv.aborted => o.to.durable = srv.durable \cup srv.pending
        /\ dialect # "postgresql" /\ ~o.rep.ok => o.to = srv
  BY <1>0, CommitFacts
<1>3. Answered(CommitOn(srv), got)
  BY <1>0, <1>1, <1>2, CallFacts DEF StreamOK
<1>4. /\ NoRows(srv, srv')
      /\ got.ok => ~srv'.inTx
      /\ got.ok /\ ~doubt' => srv.pending \subseteq srv'.durable
      /\ ~got.ok /\ ~doubt' => srv' = srv
  <2>1. CASE srv' = srv /\ got = Err
    BY <2>1, <1>0, SameFacts DEF Err
  <2>2. ASSUME NEW o \in CommitOn(srv), srv' = o.to,
               ~doubt' \/ dialect = "sqlite" => got = o.rep,
               ~doubt' /\ dialect = "postgresql" => o.rep.ok
        PROVE  /\ NoRows(srv, srv')
               /\ got.ok => ~srv'.inTx
               /\ got.ok /\ ~doubt' => srv.pending \subseteq srv'.durable
               /\ ~got.ok /\ ~doubt' => srv' = srv
    <3>1. ~doubt' => ~srv.aborted
      BY <1>0, <1>3 DEF ServerOK, AbortedIsDoubt, Answered
    <3>2. NoRows(srv, srv') /\ (got.ok => ~srv'.inTx)
      BY <1>2, <2>2
    <3>3. QED BY <1>2, <2>2, <3>1, <3>2
  <2>3. QED BY <2>1, <2>2, <1>3 DEF Answered
<1>5. QED BY <1>0, <1>1, <1>3, <1>4, EndKeeps

LEMMA RollbackKeeps ==
  ASSUME TxInv, NEW t \in Tasks, Rollback(t), ~EndedAlready(t)
  PROVE  TxInv'
<1>0. StreamOK /\ TypeOK /\ srv \in Server /\ obj[t] = "open"
  BY TxInvParts DEF Rollback, TxInv, ServerOK
<1>1. PICK got \in Replies :
        /\ Call(RollbackOn(srv), got)
        /\ obj' = IF got.ok THEN [obj EXCEPT ![t] = "rolled_back"] ELSE obj
        /\ UNCHANGED <<mine, solo, model, orphan>>
  BY DEF Rollback
<1>2. \A o \in RollbackOn(srv) :
        /\ o.rep \in Replies /\ NoRows(srv, o.to) /\ ~o.to.inTx
        /\ o.rep.ok => o.to.durable = srv.durable /\ o.to.pending = {}
        /\ ~o.rep.ok => o.to = srv
  BY <1>0, RollbackFacts
<1>3. Answered(RollbackOn(srv), got)
  BY <1>0, <1>1, <1>2, CallFacts DEF StreamOK
<1>4. /\ NoRows(srv, srv')
      /\ got.ok => ~srv'.inTx
      /\ got.ok /\ ~doubt' => srv'.durable = srv.durable /\ srv'.pending = {}
      /\ ~got.ok /\ ~doubt' => srv' = srv
  <2>1. CASE srv' = srv /\ got = Err
    BY <2>1, <1>0, SameFacts DEF Err
  <2>2. ASSUME NEW o \in RollbackOn(srv), srv' = o.to, ~doubt' => got = o.rep
        PROVE  /\ NoRows(srv, srv')
               /\ got.ok => ~srv'.inTx
               /\ got.ok /\ ~doubt' => srv'.durable = srv.durable /\ srv'.pending = {}
               /\ ~got.ok /\ ~doubt' => srv' = srv
    BY <1>2, <2>2
  <2>3. QED BY <2>1, <2>2, <1>3 DEF Answered
<1>5. QED BY <1>0, <1>1, <1>3, <1>4, EndKeeps
\* An insert adds the next row, on disk or to the server's transaction, or none.
Inserted(n) ==
  /\ n.next = srv.next + 1 /\ n.aborted = srv.aborted
  /\ \/ /\ srv.inTx /\ n.pending = srv.pending \cup {srv.next} /\ n.durable = srv.durable
     \/ /\ ~srv.inTx /\ n.durable = srv.durable \cup {srv.next} /\ n.pending = srv.pending

LEMMA InsertCall ==
  ASSUME TypeOK, ServerOK, StreamOK, srv.next <= MaxRow, NEW got, Call(InsertOn(srv), got)
  PROVE  /\ Answered(InsertOn(srv), got)
         /\ srv' \in Server /\ srv'.inTx = srv.inTx
         /\ \/ Inserted(srv')
            \/ /\ srv'.next = srv.next /\ srv'.pending = srv.pending
               /\ srv'.durable = srv.durable
         /\ srv'.aborted => doubt'
         /\ got.ok /\ ~doubt' => Inserted(srv')
         /\ got.ok /\ ~doubt' /\ dialect = "postgresql" => got.val = srv.next
<1>1. \A o \in InsertOn(srv) :
        /\ o.rep \in Replies /\ o.to \in Server /\ o.to.inTx = srv.inTx
        /\ o.rep.ok => Inserted(o.to) /\ (dialect = "postgresql" => o.rep.val = srv.next)
        /\ ~o.rep.ok =>
             /\ o.to.next = srv.next /\ o.to.pending = srv.pending /\ o.to.durable = srv.durable
             /\ o.to.aborted => srv.aborted \/ dialect = "postgresql"
  BY InsertFacts DEF Inserted
<1>2. Answered(InsertOn(srv), got)
  BY <1>1, CallFacts DEF StreamOK
<1>3. doubt => doubt'
  BY <1>2 DEF Answered
<1>4. CASE srv' = srv /\ got = Err
  BY <1>2, <1>3, <1>4 DEF Err, ServerOK, AbortedIsDoubt
<1>5. ASSUME NEW o \in InsertOn(srv), srv' = o.to, ~doubt' => got = o.rep,
             ~doubt' /\ dialect = "postgresql" => o.rep.ok
      PROVE  /\ srv' \in Server /\ srv'.inTx = srv.inTx
             /\ \/ Inserted(srv')
                \/ /\ srv'.next = srv.next /\ srv'.pending = srv.pending
                   /\ srv'.durable = srv.durable
             /\ srv'.aborted => doubt'
             /\ got.ok /\ ~doubt' => Inserted(srv')
             /\ got.ok /\ ~doubt' /\ dialect = "postgresql" => got.val = srv.next
  <2>1. CASE o.rep.ok
    <3>1. srv'.aborted = srv.aborted /\ Inserted(srv') /\ srv' \in Server /\ srv'.inTx = srv.inTx
      BY <1>1, <1>5, <2>1 DEF Inserted
    <3>2. srv'.aborted => doubt'
      BY <3>1, <1>3 DEF ServerOK, AbortedIsDoubt
    <3>3. QED BY <1>1, <1>5, <2>1, <3>1, <3>2
  <2>2. CASE ~o.rep.ok
    <3>1. srv'.aborted => doubt'
      BY <1>1, <1>3, <1>5, <2>2 DEF ServerOK, AbortedIsDoubt
    <3>2. QED BY <1>1, <1>5, <2>2, <3>1
  <2>3. QED BY <2>1, <2>2
<1>6. QED BY <1>2, <1>4, <1>5 DEF Answered

\* A row that a Transaction has inserted waits with its others; a row that anybody
\* inserts is none of those a Transaction has ended with.
LEMMA InsertSolo ==
  ASSUME TxInv, srv.next <= MaxRow, NEW S, NEW got, Answered(S, got),
         srv'.inTx = srv.inTx,
         \/ Inserted(srv')
         \/ srv'.next = srv.next /\ srv'.pending = srv.pending /\ srv'.durable = srv.durable,
         UNCHANGED <<obj, solo, orphan>>,
         \A u \in Tasks : ~doubt' =>
           \/ mine'[u] = mine[u]
           \/ obj[u] = "open" /\ Inserted(srv') /\ mine'[u] = mine[u] \cup {srv.next}
  PROVE  SoloOK' /\ ServerTxIsOwned'
<1>0. ServerOK /\ SoloHolds /\ SoloEnded /\ ServerTxIsOwned /\ (doubt => doubt')
  BY TxInvParts DEF SoloOK, Answered
<1>1. /\ srv.next \in Nat /\ srv'.next \in {srv.next, srv.next + 1}
      /\ srv.next \notin 1..(srv.next - 1)
      /\ 1..(srv.next - 1) \subseteq 1..(srv'.next - 1)
      /\ srv.durable \subseteq srv'.durable /\ srv.pending \subseteq srv'.pending
      /\ srv'.pending \cup srv'.durable \subseteq srv.pending \cup srv.durable \cup {srv.next}
  <2>1. srv.next \in Nat
    BY <1>0, TxAssumption DEF ServerOK, Server
  <2>2. QED BY <2>1 DEF Inserted
<1>2. SoloHolds'
  <2> SUFFICES ASSUME NEW u \in Tasks, obj[u] = "open", solo[u]
               PROVE  /\ \A w \in Tasks : obj[w] = "open" => w = u
                      /\ ~doubt' => srv'.inTx /\ mine'[u] \subseteq srv'.pending
    BY DEF SoloHolds
  <2>1. /\ \A w \in Tasks : obj[w] = "open" => w = u
        /\ ~doubt' => srv.inTx /\ mine[u] \subseteq srv.pending
    BY <1>0 DEF SoloHolds
  <2>2. ASSUME ~doubt' PROVE mine'[u] \subseteq srv'.pending
    <3>1. CASE mine'[u] = mine[u]
      BY <3>1, <2>1, <2>2, <1>1
    <3>2. CASE Inserted(srv') /\ mine'[u] = mine[u] \cup {srv.next}
      <4>1. srv'.pending = srv.pending \cup {srv.next}
        BY <3>2, <2>1, <2>2 DEF Inserted
      <4>2. QED BY <4>1, <3>2, <2>1, <2>2
    <3>3. QED BY <3>1, <3>2, <2>2
  <2>3. QED BY <2>1, <2>2
<1>3. SoloEnded'
  <2> SUFFICES ASSUME ~doubt', NEW u \in Tasks, solo[u]
               PROVE  /\ obj[u] = "committed" => mine'[u] \subseteq srv'.durable
                      /\ obj[u] = "rolled_back" =>
                           /\ mine'[u] \subseteq 1..(srv'.next - 1)
                           /\ mine'[u] \cap (srv'.pending \cup srv'.durable) = {}
    BY DEF SoloEnded
  <2>1. /\ obj[u] = "committed" => mine[u] \subseteq srv.durable
        /\ obj[u] = "rolled_back" => /\ mine[u] \subseteq 1..(srv.next - 1)
                                    /\ mine[u] \cap (srv.pending \cup srv.durable) = {}
    BY <1>0 DEF SoloEnded
  <2>2. obj[u] # "open" => mine'[u] = mine[u]
    OBVIOUS
  <2>3. QED BY <2>1, <2>2, <1>1
<1>4. ServerTxIsOwned'
  BY <1>0 DEF ServerTxIsOwned
<1>5. QED BY <1>2, <1>3, <1>4 DEF SoloOK

LEMMA InsertServer ==
  ASSUME ServerOK, srv' \in Server, srv'.aborted => doubt',
         \/ Inserted(srv')
         \/ srv'.next = srv.next /\ srv'.pending = srv.pending /\ srv'.durable = srv.durable
  PROVE  ServerOK'
<1>1. srv.next \in Nat
  BY TxAssumption DEF ServerOK, Server
<1>2. RowsInserted'
  <2>1. CASE Inserted(srv')
    <3>1. srv'.next - 1 = srv.next /\ srv.next \notin 1..(srv.next - 1) /\ srv.next \in 1..srv.next
      BY <2>1, <1>1 DEF Inserted, ServerOK, Server
    <3>2. 1..(srv.next - 1) \subseteq 1..srv.next
      BY <1>1
    <3>3. QED BY <3>1, <3>2, <2>1 DEF Inserted, ServerOK, RowsInserted
  <2>2. CASE srv'.next = srv.next /\ srv'.pending = srv.pending /\ srv'.durable = srv.durable
    BY <2>2 DEF ServerOK, RowsInserted
  <2>3. QED BY <2>1, <2>2
<1>3. AbortedIsDoubt'
  BY DEF AbortedIsDoubt
<1>4. QED BY <1>2, <1>3 DEF ServerOK

LEMMA TxExecuteKeeps ==
  ASSUME TxInv, NEW t \in Tasks, TxExecute(t)
  PROVE  TxInv'
<1>0. /\ ServerOK /\ StreamOK /\ ObjectOK /\ ModelOK /\ TypeOK /\ srv \in Server
      /\ srv.next <= MaxRow /\ UNCHANGED <<obj, solo, model, orphan>>
  BY TxInvParts DEF TxExecute, TxInv, ServerOK
<1>1. PICK got \in Replies :
        /\ Call(InsertOn(srv), got)
        /\ mine' = IF got.ok /\ obj[t] = "open"
                   THEN [mine EXCEPT ![t] = @ \cup {IF srv'.next # srv.next THEN srv.next ELSE 0}]
                   ELSE mine
  BY DEF TxExecute
<1>2. /\ Answered(InsertOn(srv), got)
      /\ srv' \in Server /\ srv'.inTx = srv.inTx
      /\ \/ Inserted(srv')
         \/ srv'.next = srv.next /\ srv'.pending = srv.pending /\ srv'.durable = srv.durable
      /\ srv'.aborted => doubt'
      /\ got.ok /\ ~doubt' => Inserted(srv')
  BY <1>0, <1>1, InsertCall
<1>3. srv.next \in 0..MaxRow /\ 0 \in 0..MaxRow /\ srv.next + 1 # srv.next
  BY <1>0, TxAssumption DEF Server
<1>4. ServerOK'
  BY <1>0, <1>2, InsertServer
<1>5. StreamOK' /\ ModelOK'
  BY <1>0, <1>2, SameModel DEF StreamOK, Answered
<1>6. ObjectOK'
  BY <1>0, <1>1, <1>3 DEF ObjectOK
<1>7. ASSUME NEW u \in Tasks, ~doubt'
      PROVE  \/ mine'[u] = mine[u]
             \/ obj[u] = "open" /\ Inserted(srv') /\ mine'[u] = mine[u] \cup {srv.next}
  <2>1. CASE got.ok /\ obj[t] = "open"
    <3>1. Inserted(srv') /\ srv'.next # srv.next
      BY <2>1, <1>2, <1>3, <1>7 DEF Inserted
    <3>2. mine' = [mine EXCEPT ![t] = @ \cup {srv.next}]
      BY <3>1, <2>1, <1>1
    <3>3. QED BY <3>1, <3>2, <2>1, <1>0 DEF ObjectOK
  <2>2. CASE ~(got.ok /\ obj[t] = "open")
    BY <2>2, <1>1
  <2>3. QED BY <2>1, <2>2
<1>8. SoloOK' /\ ServerTxIsOwned'
  BY <1>0, <1>2, <1>7, InsertSolo
<1>9. QED BY <1>4, <1>5, <1>6, <1>8, TxInvPartsNext
\* RETURNING answers the insert itself: its key is the row's.
LEMMA CreateKeeps ==
  ASSUME TxInv, NEW t \in Tasks, CreateModel(t)
  PROVE  TxInv'
<1> DEFINE asks == dialect # "postgresql"
<1>0. /\ ServerOK /\ StreamOK /\ ObjectOK /\ ModelOK /\ TypeOK /\ srv \in Server
      /\ srv.next <= MaxRow /\ UNCHANGED <<obj, mine, solo, orphan>>
  BY TxInvParts DEF CreateModel, Inserting, TxInv, ServerOK
<1>1. PICK got \in Replies :
        /\ Call(InsertOn(srv), got)
        /\ model' = [model EXCEPT ![t] =
             IF ~got.ok THEN NotCreated
             ELSE [st  |-> IF asks THEN "inserted" ELSE "created",
                   row |-> IF srv'.next # srv.next THEN srv.next ELSE 0,
                   id  |-> IF asks THEN 0 ELSE got.val]]
  BY DEF CreateModel, Inserting
<1>2. /\ Answered(InsertOn(srv), got)
      /\ srv' \in Server /\ srv'.inTx = srv.inTx
      /\ \/ Inserted(srv')
         \/ srv'.next = srv.next /\ srv'.pending = srv.pending /\ srv'.durable = srv.durable
      /\ srv'.aborted => doubt'
      /\ got.ok /\ ~doubt' => Inserted(srv')
      /\ got.ok /\ ~doubt' /\ dialect = "postgresql" => got.val = srv.next
  BY <1>0, <1>1, InsertCall
<1>3. srv.next \in 0..MaxRow /\ 0 \in 0..MaxRow /\ srv.next + 1 # srv.next
  BY <1>0, TxAssumption DEF Server
<1>4. ServerOK'
  BY <1>0, <1>2, InsertServer
<1>5. StreamOK' /\ ObjectOK' /\ dialect' = dialect /\ (doubt => doubt')
  BY <1>0, <1>2 DEF StreamOK, ObjectOK, Answered
<1>6. SoloOK' /\ ServerTxIsOwned'
  BY <1>0, <1>2, InsertSolo
<1> DEFINE new == IF ~got.ok THEN NotCreated
                  ELSE [st  |-> IF asks THEN "inserted" ELSE "created",
                        row |-> IF srv'.next # srv.next THEN srv.next ELSE 0,
                        id  |-> IF asks THEN 0 ELSE got.val]
<1>7. /\ new \in [st : {"none", "inserted", "created"}, row : 0..MaxRow, id : 0..MaxRow]
      /\ dialect = "postgresql" => new.st # "inserted"
      /\ ~doubt' /\ dialect = "postgresql" /\ new.st = "created" => new.id = new.row
  <2>1. CASE ~got.ok
    BY <2>1, <1>3 DEF NotCreated
  <2>2. CASE got.ok
    <3>1. /\ new = [st  |-> IF asks THEN "inserted" ELSE "created",
                   row |-> IF srv'.next # srv.next THEN srv.next ELSE 0,
                   id  |-> IF asks THEN 0 ELSE got.val]
          /\ got.val \in 0..MaxRow
      BY <2>2 DEF Replies
    <3>2. ~doubt' => srv'.next # srv.next
      BY <1>2, <1>3, <2>2 DEF Inserted
    <3>3. QED BY <3>1, <3>2, <1>2, <1>3, <2>2
  <2>3. QED BY <2>1, <2>2
<1>8. model' = [model EXCEPT ![t] = new]
  BY <1>1
<1> HIDE DEF new
<1>9. ModelOK'
  <2>1. /\ model \in [Tasks -> [st : {"none", "inserted", "created"}, row : 0..MaxRow, id : 0..MaxRow]]
        /\ NeverAsks /\ ReturningIsOwn
    BY <1>0 DEF ModelOK
  <2>2. \A u \in Tasks : model'[u] = IF u = t THEN new ELSE model[u]
    BY <1>8, <2>1
  <2>3. model' \in [Tasks -> [st : {"none", "inserted", "created"}, row : 0..MaxRow, id : 0..MaxRow]]
    BY <1>7, <1>8, <2>1
  <2>4. NeverAsks'
    BY <1>5, <1>7, <2>1, <2>2 DEF NeverAsks
  <2>5. ReturningIsOwn'
    BY <1>5, <1>7, <2>1, <2>2 DEF ReturningIsOwn
  <2>6. QED BY <2>3, <2>4, <2>5 DEF ModelOK
<1>10. QED BY <1>4, <1>5, <1>6, <1>9, TxInvPartsNext

LEMMA AskIdKeeps ==
  ASSUME TxInv, NEW t \in Tasks, AskId(t)
  PROVE  TxInv'
<1>0. /\ ServerOK /\ StreamOK /\ ObjectOK /\ ModelOK /\ SoloOK /\ ServerTxIsOwned /\ TypeOK
      /\ model[t].st = "inserted" /\ UNCHANGED <<obj, mine, solo, orphan>>
  BY TxInvParts DEF AskId, TxInv
<1>1. PICK got \in Replies :
        /\ Call(LastIdOn(srv), got)
        /\ model' = [model EXCEPT ![t] = IF got.ok THEN [@ EXCEPT !.st = "created", !.id = got.val]
                                                   ELSE NotCreated]
  BY DEF AskId
<1>2. \A o \in LastIdOn(srv) : o.rep \in Replies /\ o.to = srv
  BY <1>0, LastIdFacts
<1>3. Answered(LastIdOn(srv), got)
  BY <1>0, <1>1, <1>2, CallFacts DEF StreamOK
<1>4. dialect' = dialect /\ srv' = srv /\ (doubt => doubt')
  BY <1>2, <1>3 DEF Answered
<1>5. StreamOK' /\ ObjectOK' /\ ServerOK'
  BY <1>0, <1>3, <1>4, SameFacts, QuietServer DEF StreamOK, ObjectOK, ServerOK, Answered
<1>6. SoloOK' /\ ServerTxIsOwned'
  BY <1>0, <1>4 DEF SoloOK, SoloHolds, SoloEnded, ServerTxIsOwned
<1>7. ModelOK'
  <2>1. dialect # "postgresql"
    BY <1>0 DEF ModelOK, NeverAsks
  <2>2. got.val \in 0..MaxRow /\ NotCreated.st = "none" /\ 0 \in 0..MaxRow
    BY TxAssumption DEF Replies, NotCreated
  <2>3. model' \in [Tasks -> [st : {"none", "inserted", "created"}, row : 0..MaxRow, id : 0..MaxRow]]
    BY <1>0, <1>1, <2>2 DEF ModelOK, NotCreated
  <2>4. QED BY <2>1, <2>3, <1>4 DEF ModelOK, NeverAsks, ReturningIsOwn
<1>8. QED BY <1>5, <1>6, <1>7, TxInvPartsNext

LEMMA DropKeeps ==
  ASSUME TxInv, NEW t \in Tasks, DropTransaction(t)
  PROVE  TxInv'
<1>0. /\ ServerOK /\ StreamOK /\ ObjectOK /\ ModelOK /\ SoloHolds /\ SoloEnded /\ ServerTxIsOwned
      /\ obj' = [obj EXCEPT ![t] = "none"] /\ mine' = [mine EXCEPT ![t] = {}]
      /\ solo' = [solo EXCEPT ![t] = FALSE] /\ orphan' = (orphan \/ obj[t] = "open")
      /\ UNCHANGED <<dialect, srv, unread, doubt, model>>
  BY TxInvParts DEF DropTransaction, SoloOK
<1>1. /\ obj'[t] = "none"
      /\ \A u \in Tasks \ {t} : obj'[u] = obj[u] /\ mine'[u] = mine[u] /\ solo'[u] = solo[u]
  BY <1>0 DEF ObjectOK
<1>2. ServerOK' /\ StreamOK' /\ ModelOK' /\ ObjectOK'
  <2>1. ServerOK'
    BY <1>0 DEF ServerOK, RowsInserted, AbortedIsDoubt
  <2>2. StreamOK' /\ ModelOK'
    BY <1>0, SameModel DEF StreamOK, StreamKnown
  <2>3. ObjectOK'
    BY <1>0 DEF ObjectOK
  <2>4. QED BY <2>1, <2>2, <2>3
<1>3. SoloHolds'
  BY <1>0, <1>1 DEF SoloHolds
<1>4. SoloEnded'
  <2> SUFFICES ASSUME ~doubt, NEW u \in Tasks, solo'[u]
               PROVE  /\ obj'[u] = "committed" => mine'[u] \subseteq srv.durable
                      /\ obj'[u] = "rolled_back" =>
                           /\ mine'[u] \subseteq 1..(srv.next - 1)
                           /\ mine'[u] \cap (srv.pending \cup srv.durable) = {}
    BY <1>0 DEF SoloEnded
  <2>1. CASE u = t
    BY <2>1, <1>1
  <2>2. CASE u # t
    BY <2>2, <1>0, <1>1 DEF SoloEnded
  <2>3. QED BY <2>1, <2>2
<1>5. ServerTxIsOwned'
  BY <1>0, <1>1 DEF ServerTxIsOwned
<1>6. QED BY <1>2, <1>3, <1>4, <1>5, TxInvPartsNext DEF SoloOK

LEMMA TxStep ==
  ASSUME TxInv, [Next]_vars
  PROVE  TxInv'
<1>1. CASE UNCHANGED vars
  <2>1. UNCHANGED <<dialect, srv, unread, obj, mine, solo, model, orphan, doubt>>
    BY <1>1 DEF vars
  <2>2. QED BY <2>1 DEF TxInv, TypeOK, StreamKnown, AbortedIsDoubt, RowsInserted, SoloHolds,
                        SoloEnded, NeverAsks, ServerTxIsOwned, ReturningIsOwn
<1>2. ASSUME NEW t \in Tasks, \/ Begin(t) \/ Commit(t) \/ Rollback(t) \/ TxExecute(t)
                              \/ DropTransaction(t) \/ CreateModel(t) \/ AskId(t)
      PROVE  TxInv'
  <2>1. CASE EndedAlready(t)
    BY <2>1, <1>1 DEF EndedAlready
  <2>2. CASE ~EndedAlready(t)
    BY <1>2, <2>2, BeginKeeps, CommitKeeps, RollbackKeeps, TxExecuteKeeps, DropKeeps, CreateKeeps, AskIdKeeps
  <2>3. QED BY <2>1, <2>2
<1>3. QED BY <1>1, <1>2 DEF Next

LEMMA TxInit ==
  ASSUME Init PROVE TxInv
<1>1. MaxRow \in Nat /\ 0 \in 0..MaxRow /\ 1 \in 1..(MaxRow + 1)
  BY TxAssumption
<1>2. srv \in Server /\ srv.next = 1 /\ srv.pending = {} /\ srv.durable = {}
      /\ ~srv.inTx /\ ~srv.aborted
  BY <1>1 DEF Init, Server
<1>3. TypeOK
  <2>1. unread \in Seq(Replies)
    BY DEF Init
  <2>2. model \in [Tasks -> [st : {"none", "inserted", "created"}, row : 0..MaxRow, id : 0..MaxRow]]
    BY <1>1 DEF Init, NotCreated
  <2>3. QED BY <1>2, <2>1, <2>2 DEF Init, TypeOK
<1>4. StreamKnown /\ AbortedIsDoubt /\ RowsInserted
  BY <1>2 DEF Init, StreamKnown, AbortedIsDoubt, RowsInserted
<1>5. SoloHolds /\ SoloEnded /\ NeverAsks /\ ServerTxIsOwned /\ ReturningIsOwn
  BY <1>2 DEF Init, SoloHolds, SoloEnded, NeverAsks, ServerTxIsOwned, ReturningIsOwn, NotCreated
<1>6. QED BY <1>3, <1>4, <1>5 DEF TxInv

-----------------------------------------------------------------------------
(* The theorems.                                                           *)

\* The invariant the theorems below are read off.
THEOREM TxInvariant == Spec => []TxInv
<1>1. Init => TxInv
  BY TxInit
<1>2. TxInv /\ [Next]_vars => TxInv'
  BY TxStep
<1>3. QED BY <1>1, <1>2, PTL DEF Spec

\* After a commit that returned Ok the rows of the Transaction are on disk, and they
\* stay there, however many tasks run statements on the session in between.
THEOREM TxCommitIsDurable == Spec => []CommitIsDurable
<1>1. TxInv => CommitIsDurable
  BY DEF TxInv, SoloEnded, CommitIsDurable
<1>2. QED BY <1>1, TxInvariant, PTL

\* After a rollback that returned Ok none of them is on disk, and no row that is
\* inserted later is taken for one of them.
THEOREM TxRollbackUndoes == Spec => []RollbackUndoes
<1>1. TxInv => RollbackUndoes
  BY DEF TxInv, SoloEnded, RollbackUndoes
<1>2. QED BY <1>1, TxInvariant, PTL

\* No transaction stays open on the server without a Transaction that can end it,
\* unless one was dropped open or a BEGIN in doubt left it there.
THEOREM TxServerTxIsOwned == Spec => []ServerTxIsOwned
<1>1. TxInv => ServerTxIsOwned
  BY DEF TxInv
<1>2. QED BY <1>1, TxInvariant, PTL

\* With RETURNING, create sets the id of its own row, whatever the other tasks
\* insert meanwhile.
THEOREM TxReturningIsOwn == Spec => []ReturningIsOwn
<1>1. TxInv => ReturningIsOwn
  BY DEF TxInv
<1>2. QED BY <1>1, TxInvariant, PTL

-----------------------------------------------------------------------------
(* Models: what the unique indexes of the table promise.                   *)

\* The record the server keeps of the table.
TableFields == {"made", "uniques", "indexes", "rows", "next"}

\* No two rows of the table agree in the columns of a unique index, whichever
\* version of the program made the index.
KeysHold ==
  /\ DOMAIN table = TableFields /\ DOMAIN table.rows = Ids
  /\ ~table.made => Keys(table.indexes) = {} /\ Present = {}
  /\ Keys(table.indexes) \subseteq table.uniques
  /\ \A key \in table.uniques : ~Duplicated(key)

\* What auto_migrate has still to create is what has no index of its name; without
\* it the indexes of an Ok could not be told from those of an older version.
Progress ==
  /\ todo[1] = "indexes" => /\ table.made
                            /\ todo[2] \subseteq schema /\ \A ix \in schema \ todo[2] : Named(ix)
  /\ migrated => table.made /\ \A ix \in schema : Named(ix)

UInv == KeysHold /\ Progress

\* A row that clashes with no other one may be written.
LEMMA RowWritten ==
  ASSUME UInv, UNCHANGED shape, NEW i \in Ids, NEW row,
         ~Clashes(i, row),
         DOMAIN table' = TableFields, table'.made = table.made, table.made,
         table'.uniques = table.uniques, table'.indexes = table.indexes,
         table'.rows = [table.rows EXCEPT ![i] = row]
  PROVE  KeysHold'
<1>1. Ids' = Ids
  BY DEF Ids
<1>2. DOMAIN table'.rows = Ids
  BY DEF UInv, KeysHold
<1>3. \A j \in Ids : table'.rows[j] = IF j = i THEN row ELSE table.rows[j]
  BY DEF UInv, KeysHold
<1>4. ASSUME NEW key \in table.uniques, Duplicated(key)' PROVE FALSE
  <2>1. PICK a \in Present', b \in Present' :
          a # b /\ \A c \in key : table'.rows[a][c][1] # "null" /\ table'.rows[a][c] = table'.rows[b][c]
    BY <1>4 DEF Duplicated
  <2>2. a \in Ids /\ b \in Ids /\ table'.rows[a] # NoRow /\ table'.rows[b] # NoRow
    BY <1>1, <2>1 DEF Present, NoRow
  <2>3. CASE a # i /\ b # i
    <3>1. a \in Present /\ b \in Present
      BY <2>2, <2>3, <1>3 DEF Present
    <3>2. Duplicated(key)
      BY <3>1, <2>1, <2>2, <2>3, <1>3 DEF Duplicated
    <3>3. QED BY <3>2 DEF UInv, KeysHold
  <2>4. CASE a = i
    <3>1. b \in Present \ {i}
      BY <2>1, <2>2, <2>4, <1>3 DEF Present
    <3>2. \A c \in key : row[c][1] # "null" /\ table.rows[b][c] = row[c]
      BY <3>1, <2>1, <2>2, <2>4, <1>3
    <3>3. QED BY <3>1, <3>2 DEF Clashes
  <2>5. CASE b = i
    <3>1. a \in Present \ {i}
      BY <2>1, <2>2, <2>5, <1>3 DEF Present
    <3>2. \A c \in key : row[c][1] # "null" /\ table.rows[a][c] = row[c]
      BY <3>1, <2>1, <2>2, <2>5, <1>3
    <3>3. QED BY <3>1, <3>2 DEF Clashes
  <2>6. QED BY <2>3, <2>4, <2>5
<1>5. \A key \in table'.uniques : ~Duplicated(key)'
  BY <1>4
<1>6. Keys(table'.indexes) \subseteq table'.uniques
  BY DEF UInv, KeysHold
<1>7. QED BY <1>1, <1>2, <1>5, <1>6 DEF KeysHold

\* A change that leaves the rows and the indexes alone breaks no index.
LEMMA KeysKept ==
  ASSUME KeysHold, UNCHANGED shape,
         DOMAIN table' = TableFields, table'.made = table.made, table'.rows = table.rows,
         table'.uniques = table.uniques, table'.indexes = table.indexes
  PROVE  KeysHold'
<1>1. Ids' = Ids /\ Present' = Present
  BY DEF Ids, Present, NoRow
<1>2. \A key : Duplicated(key)' = Duplicated(key)
  BY <1>1 DEF Duplicated
<1>3. QED BY <1>1, <1>2 DEF KeysHold

\* Taking a row away breaks no index.
LEMMA RowRemoved ==
  ASSUME KeysHold, UNCHANGED shape, NEW i, table.made,
         DOMAIN table' = TableFields, table'.made = table.made,
         table'.uniques = table.uniques, table'.indexes = table.indexes,
         table'.rows = [table.rows EXCEPT ![i] = NoRow]
  PROVE  KeysHold'
<1>1. Ids' = Ids
  BY DEF Ids
<1>2. DOMAIN table'.rows = Ids
  BY DEF KeysHold
<1>3. \A j \in Ids : table'.rows[j] = IF j = i THEN NoRow ELSE table.rows[j]
  BY DEF KeysHold
<1>4. ASSUME NEW j \in Present' PROVE j \in Present /\ table'.rows[j] = table.rows[j]
  <2>1. j \in Ids /\ table'.rows[j] # NoRow
    BY <1>1 DEF Present, NoRow
  <2>2. QED BY <2>1, <1>3 DEF Present
<1>5. ASSUME NEW key \in table.uniques, Duplicated(key)' PROVE FALSE
  <2>1. Duplicated(key)
    BY <1>4, <1>5 DEF Duplicated
  <2>2. QED BY <2>1 DEF KeysHold
<1>6. QED BY <1>1, <1>2, <1>5 DEF KeysHold

\* The keys of a schema with one index more.
LEMMA KeysAdded ==
  ASSUME NEW v, NEW ix
  PROVE  /\ Keys(v \cup {ix}) = Keys(v) \cup Keys({ix})
         /\ Keys({ix}) = IF IsUnique(ix) THEN {ix.cols} ELSE {}
<1>1. Keys({ix}) = IF IsUnique(ix) THEN {ix.cols} ELSE {}
  BY DEF Keys
<1>2. Keys(v \cup {ix}) = Keys(v) \cup Keys({ix})
  BY DEF Keys
<1>3. QED BY <1>1, <1>2

\* An index may be added when no two rows are equal in it, or it is a plain one.
LEMMA IndexAdded ==
  ASSUME KeysHold, UNCHANGED shape, NEW ix, ~Rejected(ix), table.made,
         table' = [table EXCEPT !.indexes = @ \cup {ix}, !.uniques = @ \cup Keys({ix})]
  PROVE  KeysHold' /\ table'.made /\ table'.indexes = table.indexes \cup {ix}
<1>1. /\ DOMAIN table' = TableFields /\ table'.made = table.made /\ table'.rows = table.rows
      /\ table'.uniques = table.uniques \cup Keys({ix}) /\ table'.indexes = table.indexes \cup {ix}
  BY DEF KeysHold, TableFields
<1>2. Ids' = Ids /\ Present' = Present
  BY <1>1 DEF Ids, Present, NoRow
<1>3. \A k : Duplicated(k)' = Duplicated(k)
  BY <1>1, <1>2 DEF Duplicated
<1>4. \A key \in Keys({ix}) : ~Duplicated(key)
  <2>1. Keys({ix}) = IF IsUnique(ix) THEN {ix.cols} ELSE {}
    BY KeysAdded
  <2>2. CASE IsUnique(ix)
    <3>1. ~Duplicated(ix.cols)
      BY <2>2 DEF Rejected
    <3>2. \A key \in Keys({ix}) : key = ix.cols
      BY <2>1, <2>2
    <3>3. QED BY <3>1, <3>2
  <2>3. CASE ~IsUnique(ix)
    BY <2>1, <2>3
  <2>4. QED BY <2>2, <2>3
<1>5. \A key \in table'.uniques : ~Duplicated(key)'
  BY <1>1, <1>3, <1>4 DEF KeysHold
<1>6. Keys(table'.indexes) \subseteq table'.uniques
  <2>1. Keys(table'.indexes) = Keys(table.indexes) \cup Keys({ix})
    BY <1>1, KeysAdded
  <2>2. QED BY <1>1, <2>1 DEF KeysHold
<1>7. QED BY <1>1, <1>2, <1>5, <1>6 DEF KeysHold

\* A new table is empty, so every index it is made with holds.
LEMMA TableMade ==
  ASSUME KeysHold, UNCHANGED shape, ~table.made, NEW U, Keys(table'.indexes) \subseteq U,
         DOMAIN table' = TableFields, table'.made, table'.rows = table.rows, table'.uniques = U
  PROVE  KeysHold'
<1>1. Ids' = Ids /\ Present' = {}
  BY DEF Ids, Present, NoRow, KeysHold
<1>2. \A k : ~Duplicated(k)'
  BY <1>1 DEF Duplicated
<1>3. QED BY <1>1, <1>2 DEF KeysHold

\* A program starts with no rows and with no indexes but those of other tables.
LEMMA UniqueInit == ASSUME ModelInit PROVE UInv
<1>1. Present = {}
  BY DEF ModelInit, Present
<1>2. PICK names : table = [made |-> FALSE, uniques |-> {}, indexes |-> {Foreign(n) : n \in names},
                            rows |-> [i \in Ids |-> NoRow], next |-> 1]
  BY DEF ModelInit
<1>3. Keys(table.indexes) = {}
  <2>1. \A ix \in table.indexes : ~IsUnique(ix)
    BY <1>2 DEF IsUnique, Foreign
  <2>2. QED BY <2>1 DEF Keys
<1>4. KeysHold
  BY <1>1, <1>2, <1>3 DEF KeysHold, TableFields
<1>5. Progress
  BY DEF ModelInit, Progress
<1>6. QED BY <1>4, <1>5 DEF UInv

\* Restarts, tables made by hand and each statement of auto_migrate: an index is
\* in the table before it leaves the list of those still to create.
LEMMA MigrateStep ==
  ASSUME UInv, Restart \/ TableByHand \/ StartMigrate \/ MigrateFails \/ CreateTable \/ CreateIndex
  PROVE  UInv'
<1> USE DEF UInv
<1>1. CASE Restart
  <2>1. KeysHold'
    <3>1. UNCHANGED <<shape, table>>
      BY <1>1 DEF Restart
    <3>2. QED BY <3>1, KeysKept DEF KeysHold
  <2>2. Progress'
    BY <1>1 DEF Restart, Progress
  <2>3. QED BY <2>1, <2>2
<1>2. CASE TableByHand
  <2>1. UNCHANGED <<shape, schema, todo, migrated>> /\ ~table.made /\ todo[1] = "idle"
    BY <1>2 DEF TableByHand
  <2>2. /\ DOMAIN table' = TableFields /\ table'.made /\ table'.rows = table.rows
        /\ table'.uniques = Keys(schema) /\ table'.indexes = table.indexes \cup schema
    BY <1>2 DEF TableByHand, KeysHold, TableFields
  <2>3. KeysHold'
    <3>1. Keys(table.indexes \cup schema) = Keys(table.indexes) \cup Keys(schema)
      BY DEF Keys
    <3>2. Keys(table.indexes) = {}
      BY <2>1 DEF KeysHold
    <3>3. Keys(table'.indexes) \subseteq Keys(schema)
      BY <2>2, <3>1, <3>2
    <3>4. QED BY <2>1, <2>2, <3>3, TableMade
  <2>4. Progress'
    <3>1. \A ix : Named(ix) => Named(ix)'
      BY <2>2 DEF Named
    <3>2. QED BY <2>1, <2>2, <3>1 DEF Progress
  <2>5. QED BY <2>3, <2>4
<1>3. CASE StartMigrate
  <2>1. UNCHANGED <<shape, schema, table, migrated>> /\ todo' = <<"table", {}>>
    BY <1>3 DEF StartMigrate
  <2>2. KeysHold'
    BY <2>1, KeysKept DEF KeysHold
  <2>3. \A ix : Named(ix)' = Named(ix)
    BY <2>1 DEF Named
  <2>4. QED BY <2>1, <2>2, <2>3 DEF Progress
<1>4. CASE MigrateFails
  <2>1. UNCHANGED <<shape, schema, table, migrated>> /\ todo' = <<"idle", {}>>
    BY <1>4 DEF MigrateFails
  <2>2. KeysHold'
    BY <2>1, KeysKept DEF KeysHold
  <2>3. \A ix : Named(ix)' = Named(ix)
    BY <2>1 DEF Named
  <2>4. QED BY <2>1, <2>2, <2>3 DEF Progress
<1>5. CASE CreateTable
  <2>1. UNCHANGED <<shape, schema>>
    BY <1>5 DEF CreateTable
  <2>2. CASE table.made
    <3>1. table' = table
      BY <1>5, <2>2 DEF CreateTable
    <3>2. KeysHold'
      BY <2>1, <3>1, KeysKept DEF KeysHold
    <3>3. Progress'
      <4>1. CASE schema = {}
        BY <1>5, <2>1, <2>2, <3>1, <4>1 DEF CreateTable, Progress
      <4>2. CASE schema # {}
        <5>1. todo' = <<"indexes", schema>> /\ migrated' = migrated
          BY <1>5, <4>2 DEF CreateTable
        <5>2. todo'[2] = schema
          BY <5>1
        <5>3. \A ix : Named(ix)' = Named(ix)
          BY <3>1 DEF Named
        <5>4. QED BY <2>1, <2>2, <3>1, <5>1, <5>2, <5>3 DEF Progress
      <4>3. QED BY <4>1, <4>2
    <3>4. QED BY <3>2, <3>3
  <2>3. CASE ~table.made
    <3>1. /\ DOMAIN table' = TableFields /\ table'.made /\ table'.rows = table.rows
          /\ table'.uniques = ColumnUnique /\ table'.indexes = table.indexes
      BY <1>5, <2>3 DEF CreateTable, KeysHold, TableFields
    <3>2. KeysHold'
      <4>1. Keys(table'.indexes) = {}
        BY <2>3, <3>1 DEF KeysHold
      <4>2. QED BY <2>1, <2>3, <3>1, <4>1, TableMade
    <3>3. CASE schema = {}
      BY <1>5, <2>1, <3>2, <3>3 DEF CreateTable, Progress
    <3>4. CASE schema # {}
      <4>1. todo' = <<"indexes", schema>> /\ migrated' = migrated
        BY <1>5, <3>4 DEF CreateTable
      <4>2. todo'[2] = schema
        BY <4>1
      <4>3. Progress'
        BY <2>1, <2>3, <3>1, <4>1, <4>2 DEF Progress
      <4>4. QED BY <3>2, <4>3
    <3>5. QED BY <3>3, <3>4
  <2>4. QED BY <2>2, <2>3
<1>6. CASE CreateIndex
  <2>1. PICK ix \in todo[2] : \/ Named(ix) /\ Indexed(ix, FALSE)
                              \/ ~Named(ix) /\ ~Rejected(ix) /\ Indexed(ix, TRUE)
    BY <1>6 DEF CreateIndex
  <2>2. UNCHANGED <<shape, schema>> /\ todo[1] = "indexes" /\ table.made
    BY <1>6, <2>1 DEF Indexed, CreateIndex, Progress
  <2>3. KeysHold' /\ table'.made /\ table.indexes \subseteq table'.indexes /\ Named(ix)'
    <3>1. CASE Named(ix) /\ Indexed(ix, FALSE)
      <4>1. table' = table
        BY <3>1 DEF Indexed
      <4>2. KeysHold'
        BY <2>2, <4>1, KeysKept DEF KeysHold
      <4>3. QED BY <2>2, <3>1, <4>1, <4>2 DEF Named
    <3>2. CASE ~Rejected(ix) /\ Indexed(ix, TRUE)
      <4>1. table' = [table EXCEPT !.indexes = @ \cup {ix}, !.uniques = @ \cup Keys({ix})]
        BY <3>2 DEF Indexed
      <4>2. KeysHold' /\ table'.made /\ table'.indexes = table.indexes \cup {ix}
        BY <2>2, <3>2, <4>1, IndexAdded
      <4>3. QED BY <4>2 DEF Named
    <3>3. QED BY <2>1, <3>1, <3>2
  <2>4. \A iy : Named(iy) => Named(iy)'
    BY <2>3 DEF Named
  <2>5. Progress'
    <3>1. todo[2] \subseteq schema /\ \A iy \in schema \ todo[2] : Named(iy)
      BY <2>2 DEF Progress
    <3>2. CASE todo[2] = {ix}
      <4>1. todo' = <<"idle", {}>>
        BY <2>1, <3>2 DEF Indexed
      <4>2. \A iy \in schema : Named(iy)'
        BY <2>3, <2>4, <3>1, <3>2
      <4>3. QED BY <2>2, <2>3, <4>1, <4>2 DEF Progress
    <3>3. CASE todo[2] # {ix}
      <4>1. todo' = <<"indexes", todo[2] \ {ix}>> /\ migrated' = migrated
        BY <2>1, <3>3 DEF Indexed
      <4>2. todo'[2] = todo[2] \ {ix}
        BY <4>1
      <4>3. todo'[2] \subseteq schema /\ \A iy \in schema \ todo'[2] : Named(iy)'
        BY <2>3, <2>4, <3>1, <4>2
      <4>4. migrated => \A iy \in schema : Named(iy)'
        BY <2>4 DEF Progress
      <4>5. QED BY <2>2, <2>3, <4>1, <4>3, <4>4 DEF Progress
    <3>4. QED BY <3>2, <3>3
  <2>6. QED BY <2>3, <2>5
<1>7. QED BY <1>1, <1>2, <1>3, <1>4, <1>5, <1>6

\* What auto_migrate has reached depends on the indexes alone.
LEMMA ProgressKept ==
  ASSUME Progress, UNCHANGED <<schema, todo, migrated>>,
         table'.made = table.made, table'.indexes = table.indexes
  PROVE  Progress'
<1>1. \A ix : Named(ix)' = Named(ix)
  BY DEF Named
<1>2. QED BY <1>1 DEF Progress

\* A step that leaves the table and the migration alone.
LEMMA SameTable == ASSUME UInv, UNCHANGED <<shape, schema, todo, migrated, table>> PROVE UInv'
BY KeysKept, ProgressKept DEF UInv, KeysHold

\* INSERT: refused when the row would clash, and whatever answer is lost.
LEMMA InsertStep ==
  ASSUME UInv, NEW t, NEW m, NEW how, Insert(t, m, how)
  PROVE  UInv'
<1> DEFINE i == IF m.id > 0 THEN m.id ELSE table.next
           row == Stored(Content(m))
           works == i \in Ids /\ i \notin Present /\ ~Clashes(i, row)
           done == works /\ how # "refused"
<1>1. UNCHANGED <<shape, schema, todo, migrated>> /\ table.made
  BY DEF Insert, Calls
<1>2. CASE done
  <2>1. \E n : table' = [table EXCEPT !.rows[i] = row, !.next = n]
    BY <1>2 DEF Insert
  <2>2. PICK n : table' = [table EXCEPT !.rows[i] = row, !.next = n]
    BY <2>1
  <2>3. /\ DOMAIN table' = TableFields /\ table'.made = table.made
        /\ table'.uniques = table.uniques /\ table'.indexes = table.indexes
        /\ table'.rows = [table.rows EXCEPT ![i] = row]
    <3> HIDE DEF i, row, works, done
    <3> QED BY <2>2 DEF UInv, KeysHold, TableFields
  <2>4. i \in Ids /\ ~Clashes(i, row)
    BY <1>2
  <2>5. KeysHold'
    <3> HIDE DEF i, row, works, done
    <3> QED BY <1>1, <2>3, <2>4, RowWritten
  <2>6. QED
    <3> HIDE DEF i, row, works, done
    <3> QED BY <1>1, <2>3, <2>5, ProgressKept DEF UInv
<1>3. CASE ~done
  <2>1. \E n : table' = [table EXCEPT !.next = n]
    BY <1>3 DEF Insert
  <2>2. PICK n : table' = [table EXCEPT !.next = n]
    BY <2>1
  <2>3. /\ DOMAIN table' = TableFields /\ table'.made = table.made /\ table'.rows = table.rows
        /\ table'.uniques = table.uniques /\ table'.indexes = table.indexes
    BY <2>2 DEF UInv, KeysHold, TableFields
  <2>4. QED BY <1>1, <2>3, KeysKept, ProgressKept DEF UInv
<1>4. QED BY <1>2, <1>3

\* UPDATE, of every column or of the JSON ones.
LEMMA WriteStep ==
  ASSUME UInv, NEW t, NEW m, NEW sets, NEW how, Write(t, m, sets, how)
  PROVE  UInv'
<1>1. UNCHANGED <<shape, schema, todo, migrated>> /\ table.made
  BY DEF Write, Calls
<1>2. \/ table' = table
      \/ \E row : /\ m.id \in Present /\ ~Clashes(m.id, row)
                  /\ table' = [table EXCEPT !.rows[m.id] = row]
  BY DEF Write, Same
<1>3. CASE table' = table
  BY <1>1, <1>3, SameTable
<1>4. CASE table' # table
  <2>1. PICK row : /\ m.id \in Present /\ ~Clashes(m.id, row)
                   /\ table' = [table EXCEPT !.rows[m.id] = row]
    BY <1>2, <1>4
  <2>2. /\ DOMAIN table' = TableFields /\ table'.made = table.made
        /\ table'.uniques = table.uniques /\ table'.indexes = table.indexes
        /\ table'.rows = [table.rows EXCEPT ![m.id] = row]
    BY <2>1 DEF UInv, KeysHold, TableFields
  <2>3. m.id \in Ids
    BY <2>1 DEF Present
  <2>4. KeysHold'
    BY <1>1, <2>1, <2>2, <2>3, RowWritten
  <2>5. QED BY <1>1, <2>2, <2>4, ProgressKept DEF UInv
<1>5. QED BY <1>3, <1>4

\* DELETE.
LEMMA DeleteStep ==
  ASSUME UInv, NEW t, Delete(t)
  PROVE  UInv'
<1>1. UNCHANGED <<shape, schema, todo, migrated>> /\ table.made
  BY DEF Delete, Calls
<1>2. table' = table \/ table' = [table EXCEPT !.rows[mem[t].id] = NoRow]
  BY DEF Delete, Same
<1>3. CASE table' = table
  BY <1>1, <1>3, SameTable
<1>4. CASE table' = [table EXCEPT !.rows[mem[t].id] = NoRow]
  <2>1. /\ DOMAIN table' = TableFields /\ table'.made = table.made
        /\ table'.uniques = table.uniques /\ table'.indexes = table.indexes
        /\ table'.rows = [table.rows EXCEPT ![mem[t].id] = NoRow]
    BY <1>4 DEF UInv, KeysHold, TableFields
  <2>2. KeysHold'
    BY <1>1, <2>1, RowRemoved DEF UInv
  <2>3. QED BY <1>1, <2>1, <2>2, ProgressKept DEF UInv
<1>5. QED BY <1>2, <1>3, <1>4

\* The queries change nothing on the server.
LEMMA ReadStep ==
  ASSUME UInv, NEW t, First(t) \/ All(t) \/ Last(t)
  PROVE  UInv'
<1>1. PICK op, ids, prepared, pick : Reads(t, op, ids, prepared, pick)
  BY DEF First, All, Last
<1>2. UNCHANGED <<shape, schema, todo, migrated, table>>
  BY <1>1 DEF Reads, Calls, Same
<1>3. QED BY <1>2, SameTable

\* Every method of Database that takes a model.
LEMMA TaskStep ==
  ASSUME UInv, NEW t,
         Create(t) \/ First(t) \/ All(t) \/ Last(t) \/ Update(t) \/ Delete(t)
  PROVE  UInv'
<1>1. CASE Create(t)
  <2>1. PICK m, how : Insert(t, m, how)
    BY <1>1 DEF Create
  <2>2. QED BY <2>1, InsertStep
<1>2. CASE Update(t)
  <2>1. \/ \E m, sets, how : Write(t, m, sets, how)
        \/ Calls(t, "update", FALSE) /\ Same
    BY <1>2 DEF Update
  <2>2. CASE \E m, sets, how : Write(t, m, sets, how)
    BY <2>2, WriteStep
  <2>3. CASE Calls(t, "update", FALSE) /\ Same
    BY <2>3, SameTable DEF Calls, Same
  <2>4. QED BY <2>1, <2>2, <2>3
<1>3. QED BY <1>1, <1>2, DeleteStep, ReadStep

\* In every behaviour of programs that migrate, restart in another version,
\* create, save, read and delete, every unique index on the server holds, and
\* auto_migrate has found or made an index under every name it no longer lists.
THEOREM UniqueKeysHold == ModelSpec => []UInv
<1>1. ASSUME UInv, [ModelNext]_modelVars PROVE UInv'
  <2>1. CASE UNCHANGED modelVars
    BY <1>1, <2>1, SameTable DEF modelVars
  <2>2. CASE ModelNext
    BY <1>1, <2>2, MigrateStep, TaskStep DEF ModelNext
  <2>3. QED BY <1>1, <2>1, <2>2
<1>2. QED BY UniqueInit, <1>1, PTL DEF ModelSpec

\* Once auto_migrate has returned Ok no two rows agree in the columns of a unique
\* index the running version declares, unless the name of that index is another's:
\* a refused CREATE UNIQUE INDEX never ends in Ok, and no later write gets past one.
THEOREM ModelsOkMeansUnique == ModelSpec => []OkMeansUnique
<1>1. ASSUME UInv PROVE OkMeansUnique
  <2>1. SUFFICES ASSUME migrated, NEW ix \in schema, IsUnique(ix), ~Shadowed(ix) PROVE ~Duplicated(ix.cols)
    BY DEF OkMeansUnique
  <2>2. PICK old \in table.indexes : old.name = ix.name
    BY <1>1, <2>1 DEF UInv, Progress, Named
  <2>3. IsUnique(old) /\ old.cols = ix.cols
    BY <2>1, <2>2 DEF Shadowed
  <2>4. ix.cols \in Keys(table.indexes)
    BY <2>2, <2>3 DEF Keys
  <2>5. QED BY <1>1, <2>4 DEF UInv, KeysHold
<1>2. QED BY UniqueKeysHold, <1>1, PTL

-----------------------------------------------------------------------------
(* Models: the way of one field from a copy to a column and back, for each *)
(* dialect, each type of field and either protocol.                        *)

\* What a query decodes of a field that was sent and is not None.
Returned(d, tag, n, prepared) == Decoded(d, TypeIn(tag, d), Kept(d, ToColumn(tag, <<n>>)), prepared)

\* What from_row makes of it: the servers keep no fraction of a second.
Arrives(d, tag, n) ==
  IF tag # "datetime" \/ d = "postgresql" THEN n ELSE IF d = "sqlite" THEN 2 * (n \div 2) ELSE 2 * ((n + 1) \div 2)

\* Columns that a type keeps, and the variants they come back as.
LEMMA MySqlKept ==
  ASSUME NEW n
  PROVE  /\ \A k \in Ints \cup Floats \cup {"bool", "string", "bytes"} : Kept("mysql", <<k, n>>) = <<"kept", n>>
         /\ Kept("mysql", <<"json", n>>) = <<"kept", <<"json", n>>>>
         /\ Kept("mysql", <<"datetime", n>>) = <<"kept", 2 * ((n + 1) \div 2)>>
<1>1. ASSUME NEW k \in Ints \cup Floats \cup {"bool", "string", "bytes"} PROVE Kept("mysql", <<k, n>>) = <<"kept", n>>
  <2> DEFINE q == <<k, n>>
  <2>1. q[1] = k /\ q[2] = n
    OBVIOUS
  <2> HIDE DEF q
  <2>2. MySqlType(q) \in {"TINY", "SHORT", "LONG", "LONGLONG", "FLOAT", "DOUBLE", "VAR_STRING", "BLOB"}
    BY <2>1 DEF MySqlType, Ints, Floats
  <2>3. BinaryParam(q) = <<MySqlType(q), n>>
    <3>1. q[1] # "json" /\ q[2] = n
      BY <2>1 DEF Ints, Floats
    <3>2. QED BY <3>1 DEF BinaryParam
  <2>4. BinaryParam(q)[1] \notin {"NULL", "DATETIME"} /\ BinaryParam(q)[2] = n
    BY <2>2, <2>3
  <2>5. MySqlKeeps(BinaryParam(q)) = <<"kept", n>>
    BY <2>4 DEF MySqlKeeps
  <2>6. QED BY <2>5 DEF Kept, q
<1>2. Kept("mysql", <<"json", n>>) = <<"kept", <<"json", n>>>>
  <2>1. BinaryParam(<<"json", n>>) = <<"VAR_STRING", <<"json", n>>>>
    BY DEF BinaryParam, MySqlType
  <2>2. MySqlKeeps(<<"VAR_STRING", <<"json", n>>>>) = <<"kept", <<"json", n>>>>
    BY DEF MySqlKeeps
  <2>3. QED BY <2>1, <2>2 DEF Kept
<1>3. Kept("mysql", <<"datetime", n>>) = <<"kept", 2 * ((n + 1) \div 2)>>
  <2>1. BinaryParam(<<"datetime", n>>) = <<"DATETIME", n>>
    BY DEF BinaryParam, MySqlType
  <2>2. MySqlKeeps(<<"DATETIME", n>>) = <<"kept", 2 * ((n + 1) \div 2)>>
    BY DEF MySqlKeeps
  <2>3. QED BY <2>1, <2>2 DEF Kept
<1>4. QED BY <1>1, <1>2, <1>3

LEMMA PgKept ==
  ASSUME NEW n
  PROVE  /\ \A k \in Ints : Kept("postgresql", <<k, n>>) = <<"kept", <<"num", n>>>>
         /\ \A k \in Floats : Kept("postgresql", <<k, n>>) = <<"kept", <<"float", n>>>>
         /\ \A k \in {"bool", "bytes", "json", "datetime"} : Kept("postgresql", <<k, n>>) = <<"kept", <<k, n>>>>
         /\ n[1] # "null" => Kept("postgresql", <<"string", n>>) = <<"kept", n>>
<1>1. ASSUME NEW k \in Ints PROVE Kept("postgresql", <<k, n>>) = <<"kept", <<"num", n>>>>
  <2>1. EncodeText(<<k, n>>) = <<"num", n>>
    BY DEF EncodeText, Ints, Floats
  <2>2. QED BY <2>1 DEF Kept, PgKeeps
<1>2. ASSUME NEW k \in Floats PROVE Kept("postgresql", <<k, n>>) = <<"kept", <<"float", n>>>>
  <2>1. EncodeText(<<k, n>>) = <<"float", n>>
    BY DEF EncodeText, Ints, Floats
  <2>2. QED BY <2>1 DEF Kept, PgKeeps
<1>3. ASSUME NEW k \in {"bool", "bytes", "json", "datetime"} PROVE Kept("postgresql", <<k, n>>) = <<"kept", <<k, n>>>>
  <2>1. EncodeText(<<k, n>>) = <<k, n>>
    BY DEF EncodeText, Ints, Floats
  <2>2. QED BY <2>1 DEF Kept, PgKeeps
<1>4. ASSUME n[1] # "null" PROVE Kept("postgresql", <<"string", n>>) = <<"kept", n>>
  <2>1. EncodeText(<<"string", n>>) = n
    BY DEF EncodeText, Ints, Floats
  <2>2. QED BY <1>4, <2>1 DEF Kept, PgKeeps
<1>5. QED BY <1>1, <1>2, <1>3, <1>4

LEMMA CellDecoded ==
  ASSUME NEW type, NEW w
  PROVE  /\ \A p : Decoded("postgresql", type, <<"kept", w>>, p) = DecodeOid(type, w)
         /\ Decoded("mysql", type, <<"kept", w>>, TRUE) = DecodeBinary(MySqlCode(type), w)
         /\ Decoded("mysql", type, <<"kept", w>>, FALSE) = DecodeText(MySqlCode(type), w)
BY DEF Decoded

LEMMA Sent ==
  ASSUME NEW tag \in Tags, NEW n
  PROVE  ToColumn(tag, <<n>>) = IF tag = "uuid" THEN Spelled("uuid", n) ELSE <<tag, n>>
BY DEF ToColumn

LEMMA LowBitsKeep == ASSUME NEW h \in Nat \ {0}, NEW n \in -h..(h - 1) PROVE LowBits(n, h) = n
<1>1. n + h \in Nat /\ 2 * h \in Nat \ {0} /\ n + h < 2 * h
  OBVIOUS
<1>2. ASSUME NEW m \in Nat, NEW k \in Nat \ {0}, m < k PROVE m % k = m
  BY <1>2
<1>3. QED BY <1>1, <1>2 DEF LowBits

\* A value of its own type survives the cast.
LEMMA CastKeeps == ASSUME NEW tag \in Ints, NEW n \in InType(tag) PROVE Cast(tag, n) = n
<1>1. Half8 \in Nat \ {0} /\ Half16 \in Nat \ {0}
  BY DEF Half8, Half16
<1>2. CASE tag = "i8"
  <2>1. n \in -Half8..(Half8 - 1)
    BY <1>2 DEF InType
  <2>2. QED BY <1>1, <1>2, <2>1, LowBitsKeep DEF Cast
<1>3. CASE tag = "i16"
  <2>1. n \in -Half16..(Half16 - 1)
    BY <1>3 DEF InType
  <2>2. QED BY <1>1, <1>3, <2>1, LowBitsKeep DEF Cast
<1>4. CASE tag \in {"i32", "i64"}
  BY <1>4 DEF Cast
<1>5. QED BY <1>2, <1>3, <1>4 DEF Ints

\* Each variant from_row accepts for a tag.
LEMMA IntAccepted == ASSUME NEW tag \in Ints, NEW k \in Ints, NEW n \in InType(tag) PROVE FromColumn(tag, <<k, n>>) = {<<n>>}
<1> DEFINE q == <<k, n>>
<1>1. q[1] = k /\ q[2] = n
  OBVIOUS
<1>2. tag \notin Floats /\ tag \notin {"string", "bool", "datetime", "uuid", "bytes", "json"}
  BY DEF Ints, Floats
<1> HIDE DEF q
<1>3. FromColumn(tag, q) = {<<Cast(tag, q[2])>>}
  BY <1>1, <1>2 DEF FromColumn
<1>4. QED BY <1>1, <1>3, CastKeeps DEF q

LEMMA FloatAccepted == ASSUME NEW tag \in Floats, NEW k \in Floats, NEW n PROVE FromColumn(tag, <<k, n>>) = {<<n>>}
BY DEF FromColumn, Ints, Floats

LEMMA StringAccepted == ASSUME NEW n PROVE FromColumn("string", <<"string", n>>) = {<<n>>}
BY DEF FromColumn, Ints, Floats

LEMMA BoolAccepted ==
  ASSUME NEW n \in {0, 1}
  PROVE  /\ \A k \in {"bool", "i32", "i64"} : FromColumn("bool", <<k, n>>) = {<<n>>}
         /\ FromColumn("bool", <<"i8", n>>) = {}
BY DEF FromColumn, Ints, Floats

LEMMA BytesAccepted == ASSUME NEW n PROVE FromColumn("bytes", <<"bytes", n>>) = {<<n>>}
BY DEF FromColumn, Ints, Floats

LEMMA UuidAccepted == ASSUME NEW n PROVE FromColumn("uuid", <<"string", <<"uuid", n>>>>) = {<<n>>}
BY DEF FromColumn, Ints, Floats

LEMMA TextOrOwnAccepted ==
  ASSUME NEW tag \in {"datetime", "json"}, NEW n
  PROVE  FromColumn(tag, <<tag, n>>) = {<<n>>} /\ FromColumn(tag, <<"string", <<tag, n>>>>) = {<<n>>}
<1>1. CASE tag = "json"
  BY <1>1 DEF FromColumn, Ints, Floats
<1>2. CASE tag = "datetime"
  BY <1>2 DEF FromColumn, Ints, Floats
<1>3. QED BY <1>1, <1>2

LEMMA SqliteTrip ==
  ASSUME NEW tag \in Tags, NEW n, tag = "json" \/ n \in InType(tag), NEW prepared
  PROVE  /\ Returned("sqlite", tag, n, prepared)[1] # "null"
         /\ FromColumn(tag, Returned("sqlite", tag, n, prepared)) = {<<Arrives("sqlite", tag, n)>>}
<1> DEFINE s == ToColumn(tag, <<n>>)
           cell == Kept("sqlite", s)
           q == Returned("sqlite", tag, n, prepared)
<1>1. CASE tag \in Ints
  <2>1. s = <<tag, n>>
    BY <1>1, Sent DEF Spelled, Ints, Floats
  <2>2. cell = <<"integer", n>>
    BY <1>1, <2>1 DEF Kept, Ints, Floats, ToSqlite
  <2>3. q = <<"i64", n>>
    BY <1>1, <2>2 DEF Returned, Decoded, FromSqlite
  <2>4. Arrives("sqlite", tag, n) = n
    BY <1>1 DEF Arrives, Ints, Floats
  <2>5. FromColumn(tag, <<"i64", n>>) = {<<n>>}
    BY <1>1, IntAccepted DEF Ints, Floats
  <2>6. QED BY <1>1, <2>3, <2>4, <2>5 DEF Ints, Floats
<1>2. CASE tag \in Floats
  <2>1. s = <<tag, n>>
    BY <1>2, Sent DEF Spelled, Ints, Floats
  <2>2. cell = <<"real", n>>
    BY <1>2, <2>1 DEF Kept, Ints, Floats, ToSqlite
  <2>3. q = <<"f64", n>>
    BY <1>2, <2>2 DEF Returned, Decoded, FromSqlite
  <2>4. Arrives("sqlite", tag, n) = n
    BY <1>2 DEF Arrives, Ints, Floats
  <2>5. FromColumn(tag, <<"f64", n>>) = {<<n>>}
    BY <1>2, FloatAccepted DEF Ints, Floats
  <2>6. QED BY <1>2, <2>3, <2>4, <2>5 DEF Ints, Floats
<1>3. CASE tag = "string"
  <2>1. s = <<"string", n>>
    BY <1>3, Sent DEF Spelled, Ints, Floats
  <2>2. cell = <<"text", n>>
    BY <1>3, <2>1 DEF Kept, Ints, Floats, ToSqlite
  <2>3. q = <<"string", n>>
    BY <1>3, <2>2 DEF Returned, Decoded, FromSqlite
  <2>4. Arrives("sqlite", tag, n) = n
    BY <1>3 DEF Arrives, Ints, Floats
  <2>5. FromColumn(tag, <<"string", n>>) = {<<n>>}
    BY <1>3, StringAccepted DEF Ints, Floats
  <2>6. QED BY <1>3, <2>3, <2>4, <2>5 DEF Ints, Floats
<1>4. CASE tag = "bool"
  <2>1. s = <<"bool", n>>
    BY <1>4, Sent DEF Spelled, Ints, Floats
  <2>2. cell = <<"integer", n>>
    BY <1>4, <2>1 DEF Kept, Ints, Floats, ToSqlite
  <2>3. q = <<"i64", n>>
    BY <1>4, <2>2 DEF Returned, Decoded, FromSqlite
  <2>4. n \in {0, 1}
    BY <1>4 DEF InType
  <2>5. Arrives("sqlite", tag, n) = n
    BY <1>4 DEF Arrives, Ints, Floats
  <2>6. FromColumn(tag, <<"i64", n>>) = {<<n>>}
    BY <1>4, <2>4, BoolAccepted DEF Ints, Floats
  <2>7. QED BY <1>4, <2>3, <2>5, <2>6 DEF Ints, Floats
<1>5. CASE tag = "bytes"
  <2>1. s = <<"bytes", n>>
    BY <1>5, Sent DEF Spelled, Ints, Floats
  <2>2. cell = <<"blob", n>>
    BY <1>5, <2>1 DEF Kept, Ints, Floats, ToSqlite
  <2>3. q = <<"bytes", n>>
    BY <1>5, <2>2 DEF Returned, Decoded, FromSqlite
  <2>4. Arrives("sqlite", tag, n) = n
    BY <1>5 DEF Arrives, Ints, Floats
  <2>5. FromColumn(tag, <<"bytes", n>>) = {<<n>>}
    BY <1>5, BytesAccepted DEF Ints, Floats
  <2>6. QED BY <1>5, <2>3, <2>4, <2>5 DEF Ints, Floats
<1>6. CASE tag = "uuid"
  <2>1. s = <<"string", <<"uuid", n>>>>
    BY <1>6, Sent DEF Spelled, Ints, Floats
  <2>2. cell = <<"text", <<"uuid", n>>>>
    BY <1>6, <2>1 DEF Kept, Ints, Floats, ToSqlite
  <2>3. q = <<"string", <<"uuid", n>>>>
    BY <1>6, <2>2 DEF Returned, Decoded, FromSqlite
  <2>4. Arrives("sqlite", tag, n) = n
    BY <1>6 DEF Arrives, Ints, Floats
  <2>5. FromColumn(tag, <<"string", <<"uuid", n>>>>) = {<<n>>}
    BY <1>6, UuidAccepted DEF Ints, Floats
  <2>6. QED BY <1>6, <2>3, <2>4, <2>5 DEF Ints, Floats
<1>7. CASE tag = "json"
  <2>1. s = <<"json", n>>
    BY <1>7, Sent DEF Spelled, Ints, Floats
  <2>2. cell = <<"text", <<"json", n>>>>
    BY <1>7, <2>1 DEF Kept, Ints, Floats, ToSqlite
  <2>3. q = <<"string", <<"json", n>>>>
    BY <1>7, <2>2 DEF Returned, Decoded, FromSqlite
  <2>4. Arrives("sqlite", tag, n) = n
    BY <1>7 DEF Arrives, Ints, Floats
  <2>5. FromColumn(tag, <<"string", <<"json", n>>>>) = {<<n>>}
    BY <1>7, TextOrOwnAccepted DEF Ints, Floats
  <2>6. QED BY <1>7, <2>3, <2>4, <2>5 DEF Ints, Floats
<1>8. CASE tag = "datetime"
  <2>1. s = <<"datetime", n>>
    BY <1>8, Sent DEF Spelled, Ints, Floats
  <2>2. cell = <<"text", <<"datetime", 2 * (n \div 2)>>>>
    BY <1>8, <2>1 DEF Kept, Ints, Floats, ToSqlite
  <2>3. q = <<"string", <<"datetime", 2 * (n \div 2)>>>>
    BY <1>8, <2>2 DEF Returned, Decoded, FromSqlite
  <2>4. Arrives("sqlite", tag, n) = 2 * (n \div 2)
    BY <1>8 DEF Arrives, Ints, Floats
  <2>5. FromColumn(tag, <<"string", <<"datetime", 2 * (n \div 2)>>>>) = {<<2 * (n \div 2)>>}
    BY <1>8, TextOrOwnAccepted DEF Ints, Floats
  <2>6. QED BY <1>8, <2>3, <2>4, <2>5 DEF Ints, Floats
<1>9. QED BY <1>1, <1>2, <1>3, <1>4, <1>5, <1>6, <1>7, <1>8 DEF Tags, Ints, Floats

LEMMA PgTrip ==
  ASSUME NEW tag \in Tags, NEW n, tag = "json" \/ n \in InType(tag), NEW prepared
  PROVE  /\ Returned("postgresql", tag, n, prepared)[1] # "null"
         /\ FromColumn(tag, Returned("postgresql", tag, n, prepared)) = {<<Arrives("postgresql", tag, n)>>}
<1> DEFINE s == ToColumn(tag, <<n>>)
           cell == Kept("postgresql", s)
           q == Returned("postgresql", tag, n, prepared)
<1>1. CASE tag \in {"i8", "i16", "i32"}
  <2>1. s = <<tag, n>>
    BY <1>1, Sent DEF Spelled, Ints, Floats
  <2>2. tag \in Ints
    BY <1>1 DEF Ints
  <2>3. Kept("postgresql", <<tag, n>>) = <<"kept", <<"num", n>>>>
    BY <2>2, PgKept
  <2>4. cell = <<"kept", <<"num", n>>>>
    BY <2>1, <2>3
  <2>5. TypeIn(tag, "postgresql") = "INT"
    BY <1>1 DEF TypeIn, AsSql, ColumnType
  <2>6. DecodeOid("INT", <<"num", n>>) = <<"i32", n>>
    BY DEF DecodeOid
  <2>7. q = <<"i32", n>>
    BY <2>4, <2>5, <2>6, CellDecoded DEF Returned
  <2>8. Arrives("postgresql", tag, n) = n
    BY <1>1 DEF Arrives, Ints, Floats
  <2>9. FromColumn(tag, <<"i32", n>>) = {<<n>>}
    BY <1>1, IntAccepted DEF Ints, Floats
  <2>10. QED BY <1>1, <2>7, <2>8, <2>9 DEF Ints, Floats
<1>2. CASE tag = "i64"
  <2>1. s = <<tag, n>>
    BY <1>2, Sent DEF Spelled, Ints, Floats
  <2>2. cell = <<"kept", <<"num", n>>>>
    BY <1>2, <2>1, PgKept DEF Ints, Floats
  <2>3. TypeIn(tag, "postgresql") = "BIGINT"
    BY <1>2 DEF TypeIn, AsSql, ColumnType
  <2>4. DecodeOid("BIGINT", <<"num", n>>) = <<"i64", n>>
    BY DEF DecodeOid
  <2>5. q = <<"i64", n>>
    BY <2>2, <2>3, <2>4, CellDecoded DEF Returned
  <2>6. Arrives("postgresql", tag, n) = n
    BY <1>2 DEF Arrives, Ints, Floats
  <2>7. FromColumn(tag, <<"i64", n>>) = {<<n>>}
    BY <1>2, IntAccepted DEF Ints, Floats
  <2>8. QED BY <1>2, <2>5, <2>6, <2>7 DEF Ints, Floats
<1>3. CASE tag = "f32"
  <2>1. s = <<tag, n>>
    BY <1>3, Sent DEF Spelled, Ints, Floats
  <2>2. cell = <<"kept", <<"float", n>>>>
    BY <1>3, <2>1, PgKept DEF Ints, Floats
  <2>3. TypeIn(tag, "postgresql") = "REAL"
    BY <1>3 DEF TypeIn, AsSql, ColumnType
  <2>4. DecodeOid("REAL", <<"float", n>>) = <<"f32", n>>
    BY DEF DecodeOid
  <2>5. q = <<"f32", n>>
    BY <2>2, <2>3, <2>4, CellDecoded DEF Returned
  <2>6. Arrives("postgresql", tag, n) = n
    BY <1>3 DEF Arrives, Ints, Floats
  <2>7. FromColumn(tag, <<"f32", n>>) = {<<n>>}
    BY <1>3, FloatAccepted DEF Ints, Floats
  <2>8. QED BY <1>3, <2>5, <2>6, <2>7 DEF Ints, Floats
<1>4. CASE tag = "f64"
  <2>1. s = <<tag, n>>
    BY <1>4, Sent DEF Spelled, Ints, Floats
  <2>2. cell = <<"kept", <<"float", n>>>>
    BY <1>4, <2>1, PgKept DEF Ints, Floats
  <2>3. TypeIn(tag, "postgresql") = "DOUBLE PRECISION"
    BY <1>4 DEF TypeIn, AsSql, ColumnType
  <2>4. DecodeOid("DOUBLE PRECISION", <<"float", n>>) = <<"f64", n>>
    BY DEF DecodeOid
  <2>5. q = <<"f64", n>>
    BY <2>2, <2>3, <2>4, CellDecoded DEF Returned
  <2>6. Arrives("postgresql", tag, n) = n
    BY <1>4 DEF Arrives, Ints, Floats
  <2>7. FromColumn(tag, <<"f64", n>>) = {<<n>>}
    BY <1>4, FloatAccepted DEF Ints, Floats
  <2>8. QED BY <1>4, <2>5, <2>6, <2>7 DEF Ints, Floats
<1>5. CASE tag = "string"
  <2>1. s = <<"string", n>>
    BY <1>5, Sent DEF Spelled, Ints, Floats
  <2>2. n[1] # "null"
    BY <1>5 DEF InType, Forms
  <2>3. cell = <<"kept", n>>
    BY <1>5, <2>1, <2>2, PgKept DEF Ints, Floats
  <2>4. TypeIn(tag, "postgresql") = "VARCHAR"
    BY <1>5 DEF TypeIn, AsSql, ColumnType
  <2>5. DecodeOid("VARCHAR", n) = <<"string", n>>
    BY DEF DecodeOid
  <2>6. q = <<"string", n>>
    BY <2>3, <2>4, <2>5, CellDecoded DEF Returned
  <2>7. Arrives("postgresql", tag, n) = n
    BY <1>5 DEF Arrives, Ints, Floats
  <2>8. FromColumn(tag, <<"string", n>>) = {<<n>>}
    BY <1>5, StringAccepted DEF Ints, Floats
  <2>9. QED BY <1>5, <2>6, <2>7, <2>8 DEF Ints, Floats
<1>6. CASE tag = "bool"
  <2>1. s = <<"bool", n>>
    BY <1>6, Sent DEF Spelled, Ints, Floats
  <2>2. cell = <<"kept", <<"bool", n>>>>
    BY <1>6, <2>1, PgKept DEF Ints, Floats
  <2>3. TypeIn(tag, "postgresql") = "BOOLEAN"
    BY <1>6 DEF TypeIn, AsSql, ColumnType
  <2>4. DecodeOid("BOOLEAN", <<"bool", n>>) = <<"bool", n>>
    BY DEF DecodeOid
  <2>5. q = <<"bool", n>>
    BY <2>2, <2>3, <2>4, CellDecoded DEF Returned
  <2>6. n \in {0, 1}
    BY <1>6 DEF InType
  <2>7. Arrives("postgresql", tag, n) = n
    BY <1>6 DEF Arrives, Ints, Floats
  <2>8. FromColumn(tag, <<"bool", n>>) = {<<n>>}
    BY <1>6, <2>6, BoolAccepted DEF Ints, Floats
  <2>9. QED BY <1>6, <2>5, <2>7, <2>8 DEF Ints, Floats
<1>7. CASE tag = "bytes"
  <2>1. s = <<"bytes", n>>
    BY <1>7, Sent DEF Spelled, Ints, Floats
  <2>2. cell = <<"kept", <<"bytes", n>>>>
    BY <1>7, <2>1, PgKept DEF Ints, Floats
  <2>3. TypeIn(tag, "postgresql") = "BYTEA"
    BY <1>7 DEF TypeIn, AsSql, ColumnType
  <2>4. DecodeOid("BYTEA", <<"bytes", n>>) = <<"bytes", n>>
    BY DEF DecodeOid
  <2>5. q = <<"bytes", n>>
    BY <2>2, <2>3, <2>4, CellDecoded DEF Returned
  <2>6. Arrives("postgresql", tag, n) = n
    BY <1>7 DEF Arrives, Ints, Floats
  <2>7. FromColumn(tag, <<"bytes", n>>) = {<<n>>}
    BY <1>7, BytesAccepted DEF Ints, Floats
  <2>8. QED BY <1>7, <2>5, <2>6, <2>7 DEF Ints, Floats
<1>8. CASE tag = "uuid"
  <2>1. s = <<"string", <<"uuid", n>>>>
    BY <1>8, Sent DEF Spelled, Ints, Floats
  <2>2. <<"uuid", n>>[1] # "null"
    OBVIOUS
  <2>3. cell = <<"kept", <<"uuid", n>>>>
    BY <1>8, <2>1, <2>2, PgKept DEF Ints, Floats
  <2>4. TypeIn(tag, "postgresql") = "VARCHAR"
    BY <1>8 DEF TypeIn, AsSql, ColumnType
  <2>5. DecodeOid("VARCHAR", <<"uuid", n>>) = <<"string", <<"uuid", n>>>>
    BY DEF DecodeOid
  <2>6. q = <<"string", <<"uuid", n>>>>
    BY <2>3, <2>4, <2>5, CellDecoded DEF Returned
  <2>7. Arrives("postgresql", tag, n) = n
    BY <1>8 DEF Arrives, Ints, Floats
  <2>8. FromColumn(tag, <<"string", <<"uuid", n>>>>) = {<<n>>}
    BY <1>8, UuidAccepted DEF Ints, Floats
  <2>9. QED BY <1>8, <2>6, <2>7, <2>8 DEF Ints, Floats
<1>9. CASE tag = "json"
  <2>1. s = <<"json", n>>
    BY <1>9, Sent DEF Spelled, Ints, Floats
  <2>2. cell = <<"kept", <<"json", n>>>>
    BY <1>9, <2>1, PgKept DEF Ints, Floats
  <2>3. TypeIn(tag, "postgresql") = "JSONB"
    BY <1>9 DEF TypeIn, AsSql, ColumnType
  <2>4. DecodeOid("JSONB", <<"json", n>>) = <<"json", n>>
    BY DEF DecodeOid
  <2>5. q = <<"json", n>>
    BY <2>2, <2>3, <2>4, CellDecoded DEF Returned
  <2>6. Arrives("postgresql", tag, n) = n
    BY <1>9 DEF Arrives, Ints, Floats
  <2>7. FromColumn(tag, <<"json", n>>) = {<<n>>}
    BY <1>9, TextOrOwnAccepted DEF Ints, Floats
  <2>8. QED BY <1>9, <2>5, <2>6, <2>7 DEF Ints, Floats
<1>10. CASE tag = "datetime"
  <2>1. s = <<"datetime", n>>
    BY <1>10, Sent DEF Spelled, Ints, Floats
  <2>2. cell = <<"kept", <<"datetime", n>>>>
    BY <1>10, <2>1, PgKept DEF Ints, Floats
  <2>3. TypeIn(tag, "postgresql") = "TIMESTAMP"
    BY <1>10 DEF TypeIn, AsSql, ColumnType
  <2>4. DecodeOid("TIMESTAMP", <<"datetime", n>>) = <<"datetime", n>>
    BY DEF DecodeOid
  <2>5. q = <<"datetime", n>>
    BY <2>2, <2>3, <2>4, CellDecoded DEF Returned
  <2>6. Arrives("postgresql", tag, n) = n
    BY <1>10 DEF Arrives, Ints, Floats
  <2>7. FromColumn(tag, <<"datetime", n>>) = {<<n>>}
    BY <1>10, TextOrOwnAccepted DEF Ints, Floats
  <2>8. QED BY <1>10, <2>5, <2>6, <2>7 DEF Ints, Floats
<1>11. QED BY <1>1, <1>2, <1>3, <1>4, <1>5, <1>6, <1>7, <1>8, <1>9, <1>10 DEF Tags, Ints, Floats

LEMMA MySqlTextTrip ==
  ASSUME NEW tag \in Tags, NEW n, tag = "json" \/ n \in InType(tag)
  PROVE  /\ Returned("mysql", tag, n, FALSE)[1] # "null"
         /\ FromColumn(tag, Returned("mysql", tag, n, FALSE)) = {<<Arrives("mysql", tag, n)>>}
<1> DEFINE s == ToColumn(tag, <<n>>)
           cell == Kept("mysql", s)
           q == Returned("mysql", tag, n, FALSE)
<1> SUFFICES q[1] # "null" /\ FromColumn(tag, q) = {<<Arrives("mysql", tag, n)>>}
  BY Zenon
<1> HIDE DEF q
<1>1. CASE tag \in {"i8", "i16", "i32"}
  <2>1. s = <<tag, n>>
    BY <1>1, Sent DEF Spelled, Ints, Floats
  <2>2. cell = <<"kept", n>>
    BY <1>1, <2>1, MySqlKept DEF Ints, Floats
  <2>3. TypeIn(tag, "mysql") = "INT"
    BY <1>1 DEF TypeIn, AsSql, ColumnType
  <2>4. DecodeText("LONG", n) = <<"i32", n>>
    BY DEF DecodeText
  <2>5. MySqlCode("INT") = "LONG"
    BY DEF MySqlCode
  <2>6. q = <<"i32", n>>
    BY <2>2, <2>3, <2>4, <2>5, CellDecoded DEF Returned, q
  <2>7. Arrives("mysql", tag, n) = n
    BY <1>1 DEF Arrives, Ints, Floats
  <2>8. FromColumn(tag, <<"i32", n>>) = {<<n>>}
    BY <1>1, IntAccepted DEF Ints, Floats
  <2>9. QED BY <1>1, <2>6, <2>7, <2>8 DEF Ints, Floats
<1>2. CASE tag = "i64"
  <2>1. s = <<tag, n>>
    BY <1>2, Sent DEF Spelled, Ints, Floats
  <2>2. cell = <<"kept", n>>
    BY <1>2, <2>1, MySqlKept DEF Ints, Floats
  <2>3. TypeIn(tag, "mysql") = "BIGINT"
    BY <1>2 DEF TypeIn, AsSql, ColumnType
  <2>4. DecodeText("LONGLONG", n) = <<"i64", n>>
    BY DEF DecodeText
  <2>5. MySqlCode("BIGINT") = "LONGLONG"
    BY DEF MySqlCode
  <2>6. q = <<"i64", n>>
    BY <2>2, <2>3, <2>4, <2>5, CellDecoded DEF Returned, q
  <2>7. Arrives("mysql", tag, n) = n
    BY <1>2 DEF Arrives, Ints, Floats
  <2>8. FromColumn(tag, <<"i64", n>>) = {<<n>>}
    BY <1>2, IntAccepted DEF Ints, Floats
  <2>9. QED BY <1>2, <2>6, <2>7, <2>8 DEF Ints, Floats
<1>3. CASE tag = "f32"
  <2>1. s = <<tag, n>>
    BY <1>3, Sent DEF Spelled, Ints, Floats
  <2>2. cell = <<"kept", n>>
    BY <1>3, <2>1, MySqlKept DEF Ints, Floats
  <2>3. TypeIn(tag, "mysql") = "FLOAT"
    BY <1>3 DEF TypeIn, AsSql, ColumnType
  <2>4. DecodeText("FLOAT", n) = <<"f32", n>>
    BY DEF DecodeText
  <2>5. MySqlCode("FLOAT") = "FLOAT"
    BY DEF MySqlCode
  <2>6. q = <<"f32", n>>
    BY <2>2, <2>3, <2>4, <2>5, CellDecoded DEF Returned, q
  <2>7. Arrives("mysql", tag, n) = n
    BY <1>3 DEF Arrives, Ints, Floats
  <2>8. FromColumn(tag, <<"f32", n>>) = {<<n>>}
    BY <1>3, FloatAccepted DEF Ints, Floats
  <2>9. QED BY <1>3, <2>6, <2>7, <2>8 DEF Ints, Floats
<1>4. CASE tag = "f64"
  <2>1. s = <<tag, n>>
    BY <1>4, Sent DEF Spelled, Ints, Floats
  <2>2. cell = <<"kept", n>>
    BY <1>4, <2>1, MySqlKept DEF Ints, Floats
  <2>3. TypeIn(tag, "mysql") = "DOUBLE"
    BY <1>4 DEF TypeIn, AsSql, ColumnType
  <2>4. DecodeText("DOUBLE", n) = <<"f64", n>>
    BY DEF DecodeText
  <2>5. MySqlCode("DOUBLE") = "DOUBLE"
    BY DEF MySqlCode
  <2>6. q = <<"f64", n>>
    BY <2>2, <2>3, <2>4, <2>5, CellDecoded DEF Returned, q
  <2>7. Arrives("mysql", tag, n) = n
    BY <1>4 DEF Arrives, Ints, Floats
  <2>8. FromColumn(tag, <<"f64", n>>) = {<<n>>}
    BY <1>4, FloatAccepted DEF Ints, Floats
  <2>9. QED BY <1>4, <2>6, <2>7, <2>8 DEF Ints, Floats
<1>5. CASE tag = "string"
  <2>1. s = <<"string", n>>
    BY <1>5, Sent DEF Spelled, Ints, Floats
  <2>2. cell = <<"kept", n>>
    BY <1>5, <2>1, MySqlKept DEF Ints, Floats
  <2>3. TypeIn(tag, "mysql") = "VARCHAR"
    BY <1>5 DEF TypeIn, AsSql, ColumnType
  <2>4. DecodeText("VAR_STRING", n) = <<"string", n>>
    BY DEF DecodeText
  <2>5. MySqlCode("VARCHAR") = "VAR_STRING"
    BY DEF MySqlCode
  <2>6. q = <<"string", n>>
    BY <2>2, <2>3, <2>4, <2>5, CellDecoded DEF Returned, q
  <2>7. Arrives("mysql", tag, n) = n
    BY <1>5 DEF Arrives, Ints, Floats
  <2>8. FromColumn(tag, <<"string", n>>) = {<<n>>}
    BY <1>5, StringAccepted DEF Ints, Floats
  <2>9. QED BY <1>5, <2>6, <2>7, <2>8 DEF Ints, Floats
<1>6. CASE tag = "bool"
  <2>1. s = <<"bool", n>>
    BY <1>6, Sent DEF Spelled, Ints, Floats
  <2>2. cell = <<"kept", n>>
    BY <1>6, <2>1, MySqlKept DEF Ints, Floats
  <2>3. TypeIn(tag, "mysql") = "TINYINT"
    BY <1>6 DEF TypeIn, AsSql, ColumnType
  <2>4. DecodeText("TINY", n) = <<"i32", n>>
    BY DEF DecodeText
  <2>5. MySqlCode("TINYINT") = "TINY"
    BY DEF MySqlCode
  <2>6. q = <<"i32", n>>
    BY <2>2, <2>3, <2>4, <2>5, CellDecoded DEF Returned, q
  <2>7. n \in {0, 1}
    BY <1>6 DEF InType
  <2>8. Arrives("mysql", tag, n) = n
    BY <1>6 DEF Arrives, Ints, Floats
  <2>9. FromColumn(tag, <<"i32", n>>) = {<<n>>}
    BY <1>6, <2>7, BoolAccepted DEF Ints, Floats
  <2>10. QED BY <1>6, <2>6, <2>8, <2>9 DEF Ints, Floats
<1>7. CASE tag = "bytes"
  <2>1. s = <<"bytes", n>>
    BY <1>7, Sent DEF Spelled, Ints, Floats
  <2>2. cell = <<"kept", n>>
    BY <1>7, <2>1, MySqlKept DEF Ints, Floats
  <2>3. TypeIn(tag, "mysql") = "BLOB"
    BY <1>7 DEF TypeIn, AsSql, ColumnType
  <2>4. DecodeText("BLOB", n) = <<"bytes", n>>
    BY DEF DecodeText
  <2>5. MySqlCode("BLOB") = "BLOB"
    BY DEF MySqlCode
  <2>6. q = <<"bytes", n>>
    BY <2>2, <2>3, <2>4, <2>5, CellDecoded DEF Returned, q
  <2>7. Arrives("mysql", tag, n) = n
    BY <1>7 DEF Arrives, Ints, Floats
  <2>8. FromColumn(tag, <<"bytes", n>>) = {<<n>>}
    BY <1>7, BytesAccepted DEF Ints, Floats
  <2>9. QED BY <1>7, <2>6, <2>7, <2>8 DEF Ints, Floats
<1>8. CASE tag = "uuid"
  <2>1. s = <<"string", <<"uuid", n>>>>
    BY <1>8, Sent DEF Spelled, Ints, Floats
  <2>2. cell = <<"kept", <<"uuid", n>>>>
    <3>1. \A x : Kept("mysql", <<"string", x>>) = <<"kept", x>>
      BY MySqlKept
    <3>2. QED BY <2>1, <3>1
  <2>3. TypeIn(tag, "mysql") = "VARCHAR"
    BY <1>8 DEF TypeIn, AsSql, ColumnType
  <2>4. DecodeText("VAR_STRING", <<"uuid", n>>) = <<"string", <<"uuid", n>>>>
    BY DEF DecodeText
  <2>5. MySqlCode("VARCHAR") = "VAR_STRING"
    BY DEF MySqlCode
  <2>6. q = <<"string", <<"uuid", n>>>>
    BY <2>2, <2>3, <2>4, <2>5, CellDecoded DEF Returned, q
  <2>7. Arrives("mysql", tag, n) = n
    BY <1>8 DEF Arrives, Ints, Floats
  <2>8. FromColumn(tag, <<"string", <<"uuid", n>>>>) = {<<n>>}
    BY <1>8, UuidAccepted DEF Ints, Floats
  <2>9. QED BY <1>8, <2>6, <2>7, <2>8 DEF Ints, Floats
<1>9. CASE tag = "json"
  <2>1. s = <<"json", n>>
    BY <1>9, Sent DEF Spelled, Ints, Floats
  <2>2. cell = <<"kept", <<"json", n>>>>
    BY <1>9, <2>1, MySqlKept DEF Ints, Floats
  <2>3. TypeIn(tag, "mysql") = "JSON"
    BY <1>9 DEF TypeIn, AsSql, ColumnType
  <2>4. DecodeText("JSON", <<"json", n>>) = <<"string", <<"json", n>>>>
    BY DEF DecodeText
  <2>5. MySqlCode("JSON") = "JSON"
    BY DEF MySqlCode
  <2>6. q = <<"string", <<"json", n>>>>
    BY <2>2, <2>3, <2>4, <2>5, CellDecoded DEF Returned, q
  <2>7. Arrives("mysql", tag, n) = n
    BY <1>9 DEF Arrives, Ints, Floats
  <2>8. FromColumn(tag, <<"string", <<"json", n>>>>) = {<<n>>}
    BY <1>9, TextOrOwnAccepted DEF Ints, Floats
  <2>9. QED BY <1>9, <2>6, <2>7, <2>8 DEF Ints, Floats
<1>10. CASE tag = "datetime"
  <2>1. s = <<"datetime", n>>
    BY <1>10, Sent DEF Spelled, Ints, Floats
  <2>2. cell = <<"kept", 2 * ((n + 1) \div 2)>>
    BY <1>10, <2>1, MySqlKept DEF Ints, Floats
  <2>3. TypeIn(tag, "mysql") = "DATETIME"
    BY <1>10 DEF TypeIn, AsSql, ColumnType
  <2>4. DecodeText("DATETIME", 2 * ((n + 1) \div 2)) = <<"datetime", 2 * ((n + 1) \div 2)>>
    BY DEF DecodeText
  <2>5. MySqlCode("DATETIME") = "DATETIME"
    BY DEF MySqlCode
  <2>6. q = <<"datetime", 2 * ((n + 1) \div 2)>>
    BY <2>2, <2>3, <2>4, <2>5, CellDecoded DEF Returned, q
  <2>7. Arrives("mysql", tag, n) = 2 * ((n + 1) \div 2)
    BY <1>10 DEF Arrives, Ints, Floats
  <2>8. FromColumn(tag, <<"datetime", 2 * ((n + 1) \div 2)>>) = {<<2 * ((n + 1) \div 2)>>}
    BY <1>10, TextOrOwnAccepted DEF Ints, Floats
  <2>9. QED BY <1>10, <2>6, <2>7, <2>8 DEF Ints, Floats
<1>11. QED BY <1>1, <1>2, <1>3, <1>4, <1>5, <1>6, <1>7, <1>8, <1>9, <1>10 DEF Tags, Ints, Floats

LEMMA MySqlBinaryTrip ==
  ASSUME NEW tag \in Tags, NEW n, tag = "json" \/ n \in InType(tag)
  PROVE  /\ Returned("mysql", tag, n, TRUE)[1] # "null"
         /\ tag # "bool" => FromColumn(tag, Returned("mysql", tag, n, TRUE)) = {<<Arrives("mysql", tag, n)>>}
         /\ tag = "bool" => FromColumn(tag, Returned("mysql", tag, n, TRUE)) = {}
<1> DEFINE s == ToColumn(tag, <<n>>)
           cell == Kept("mysql", s)
           q == Returned("mysql", tag, n, TRUE)
<1> SUFFICES q[1] # "null" /\ (tag # "bool" => FromColumn(tag, q) = {<<Arrives("mysql", tag, n)>>}) /\ (tag = "bool" => FromColumn(tag, q) = {})
  BY Zenon
<1> HIDE DEF q
<1>1. CASE tag \in {"i8", "i16", "i32"}
  <2>1. s = <<tag, n>>
    BY <1>1, Sent DEF Spelled, Ints, Floats
  <2>2. cell = <<"kept", n>>
    BY <1>1, <2>1, MySqlKept DEF Ints, Floats
  <2>3. TypeIn(tag, "mysql") = "INT"
    BY <1>1 DEF TypeIn, AsSql, ColumnType
  <2>4. DecodeBinary("LONG", n) = <<"i32", n>>
    BY DEF DecodeBinary
  <2>5. MySqlCode("INT") = "LONG"
    BY DEF MySqlCode
  <2>6. q = <<"i32", n>>
    BY <2>2, <2>3, <2>4, <2>5, CellDecoded DEF Returned, q
  <2>7. Arrives("mysql", tag, n) = n
    BY <1>1 DEF Arrives, Ints, Floats
  <2>8. FromColumn(tag, <<"i32", n>>) = {<<n>>}
    BY <1>1, IntAccepted DEF Ints, Floats
  <2>9. QED BY <1>1, <2>6, <2>7, <2>8 DEF Ints, Floats
<1>2. CASE tag = "i64"
  <2>1. s = <<tag, n>>
    BY <1>2, Sent DEF Spelled, Ints, Floats
  <2>2. cell = <<"kept", n>>
    BY <1>2, <2>1, MySqlKept DEF Ints, Floats
  <2>3. TypeIn(tag, "mysql") = "BIGINT"
    BY <1>2 DEF TypeIn, AsSql, ColumnType
  <2>4. DecodeBinary("LONGLONG", n) = <<"i64", n>>
    BY DEF DecodeBinary
  <2>5. MySqlCode("BIGINT") = "LONGLONG"
    BY DEF MySqlCode
  <2>6. q = <<"i64", n>>
    BY <2>2, <2>3, <2>4, <2>5, CellDecoded DEF Returned, q
  <2>7. Arrives("mysql", tag, n) = n
    BY <1>2 DEF Arrives, Ints, Floats
  <2>8. FromColumn(tag, <<"i64", n>>) = {<<n>>}
    BY <1>2, IntAccepted DEF Ints, Floats
  <2>9. QED BY <1>2, <2>6, <2>7, <2>8 DEF Ints, Floats
<1>3. CASE tag = "f32"
  <2>1. s = <<tag, n>>
    BY <1>3, Sent DEF Spelled, Ints, Floats
  <2>2. cell = <<"kept", n>>
    BY <1>3, <2>1, MySqlKept DEF Ints, Floats
  <2>3. TypeIn(tag, "mysql") = "FLOAT"
    BY <1>3 DEF TypeIn, AsSql, ColumnType
  <2>4. DecodeBinary("FLOAT", n) = <<"f32", n>>
    BY DEF DecodeBinary
  <2>5. MySqlCode("FLOAT") = "FLOAT"
    BY DEF MySqlCode
  <2>6. q = <<"f32", n>>
    BY <2>2, <2>3, <2>4, <2>5, CellDecoded DEF Returned, q
  <2>7. Arrives("mysql", tag, n) = n
    BY <1>3 DEF Arrives, Ints, Floats
  <2>8. FromColumn(tag, <<"f32", n>>) = {<<n>>}
    BY <1>3, FloatAccepted DEF Ints, Floats
  <2>9. QED BY <1>3, <2>6, <2>7, <2>8 DEF Ints, Floats
<1>4. CASE tag = "f64"
  <2>1. s = <<tag, n>>
    BY <1>4, Sent DEF Spelled, Ints, Floats
  <2>2. cell = <<"kept", n>>
    BY <1>4, <2>1, MySqlKept DEF Ints, Floats
  <2>3. TypeIn(tag, "mysql") = "DOUBLE"
    BY <1>4 DEF TypeIn, AsSql, ColumnType
  <2>4. DecodeBinary("DOUBLE", n) = <<"f64", n>>
    BY DEF DecodeBinary
  <2>5. MySqlCode("DOUBLE") = "DOUBLE"
    BY DEF MySqlCode
  <2>6. q = <<"f64", n>>
    BY <2>2, <2>3, <2>4, <2>5, CellDecoded DEF Returned, q
  <2>7. Arrives("mysql", tag, n) = n
    BY <1>4 DEF Arrives, Ints, Floats
  <2>8. FromColumn(tag, <<"f64", n>>) = {<<n>>}
    BY <1>4, FloatAccepted DEF Ints, Floats
  <2>9. QED BY <1>4, <2>6, <2>7, <2>8 DEF Ints, Floats
<1>5. CASE tag = "string"
  <2>1. s = <<"string", n>>
    BY <1>5, Sent DEF Spelled, Ints, Floats
  <2>2. cell = <<"kept", n>>
    BY <1>5, <2>1, MySqlKept DEF Ints, Floats
  <2>3. TypeIn(tag, "mysql") = "VARCHAR"
    BY <1>5 DEF TypeIn, AsSql, ColumnType
  <2>4. DecodeBinary("VAR_STRING", n) = <<"string", n>>
    BY DEF DecodeBinary
  <2>5. MySqlCode("VARCHAR") = "VAR_STRING"
    BY DEF MySqlCode
  <2>6. q = <<"string", n>>
    BY <2>2, <2>3, <2>4, <2>5, CellDecoded DEF Returned, q
  <2>7. Arrives("mysql", tag, n) = n
    BY <1>5 DEF Arrives, Ints, Floats
  <2>8. FromColumn(tag, <<"string", n>>) = {<<n>>}
    BY <1>5, StringAccepted DEF Ints, Floats
  <2>9. QED BY <1>5, <2>6, <2>7, <2>8 DEF Ints, Floats
<1>6. CASE tag = "bool"
  <2>1. s = <<"bool", n>>
    BY <1>6, Sent DEF Spelled, Ints, Floats
  <2>2. cell = <<"kept", n>>
    BY <1>6, <2>1, MySqlKept DEF Ints, Floats
  <2>3. TypeIn(tag, "mysql") = "TINYINT"
    BY <1>6 DEF TypeIn, AsSql, ColumnType
  <2>4. DecodeBinary("TINY", n) = <<"i8", n>>
    BY DEF DecodeBinary
  <2>5. MySqlCode("TINYINT") = "TINY"
    BY DEF MySqlCode
  <2>6. q = <<"i8", n>>
    BY <2>2, <2>3, <2>4, <2>5, CellDecoded DEF Returned, q
  <2>7. n \in {0, 1}
    BY <1>6 DEF InType
  <2>8. QED BY <1>6, <2>6, <2>7, BoolAccepted DEF Ints, Floats
<1>7. CASE tag = "bytes"
  <2>1. s = <<"bytes", n>>
    BY <1>7, Sent DEF Spelled, Ints, Floats
  <2>2. cell = <<"kept", n>>
    BY <1>7, <2>1, MySqlKept DEF Ints, Floats
  <2>3. TypeIn(tag, "mysql") = "BLOB"
    BY <1>7 DEF TypeIn, AsSql, ColumnType
  <2>4. DecodeBinary("BLOB", n) = <<"bytes", n>>
    BY DEF DecodeBinary
  <2>5. MySqlCode("BLOB") = "BLOB"
    BY DEF MySqlCode
  <2>6. q = <<"bytes", n>>
    BY <2>2, <2>3, <2>4, <2>5, CellDecoded DEF Returned, q
  <2>7. Arrives("mysql", tag, n) = n
    BY <1>7 DEF Arrives, Ints, Floats
  <2>8. FromColumn(tag, <<"bytes", n>>) = {<<n>>}
    BY <1>7, BytesAccepted DEF Ints, Floats
  <2>9. QED BY <1>7, <2>6, <2>7, <2>8 DEF Ints, Floats
<1>8. CASE tag = "uuid"
  <2>1. s = <<"string", <<"uuid", n>>>>
    BY <1>8, Sent DEF Spelled, Ints, Floats
  <2>2. cell = <<"kept", <<"uuid", n>>>>
    <3>1. \A x : Kept("mysql", <<"string", x>>) = <<"kept", x>>
      BY MySqlKept
    <3>2. QED BY <2>1, <3>1
  <2>3. TypeIn(tag, "mysql") = "VARCHAR"
    BY <1>8 DEF TypeIn, AsSql, ColumnType
  <2>4. DecodeBinary("VAR_STRING", <<"uuid", n>>) = <<"string", <<"uuid", n>>>>
    BY DEF DecodeBinary
  <2>5. MySqlCode("VARCHAR") = "VAR_STRING"
    BY DEF MySqlCode
  <2>6. q = <<"string", <<"uuid", n>>>>
    BY <2>2, <2>3, <2>4, <2>5, CellDecoded DEF Returned, q
  <2>7. Arrives("mysql", tag, n) = n
    BY <1>8 DEF Arrives, Ints, Floats
  <2>8. FromColumn(tag, <<"string", <<"uuid", n>>>>) = {<<n>>}
    BY <1>8, UuidAccepted DEF Ints, Floats
  <2>9. QED BY <1>8, <2>6, <2>7, <2>8 DEF Ints, Floats
<1>9. CASE tag = "json"
  <2>1. s = <<"json", n>>
    BY <1>9, Sent DEF Spelled, Ints, Floats
  <2>2. cell = <<"kept", <<"json", n>>>>
    BY <1>9, <2>1, MySqlKept DEF Ints, Floats
  <2>3. TypeIn(tag, "mysql") = "JSON"
    BY <1>9 DEF TypeIn, AsSql, ColumnType
  <2>4. DecodeBinary("JSON", <<"json", n>>) = <<"string", <<"json", n>>>>
    BY DEF DecodeBinary
  <2>5. MySqlCode("JSON") = "JSON"
    BY DEF MySqlCode
  <2>6. q = <<"string", <<"json", n>>>>
    BY <2>2, <2>3, <2>4, <2>5, CellDecoded DEF Returned, q
  <2>7. Arrives("mysql", tag, n) = n
    BY <1>9 DEF Arrives, Ints, Floats
  <2>8. FromColumn(tag, <<"string", <<"json", n>>>>) = {<<n>>}
    BY <1>9, TextOrOwnAccepted DEF Ints, Floats
  <2>9. QED BY <1>9, <2>6, <2>7, <2>8 DEF Ints, Floats
<1>10. CASE tag = "datetime"
  <2>1. s = <<"datetime", n>>
    BY <1>10, Sent DEF Spelled, Ints, Floats
  <2>2. cell = <<"kept", 2 * ((n + 1) \div 2)>>
    BY <1>10, <2>1, MySqlKept DEF Ints, Floats
  <2>3. TypeIn(tag, "mysql") = "DATETIME"
    BY <1>10 DEF TypeIn, AsSql, ColumnType
  <2>4. DecodeBinary("DATETIME", 2 * ((n + 1) \div 2)) = <<"datetime", 2 * ((n + 1) \div 2)>>
    BY DEF DecodeBinary
  <2>5. MySqlCode("DATETIME") = "DATETIME"
    BY DEF MySqlCode
  <2>6. q = <<"datetime", 2 * ((n + 1) \div 2)>>
    BY <2>2, <2>3, <2>4, <2>5, CellDecoded DEF Returned, q
  <2>7. Arrives("mysql", tag, n) = 2 * ((n + 1) \div 2)
    BY <1>10 DEF Arrives, Ints, Floats
  <2>8. FromColumn(tag, <<"datetime", 2 * ((n + 1) \div 2)>>) = {<<2 * ((n + 1) \div 2)>>}
    BY <1>10, TextOrOwnAccepted DEF Ints, Floats
  <2>9. QED BY <1>10, <2>6, <2>7, <2>8 DEF Ints, Floats
<1>11. QED BY <1>1, <1>2, <1>3, <1>4, <1>5, <1>6, <1>7, <1>8, <1>9, <1>10 DEF Tags, Ints, Floats

\* A time comes back less than a second from the one sent.
ArrivesNear(d, n) == Arrives(d, "datetime", n) \in Int /\ Arrives(d, "datetime", n) - n \in -1..1

LEMMA TimesArrive == ASSUME NEW d, NEW n \in Int PROVE ArrivesNear(d, n)
BY DEF ArrivesNear, Arrives

\* What a field of a tag may hold, as the drivers need it.
IsValue(tag, v) == v = <<>> \/ (v = <<v[1]>> /\ (tag = "json" \/ v[1] \in InType(tag)))

\* What comes back for a field that held v.
Agreeing(tag, u, v) == IF tag = "datetime" THEN Near(u, v) /\ IsOption(u, Int) ELSE u = v

LEMMA NoneTrip ==
  ASSUME NEW d \in Dialects, NEW tag, NEW type, NEW prepared
  PROVE  Decoded(d, type, Kept(d, ToColumn(tag, <<>>)), prepared) = Null
<1>1. ToColumn(tag, <<>>) = Null
  BY DEF ToColumn
<1>2. Null[1] = "null" /\ Null[2] = 0
  BY DEF Null
<1>3. Kept(d, Null) = Null
  <2>1. CASE d = "sqlite"
    <3>1. ToSqlite(Null) = Null
      BY <1>2 DEF ToSqlite, Ints, Floats
    <3>2. QED BY <2>1, <3>1 DEF Kept
  <2>2. CASE d = "mysql"
    <3>1. MySqlType(Null) = "NULL"
      BY <1>2 DEF MySqlType
    <3>2. BinaryParam(Null)[1] = "NULL"
      BY <3>1 DEF BinaryParam
    <3>3. MySqlKeeps(BinaryParam(Null)) = Null
      BY <3>2 DEF MySqlKeeps
    <3>4. QED BY <2>2, <3>3 DEF Kept
  <2>3. CASE d = "postgresql"
    <3>1. EncodeText(Null) = Null
      BY <1>2 DEF EncodeText, Ints, Floats
    <3>2. PgKeeps(Null) = Null
      BY <1>2 DEF PgKeeps
    <3>3. QED BY <2>3, <3>1, <3>2 DEF Kept
  <2>4. QED BY <2>1, <2>2, <2>3 DEF Dialects
<1>4. QED BY <1>1, <1>2, <1>3 DEF Decoded

LEMMA ValueTrip ==
  ASSUME NEW d \in Dialects, NEW tag \in Tags, NEW n, tag = "json" \/ n \in InType(tag), NEW prepared \in BOOLEAN
  PROVE  LET q == Returned(d, tag, n, prepared)
         IN  /\ q[1] # "null"
             /\ ~(d = "mysql" /\ tag = "bool" /\ prepared) => FromColumn(tag, q) = {<<Arrives(d, tag, n)>>}
             /\ (d = "mysql" /\ tag = "bool" /\ prepared) => FromColumn(tag, q) = {}
<1>1. CASE d = "sqlite"
  BY <1>1, SqliteTrip
<1>2. CASE d = "postgresql"
  BY <1>2, PgTrip
<1>3. CASE d = "mysql" /\ prepared
  <2>1. prepared = TRUE
    BY <1>3
  <2>2. QED BY <1>3, <2>1, MySqlBinaryTrip
<1>4. CASE d = "mysql" /\ ~prepared
  <2>1. prepared = FALSE
    BY <1>4
  <2>2. QED BY <1>4, <2>1, MySqlTextTrip
<1>5. QED BY <1>1, <1>2, <1>3, <1>4 DEF Dialects

LEMMA FieldTrip ==
  ASSUME NEW d \in Dialects, NEW tag \in Tags, NEW opt \in BOOLEAN, NEW v, IsValue(tag, v), v = <<>> => opt,
         NEW prepared \in BOOLEAN
  PROVE  LET q == Decoded(d, TypeIn(tag, d), Kept(d, ToColumn(tag, v)), prepared)
             got == FromField(tag, opt, q)
         IN  /\ \A u \in got : Agreeing(tag, u, v) /\ (u = <<>> => opt)
             /\ got # {} \/ (d = "mysql" /\ tag = "bool" /\ prepared)
<1> DEFINE q == Decoded(d, TypeIn(tag, d), Kept(d, ToColumn(tag, v)), prepared)
           got == FromField(tag, opt, q)
<1> SUFFICES /\ \A u \in got : Agreeing(tag, u, v) /\ (u = <<>> => opt)
             /\ got # {} \/ (d = "mysql" /\ tag = "bool" /\ prepared)
  OBVIOUS
<1>1. CASE v = <<>>
  <2>1. q = Null
    BY <1>1, NoneTrip
  <2>2. got = {<<>>}
    BY <1>1, <2>1 DEF FromField, Null
  <2>3. Agreeing(tag, <<>>, <<>>)
    BY DEF Agreeing, Near, IsOption
  <2>4. QED BY <1>1, <2>2, <2>3
<1>2. CASE v # <<>>
  <2> DEFINE n == v[1]
  <2>1. v = <<n>> /\ (tag = "json" \/ n \in InType(tag))
    BY <1>2 DEF IsValue
  <2> HIDE DEF n
  <2>2. q = Returned(d, tag, n, prepared)
    BY <2>1 DEF Returned
  <2>3. q[1] # "null"
    BY <2>1, <2>2, ValueTrip
  <2>4. got = FromColumn(tag, q)
    BY <2>3 DEF FromField
  <2>5. CASE d = "mysql" /\ tag = "bool" /\ prepared
    <3>1. got = {}
      BY <2>1, <2>2, <2>4, <2>5, ValueTrip
    <3>2. QED BY <2>5, <3>1
  <2>6. CASE ~(d = "mysql" /\ tag = "bool" /\ prepared)
    <3>1. got = {<<Arrives(d, tag, n)>>}
      BY <2>1, <2>2, <2>4, <2>6, ValueTrip
    <3>2. Agreeing(tag, <<Arrives(d, tag, n)>>, v)
      <4>1. CASE tag = "datetime"
        <5>1. n \in Int
          BY <4>1, <2>1 DEF InType
        <5>2. ArrivesNear(d, n)
          BY <5>1, TimesArrive
        <5> DEFINE a == Arrives(d, "datetime", n)
        <5>3. a \in Int /\ a - n \in -1..1
          BY <5>2 DEF ArrivesNear
        <5> HIDE DEF a
        <5>4. Agreeing("datetime", <<a>>, <<n>>)
          BY <5>1, <5>3 DEF Agreeing, Near, IsOption
        <5>5. QED BY <4>1, <2>1, <5>4 DEF a
      <4>2. CASE tag # "datetime"
        BY <4>2, <2>1 DEF Agreeing, Arrives
      <4>3. QED BY <4>1, <4>2
    <3>3. <<Arrives(d, tag, n)>> # <<>>
      OBVIOUS
    <3>4. QED BY <3>1, <3>2, <3>3
  <2>7. QED BY <2>5, <2>6
<1>3. QED BY <1>1, <1>2

\* A Timestamps struct: None on SQLite, which returns text.
LEMMA StampTrip ==
  ASSUME NEW d \in Dialects, NEW v, IsOption(v, Int), NEW prepared \in BOOLEAN
  PROVE  LET q == Decoded(d, TypeIn("datetime", d), Kept(d, ToColumn("datetime", v)), prepared)
         IN  /\ \A u \in FromStamp(q) : IsOption(u, Int) /\ (Near(u, v) \/ d = "sqlite")
             /\ FromStamp(q) # {}
<1> DEFINE q == Decoded(d, TypeIn("datetime", d), Kept(d, ToColumn("datetime", v)), prepared)
<1> SUFFICES /\ \A u \in FromStamp(q) : IsOption(u, Int) /\ (Near(u, v) \/ d = "sqlite")
             /\ FromStamp(q) # {}
  OBVIOUS
<1>1. CASE v = <<>>
  <2>1. q = Null
    BY <1>1, NoneTrip
  <2>2. FromStamp(q) = {<<>>}
    BY <2>1 DEF FromStamp, Null
  <2>3. QED BY <1>1, <2>2 DEF Near, IsOption
<1>2. CASE v # <<>>
  <2> DEFINE n == v[1]
  <2>1. v = <<n>> /\ n \in Int
    BY <1>2 DEF IsOption
  <2> HIDE DEF n
  <2>2. ToColumn("datetime", v) = <<"datetime", n>>
    BY <2>1, Sent DEF Tags
  <2>3. CASE d = "sqlite"
    <3> DEFINE w == <<"datetime", 2 * (n \div 2)>>
    <3>1. Kept(d, <<"datetime", n>>) = <<"text", w>>
      BY <2>3 DEF Kept, ToSqlite, Ints, Floats
    <3> HIDE DEF w
    <3>2. q = <<"string", w>>
      BY <2>2, <2>3, <3>1 DEF Decoded, FromSqlite
    <3>3. FromStamp(q) = {<<>>}
      BY <3>2 DEF FromStamp
    <3>4. QED BY <2>3, <3>3 DEF IsOption
  <2>4. CASE d = "postgresql"
    <3>1. q = <<"datetime", n>>
      <4>1. Kept(d, <<"datetime", n>>) = <<"kept", <<"datetime", n>>>>
        BY <2>4, PgKept
      <4>2. TypeIn("datetime", d) = "TIMESTAMP"
        BY <2>4 DEF TypeIn, AsSql, ColumnType, Ints, Floats
      <4>3. DecodeOid("TIMESTAMP", <<"datetime", n>>) = <<"datetime", n>>
        BY DEF DecodeOid
      <4> DEFINE w == <<"datetime", n>>
      <4>4. Decoded("postgresql", "TIMESTAMP", <<"kept", w>>, prepared) = DecodeOid("TIMESTAMP", w)
        BY CellDecoded
      <4>5. QED BY <2>2, <2>4, <4>1, <4>2, <4>3, <4>4
    <3>2. FromStamp(q) = {<<n>>}
      BY <3>1 DEF FromStamp
    <3>3. IsOption(<<n>>, Int) /\ Near(<<n>>, v)
      BY <2>1 DEF IsOption, Near
    <3>4. QED BY <3>2, <3>3
  <2>5. CASE d = "mysql"
    <3> DEFINE a == 2 * ((n + 1) \div 2)
    <3>1. q = <<"datetime", a>>
      <4>1. Kept(d, <<"datetime", n>>) = <<"kept", a>>
        BY <2>5, MySqlKept
      <4>2. TypeIn("datetime", d) = "DATETIME"
        BY <2>5 DEF TypeIn, AsSql, ColumnType, Ints, Floats
      <4>3. MySqlCode("DATETIME") = "DATETIME"
        BY DEF MySqlCode
      <4>4. DecodeText("DATETIME", a) = <<"datetime", a>> /\ DecodeBinary("DATETIME", a) = <<"datetime", a>>
        BY DEF DecodeText, DecodeBinary
      <4> HIDE DEF a
      <4>5. CASE prepared
        <5>1. prepared = TRUE
          BY <4>5
        <5>2. QED BY <2>2, <2>5, <4>1, <4>2, <4>3, <4>4, <5>1, CellDecoded
      <4>6. CASE ~prepared
        <5>1. prepared = FALSE
          BY <4>6
        <5>2. QED BY <2>2, <2>5, <4>1, <4>2, <4>3, <4>4, <5>1, CellDecoded
      <4>7. QED BY <4>5, <4>6
    <3>2. FromStamp(q) = {<<a>>}
      BY <3>1 DEF FromStamp
    <3>3. a \in Int /\ a - n \in -1..1
      BY <2>1
    <3> HIDE DEF a
    <3>4. IsOption(<<a>>, Int) /\ Near(<<a>>, v)
      BY <2>1, <3>3 DEF IsOption, Near
    <3>5. QED BY <3>2, <3>4
  <2>6. QED BY <2>3, <2>4, <2>5 DEF Dialects
<1>3. QED BY <1>1, <1>2

-----------------------------------------------------------------------------
(* Models: what a row holds and what a read makes of it.                   *)

\* What Database may find in a field of a copy or of a row.
IsModel(m) ==
  /\ IsOption(m.x, InType(shape.tag)) /\ (m.x = <<>> => shape.opt)
  /\ IsOption(m.level, Int) /\ IsOption(m.rank, Int) /\ IsData(m.data)
  /\ IsOption(m.at, Int)

\* The row holds what the statements wrote to it.
Written(i) == /\ wrote[i] = [c \in Columns |-> wrote[i][c]] /\ IsModel(wrote[i])
              /\ table.rows[i] = Stored(wrote[i])

LEMMA ShapeFacts ==
  ASSUME shape \in Shapes
  PROVE  /\ db \in Dialects /\ shape.tag \in Tags /\ shape.opt \in BOOLEAN
         /\ Bounds[shape].tasks \subseteq Callers /\ Bounds[shape].calls \in Nat
         /\ \A d \in Bounds[shape].drafts : IsOption(d.level, Int) /\ IsOption(d.rank, Int) /\ IsData(d.data)
         /\ \A tag \in Tags : Samples[tag] \subseteq InType(tag)
BY ModelAssumption DEF ModelAssumption, db

LEMMA FieldTags ==
  /\ FieldTag("x") = shape.tag /\ FieldTag("level") = "i32" /\ FieldTag("rank") = "i32"
  /\ FieldTag("data") = "json" /\ FieldTag("at") = "datetime"
BY DEF FieldTag

\* Reading a row: what from_row makes of it is what was written, and something comes of it.
LEMMA RowRead ==
  ASSUME shape \in Shapes, NEW i, Written(i), NEW prepared \in BOOLEAN
  PROVE  /\ \A m \in FromRow(i, prepared) : /\ m.id = i /\ DOMAIN m = {"id"} \cup Columns
                                            /\ IsModel(m) /\ Agrees(m, wrote[i])
         /\ FromRow(i, prepared) # {} \/ (db = "mysql" /\ shape.tag = "bool" /\ prepared)
<1> DEFINE w == wrote[i]
           q(c) == Decoded(db, TypeIn(FieldTag(c), db), table.rows[i][c], prepared)
           X == FromField(FieldTag("x"), shape.opt, q("x"))
           L == FromField(FieldTag("level"), TRUE, q("level"))
           R == FromField(FieldTag("rank"), TRUE, q("rank"))
           D == FromField(FieldTag("data"), TRUE, q("data"))
           A == IF shape.stamps = "struct" THEN FromStamp(q("at")) ELSE FromField(FieldTag("at"), TRUE, q("at"))
<1>1. /\ db \in Dialects /\ shape.tag \in Tags /\ shape.opt \in BOOLEAN
      /\ {"i32", "json", "datetime"} \subseteq Tags
  BY ShapeFacts DEF Tags, Ints
<1>2. \A c \in Columns : table.rows[i][c] = Kept(db, ToColumn(FieldTag(c), w[c]))
  BY DEF Written, Stored
<1>3. \A c \in Columns : q(c) = Decoded(db, TypeIn(FieldTag(c), db), Kept(db, ToColumn(FieldTag(c), w[c])), prepared)
  BY <1>2
<1>4. IsValue(shape.tag, w.x) /\ (w.x = <<>> => shape.opt)
  BY DEF Written, IsModel, IsValue, IsOption
<1>5. IsValue("i32", w.level) /\ IsValue("i32", w.rank) /\ IsValue("json", w.data) /\ IsValue("datetime", w.at)
  <2>1. InType("i32") = Int /\ InType("datetime") = Int
    BY DEF InType
  <2>2. QED BY <2>1 DEF Written, IsModel, IsValue, IsOption, IsData
<1>6. IsOption(w.at, Int)
  BY DEF Written, IsModel
<1>7. /\ \A u \in X : Agreeing(shape.tag, u, w.x) /\ (u = <<>> => shape.opt)
      /\ X # {} \/ (db = "mysql" /\ shape.tag = "bool" /\ prepared)
  <2>1. q("x") = Decoded(db, TypeIn(shape.tag, db), Kept(db, ToColumn(shape.tag, w.x)), prepared)
    BY <1>3, FieldTags DEF Columns
  <2> HIDE DEF w, q
  <2>2. QED BY <1>1, <1>4, <2>1, FieldTags, FieldTrip
<1>8. L = {w.level} /\ R = {w.rank} /\ D = {w.data}
  <2>1. ASSUME NEW tag \in {"i32", "json"}, NEW v, IsValue(tag, v)
        PROVE  FromField(tag, TRUE, Decoded(db, TypeIn(tag, db), Kept(db, ToColumn(tag, v)), prepared)) = {v}
    <3> DEFINE got == FromField(tag, TRUE, Decoded(db, TypeIn(tag, db), Kept(db, ToColumn(tag, v)), prepared))
    <3>1. (\A u \in got : Agreeing(tag, u, v)) /\ got # {}
      BY <1>1, <2>1, FieldTrip
    <3> HIDE DEF got
    <3>2. \A u \in got : u = v
      BY <3>1 DEF Agreeing
    <3>3. got = {v}
      BY <3>1, <3>2
    <3>4. QED BY <3>3 DEF got
  <2>2. /\ q("level") = Decoded(db, TypeIn("i32", db), Kept(db, ToColumn("i32", w.level)), prepared)
        /\ q("rank") = Decoded(db, TypeIn("i32", db), Kept(db, ToColumn("i32", w.rank)), prepared)
        /\ q("data") = Decoded(db, TypeIn("json", db), Kept(db, ToColumn("json", w.data)), prepared)
    BY <1>3, FieldTags DEF Columns
  <2> HIDE DEF w, q
  <2>3. QED BY <1>5, <2>1, <2>2, FieldTags
<1>9. /\ \A u \in A : /\ IsOption(u, Int)
                      /\ Near(u, w.at) \/ (db = "sqlite" /\ shape.stamps = "struct")
      /\ A # {}
  <2>1. q("at") = Decoded(db, TypeIn("datetime", db), Kept(db, ToColumn("datetime", w.at)), prepared)
    BY <1>3, FieldTags DEF Columns
  <2> HIDE DEF w, q
  <2>2. CASE shape.stamps = "struct"
    BY <1>1, <1>6, <2>1, <2>2, StampTrip
  <2>3. CASE shape.stamps # "struct"
    <3>1. \A u \in FromField("datetime", TRUE, q("at")) : Agreeing("datetime", u, w.at)
      BY <1>1, <1>5, <2>1, FieldTrip
    <3>2. FromField("datetime", TRUE, q("at")) # {}
      BY <1>1, <1>5, <2>1, FieldTrip
    <3>3. QED BY <2>3, <3>1, <3>2, FieldTags DEF Agreeing
  <2>4. QED BY <2>2, <2>3
<1>10. FromRow(i, prepared) =
         {[id |-> i, x |-> x, level |-> l, rank |-> r, data |-> d, at |-> a] :
            x \in X, l \in L, r \in R, d \in D, a \in A}
  BY DEF FromRow
<1> HIDE DEF q, X, L, R, D, A
<1>11. FromRow(i, prepared) # {} \/ (db = "mysql" /\ shape.tag = "bool" /\ prepared)
  <2>1. CASE X # {}
    <3>1. PICK x \in X, a \in A : TRUE
      BY <2>1, <1>9
    <3>2. [id |-> i, x |-> x, level |-> w.level, rank |-> w.rank, data |-> w.data, at |-> a] \in FromRow(i, prepared)
      BY <1>8, <1>10, <3>1
    <3>3. QED BY <3>2
  <2>2. QED BY <2>1, <1>7
<1>12. ASSUME NEW m \in FromRow(i, prepared) PROVE m.id = i /\ DOMAIN m = {"id"} \cup Columns /\ IsModel(m) /\ Agrees(m, w)
  <2>1. PICK x \in X, a \in A :
          m = [id |-> i, x |-> x, level |-> w.level, rank |-> w.rank, data |-> w.data, at |-> a]
    BY <1>8, <1>10
  <2>2. /\ m.id = i /\ m.x = x /\ m.level = w.level /\ m.rank = w.rank /\ m.data = w.data /\ m.at = a
      /\ DOMAIN m = {"id"} \cup Columns
    BY <2>1 DEF Columns
  <2>3. IsModel(w)
    BY DEF Written
  <2>4. Agrees(m, w)
    BY <1>7, <1>9, <2>1, <2>2 DEF Agrees, Agreeing
  <2>5. IsOption(x, InType(shape.tag)) /\ (x = <<>> => shape.opt)
    <3>1. CASE shape.tag = "datetime"
      <4>1. InType("datetime") = Int
        BY DEF InType
      <4>2. QED BY <1>7, <2>1, <3>1, <4>1 DEF Agreeing
    <3>2. CASE shape.tag # "datetime"
      BY <1>7, <2>1, <2>3, <3>2 DEF Agreeing, IsModel
    <3>3. QED BY <3>1, <3>2
  <2>6. IsModel(m)
    BY <1>9, <2>1, <2>2, <2>3, <2>5 DEF IsModel
  <2>7. QED BY <2>2, <2>4, <2>6
<1>13. QED BY <1>11, <1>12

-----------------------------------------------------------------------------
(* Models: the document that update writes.                                *)

\* A document has room for a mirrored path.
Room(d, c) == d # <<>> /\ d[1].kind = "object" /\ (c = "rank" => d[1].is # "scalar")

Put(d, c, cols, m) ==
  IF c \notin cols THEN d ELSE IF m[c] = <<>> THEN RemovePath(d, c) ELSE SetPath(d, c, m[c])

LEMMA PutFacts ==
  ASSUME NEW d, IsDocument(d), NEW m, IsOption(m.level, Int), IsOption(m.rank, Int), NEW cols
  PROVE  /\ LET p == Put(d, "level", cols, m)
            IN  /\ IsDocument(p) /\ p.kind = d.kind /\ p.is = d.is /\ p.rank = d.rank
                /\ p.level = IF "level" \in cols THEN m.level ELSE d.level
         /\ LET p == Put(d, "rank", cols, m)
            IN  /\ IsDocument(p) /\ p.kind = d.kind /\ p.level = d.level
                /\ "rank" \notin cols => p.is = d.is /\ p.rank = d.rank
                /\ "rank" \in cols /\ p.is # "scalar" => p.rank = m.rank
<1>1. SetPath(d, "level", m.level) = [d EXCEPT !.level = m.level] /\ RemovePath(d, "level") = [d EXCEPT !.level = <<>>]
  BY DEF SetPath, RemovePath
<1>2. /\ SetPath(d, "rank", m.rank) = IF d.is = "scalar" THEN d ELSE [d EXCEPT !.is = "object", !.rank = m.rank]
      /\ RemovePath(d, "rank") = [d EXCEPT !.rank = <<>>]
  BY DEF SetPath, RemovePath
<1>3. d = [kind |-> d.kind, level |-> d.level, is |-> d.is, rank |-> d.rank]
  BY DEF IsDocument
<1>4. \A v : /\ [d EXCEPT !.level = v] = [kind |-> d.kind, level |-> v, is |-> d.is, rank |-> d.rank]
             /\ [d EXCEPT !.rank = v] = [kind |-> d.kind, level |-> d.level, is |-> d.is, rank |-> v]
             /\ [d EXCEPT !.is = "object", !.rank = v] = [kind |-> d.kind, level |-> d.level, is |-> "object", rank |-> v]
  <2> DEFINE e == [kind |-> d.kind, level |-> d.level, is |-> d.is, rank |-> d.rank]
  <2>1. d = e
    BY <1>3
  <2>2. TAKE v
  <2>3. [e EXCEPT !.level = v] = [kind |-> d.kind, level |-> v, is |-> d.is, rank |-> d.rank]
    OBVIOUS
  <2>4. [e EXCEPT !.rank = v] = [kind |-> d.kind, level |-> d.level, is |-> d.is, rank |-> v]
    OBVIOUS
  <2>5. [e EXCEPT !.is = "object", !.rank = v] = [kind |-> d.kind, level |-> d.level, is |-> "object", rank |-> v]
    <3> DEFINE e2 == [e EXCEPT !.is = "object"]
    <3>1. e2 = [kind |-> d.kind, level |-> d.level, is |-> "object", rank |-> d.rank]
      OBVIOUS
    <3>2. [e EXCEPT !.is = "object", !.rank = v] = [e2 EXCEPT !.rank = v]
      OBVIOUS
    <3> HIDE DEF e2, e
    <3>3. QED BY <3>1, <3>2
  <2> HIDE DEF e
  <2>6. QED BY <2>1, <2>3, <2>4, <2>5
<1>5. ASSUME NEW k \in {"object", "other"}, NEW s \in {"absent", "scalar", "object"}, NEW l, NEW r,
             IsOption(l, Int), IsOption(r, Int)
      PROVE  IsDocument([kind |-> k, level |-> l, is |-> s, rank |-> r])
  BY <1>5 DEF IsDocument
<1>6. /\ d.kind \in {"object", "other"} /\ d.is \in {"absent", "scalar", "object"}
      /\ IsOption(d.level, Int) /\ IsOption(d.rank, Int) /\ IsOption(<<>>, Int)
  BY DEF IsDocument, IsOption
<1> DEFINE p == Put(d, "level", cols, m)
           v == IF "level" \in cols THEN m.level ELSE d.level
<1>7. p = [kind |-> d.kind, level |-> v, is |-> d.is, rank |-> d.rank]
  <2>1. CASE "level" \notin cols
    BY <1>3, <2>1 DEF Put
  <2>2. CASE "level" \in cols /\ m.level = <<>>
    BY <1>1, <1>4, <2>2 DEF Put
  <2>3. CASE "level" \in cols /\ m.level # <<>>
    BY <1>1, <1>4, <2>3 DEF Put
  <2>4. QED BY <2>1, <2>2, <2>3
<1>8. IsOption(v, Int)
  BY <1>6
<1> HIDE DEF p, v
<1>9. IsDocument(p)
  BY <1>5, <1>6, <1>7, <1>8
<1>10. p.kind = d.kind /\ p.is = d.is /\ p.rank = d.rank /\ p.level = v
  BY <1>7
<1> DEFINE r == Put(d, "rank", cols, m)
<1>11. \E s \in {"absent", "scalar", "object"} : \E u :
         /\ r = [kind |-> d.kind, level |-> d.level, is |-> s, rank |-> u] /\ IsOption(u, Int)
         /\ "rank" \notin cols => s = d.is /\ u = d.rank
         /\ "rank" \in cols /\ s # "scalar" => u = m.rank
  <2>1. CASE "rank" \notin cols
    BY <1>3, <1>6, <2>1 DEF Put
  <2>2. CASE "rank" \in cols /\ m.rank = <<>>
    BY <1>2, <1>4, <1>6, <2>2 DEF Put
  <2>3. CASE "rank" \in cols /\ m.rank # <<>> /\ d.is = "scalar"
    BY <1>2, <1>3, <1>6, <2>3 DEF Put
  <2>4. CASE "rank" \in cols /\ m.rank # <<>> /\ d.is # "scalar"
    BY <1>2, <1>4, <1>6, <2>4 DEF Put
  <2>5. QED BY <2>1, <2>2, <2>3, <2>4
<1> HIDE DEF r
<1>12. PICK s \in {"absent", "scalar", "object"} : \E u :
         /\ r = [kind |-> d.kind, level |-> d.level, is |-> s, rank |-> u] /\ IsOption(u, Int)
         /\ "rank" \notin cols => s = d.is /\ u = d.rank
         /\ "rank" \in cols /\ s # "scalar" => u = m.rank
  BY <1>11
<1>13. PICK u :
         /\ r = [kind |-> d.kind, level |-> d.level, is |-> s, rank |-> u] /\ IsOption(u, Int)
         /\ "rank" \notin cols => s = d.is /\ u = d.rank
         /\ "rank" \in cols /\ s # "scalar" => u = m.rank
  BY <1>12
<1>14. IsDocument(r)
  BY <1>5, <1>6, <1>13
<1>15. r.kind = d.kind /\ r.level = d.level /\ r.is = s /\ r.rank = u
  BY <1>13
<1>16. QED BY <1>9, <1>10, <1>13, <1>14, <1>15 DEF p, v, r

\* sync_json_fields: the fields among the columns are in the document, and nothing else changes.
LEMMA SyncFacts ==
  ASSUME NEW m, IsData(m.data), IsOption(m.level, Int), IsOption(m.rank, Int), NEW cols
  PROVE  LET doc == IF m.data = <<>> THEN Empty ELSE m.data[1]
             d   == Sync(m, cols)
         IN  /\ IsData(d) /\ d # <<>> /\ d[1].kind = doc.kind
             /\ doc.kind # "object" => d = m.data
             /\ cols \cap Mirrored = {} => d = m.data \/ (m.data = <<>> /\ d = <<Empty>>)
             /\ \A c \in Mirrored \cap cols : Room(d, c) => At(d[1], c) = m[c]
             /\ doc.kind = "object" =>
                  \A c \in Mirrored \ cols : At(d[1], c) = At(doc, c) /\ (c = "rank" => d[1].is = doc.is)
<1> DEFINE doc == IF m.data = <<>> THEN Empty ELSE m.data[1]
           d   == Sync(m, cols)
           p   == Put(doc, "level", cols, m)
           r   == Put(p, "rank", cols, m)
<1>1. IsDocument(doc)
  BY DEF IsData, IsDocument, Empty, IsOption
<1>2. m.data # <<>> => m.data = <<doc>>
  BY DEF IsData
<1>3. d = IF doc.kind = "object" THEN <<r>> ELSE m.data
  BY DEF Sync, Put
<1> HIDE DEF doc, d
<1>4. /\ IsDocument(p) /\ p.kind = doc.kind /\ p.is = doc.is /\ p.rank = doc.rank
      /\ p.level = IF "level" \in cols THEN m.level ELSE doc.level
  BY <1>1, PutFacts
<1>5. /\ IsDocument(r) /\ r.kind = p.kind /\ r.level = p.level
      /\ "rank" \notin cols => r.is = p.is /\ r.rank = p.rank
      /\ "rank" \in cols /\ r.is # "scalar" => r.rank = m.rank
  BY <1>4, PutFacts
<1>6. cols \cap Mirrored = {} => r = doc
  BY DEF Put, Mirrored
<1> HIDE DEF p, r
<1>7. CASE doc.kind = "object"
  <2>1. d = <<r>> /\ d[1] = r
    BY <1>3, <1>7
  <2>2. IsData(d) /\ d # <<>> /\ d[1].kind = doc.kind
    BY <1>4, <1>5, <2>1 DEF IsData
  <2>3. cols \cap Mirrored = {} => d = m.data \/ (m.data = <<>> /\ d = <<Empty>>)
    BY <1>2, <1>6, <2>1 DEF doc
  <2>4. ASSUME NEW c \in Mirrored \cap cols, Room(d, c) PROVE At(d[1], c) = m[c]
    BY <1>4, <1>5, <2>1, <2>4 DEF At, Room, Mirrored
  <2>5. ASSUME NEW c \in Mirrored \ cols PROVE At(d[1], c) = At(doc, c) /\ (c = "rank" => d[1].is = doc.is)
    BY <1>4, <1>5, <2>1, <2>5 DEF At, Mirrored
  <2>6. QED BY <1>7, <2>2, <2>3, <2>4, <2>5 DEF doc, d
<1>8. CASE doc.kind # "object"
  <2>1. d = m.data /\ m.data # <<>>
    <3>1. Empty.kind = "object"
      BY DEF Empty
    <3>2. QED BY <1>3, <1>8, <3>1 DEF doc
  <2>2. d[1] = doc
    BY <2>1 DEF doc
  <2>3. \A c : ~Room(d, c)
    BY <1>8, <2>2 DEF Room
  <2>4. QED BY <1>8, <2>1, <2>2, <2>3 DEF doc, d
<1>9. QED BY <1>7, <1>8

-----------------------------------------------------------------------------
(* Models: the invariant.  The rows hold what was written, the copies hold *)
(* values of their types, and a fresh copy is like the row it came from:   *)
(* without that the document an update writes could hold old mirrors.      *)

\* A copy that a task may hold.
IsCopy(m) == IsModel(m) /\ m.id \in Nat /\ DOMAIN m = {"id"} \cup Columns

\* update on a column without a mirror turns a None document into an empty one, in the copy alone.
Like(m, w) ==
  /\ IF shape.tag = "datetime" THEN Near(m.x, w.x) ELSE m.x = w.x
  /\ m.level = w.level /\ m.rank = w.rank
  /\ m.data = w.data \/ (w.data = <<>> /\ m.data = <<Empty>>)
  /\ Near(m.at, w.at) \/ (db = "sqlite" /\ shape.stamps = "struct")

\* The mirrors that updates have promised.
Mirroring(i) ==
  \A c \in kept[i] : /\ wrote[i].data # <<>>
                     /\ Room(wrote[i].data, c) => At(wrote[i].data[1], c) = wrote[i][c]

RowHeld(i)  == \/ wrote[i] = NoRow /\ table.rows[i] = NoRow /\ kept[i] = {}
               \/ Written(i) /\ Mirroring(i)
CopyHeld(t) == mem[t] = NoModel \/ IsCopy(mem[t])
FreshHeld(t) == mem[t] # NoModel /\ mem[t].id \in Ids /\ Written(mem[t].id) /\ Like(mem[t], wrote[mem[t].id])
ReadHeld(t) ==
    last[t][1] \in {"first", "last", "all"} =>
      /\ last[t][2] \/ (db = "mysql" /\ shape.tag = "bool" /\ last[t][1] = "first")
      /\ (t \in fresh /\ mem[t] # NoModel) => Agrees(mem[t], wrote[mem[t].id])

Shaped == /\ shape \in Shapes /\ calls \in Nat
          /\ DOMAIN mem = Callers /\ DOMAIN last = Callers
          /\ DOMAIN wrote = Ids /\ kept \in [Ids -> SUBSET Mirrored] /\ fresh \subseteq Callers

ModelInv == /\ UInv /\ Shaped
            /\ \A i \in Ids : RowHeld(i)
            /\ \A t \in Callers : CopyHeld(t) /\ ReadHeld(t)
            /\ \A t \in fresh : FreshHeld(t)

LEMMA WrittenIsRow == ASSUME NEW i, Written(i) PROVE table.rows[i] # NoRow
<1>1. DOMAIN Stored(wrote[i]) = DOMAIN wrote[i]
  BY DEF Stored
<1>2. DOMAIN wrote[i] = Columns
  BY DEF Written
<1>3. DOMAIN NoRow = {"gone"} /\ "x" \in Columns
  BY DEF NoRow, Columns
<1>4. QED BY <1>1, <1>2, <1>3 DEF Written

LEMMA WrittenStays ==
  ASSUME NEW i, Written(i), UNCHANGED shape, wrote'[i] = wrote[i], table'.rows[i] = table.rows[i]
  PROVE  Written(i)'
BY DEF Written, IsModel, Stored, FieldTag, db

\* One call of one task: it leaves the rows outside I, and the copies of the other tasks.
OneCall(t, I, copy, op, ok) ==
  /\ UNCHANGED shape /\ calls' \in Nat
  /\ DOMAIN mem' = Callers /\ DOMAIN last' = Callers
  /\ \A u \in Callers \ {t} : mem'[u] = mem[u] /\ last'[u] = last[u]
  /\ mem'[t] = copy /\ (copy = NoModel \/ IsCopy(copy)) /\ last'[t] = <<op, ok>>
  /\ DOMAIN wrote' = Ids /\ kept' \in [Ids -> SUBSET Mirrored]
  /\ \A j \in Ids \ I : table'.rows[j] = table.rows[j] /\ wrote'[j] = wrote[j] /\ kept'[j] = kept[j]
  /\ fresh' \subseteq {u \in fresh \ {t} : mem[u].id \notin I} \cup {t}

\* It is enough to look at that task and those rows.
LEMMA OneCallKeeps ==
  ASSUME ModelInv, UInv', NEW t \in Callers, NEW I, NEW copy, NEW op, NEW ok,
         OneCall(t, I, copy, op, ok),
         \A j \in Ids \cap I : RowHeld(j)',
         t \in fresh' => FreshHeld(t)',
         ReadHeld(t)'
  PROVE  ModelInv'
<1> USE DEF OneCall
<1>1. Ids' = Ids /\ db' = db /\ NoRow' = NoRow /\ NoModel' = NoModel
  BY DEF Ids, db, NoRow, NoModel
<1>2. Shaped'
  BY <1>1 DEF ModelInv, Shaped
<1>3. ASSUME NEW i \in Ids \ I PROVE RowHeld(i)' /\ (Written(i) => Written(i)')
  <2>1. table'.rows[i] = table.rows[i] /\ wrote'[i] = wrote[i] /\ kept'[i] = kept[i]
    BY <1>3
  <2>2. Written(i) => Written(i)'
    BY <2>1, WrittenStays
  <2>3. Mirroring(i) => Mirroring(i)'
    BY <2>1 DEF Mirroring, Room, At
  <2>4. QED BY <1>1, <2>1, <2>2, <2>3 DEF ModelInv, RowHeld
<1>4. \A i \in Ids' : RowHeld(i)'
  BY <1>1, <1>3
<1>5. \A u \in Callers : mem'[u] = IF u = t THEN copy ELSE mem[u]
  OBVIOUS
<1>6. \A u \in Callers : last'[u] = IF u = t THEN <<op, ok>> ELSE last[u]
  OBVIOUS
<1>7. \A m : IsCopy(m) => IsCopy(m)'
  BY DEF IsCopy, IsModel
<1>8. ASSUME NEW u \in Callers PROVE CopyHeld(u)'
  BY <1>1, <1>5, <1>7 DEF CopyHeld, ModelInv
<1>9. ASSUME NEW u \in fresh', u # t
      PROVE  u \in Callers /\ u \in fresh /\ mem'[u] = mem[u] /\ mem[u].id \in Ids \ I /\ FreshHeld(u)
  BY <1>5, <1>9 DEF ModelInv, FreshHeld, Shaped
<1>10. ASSUME NEW u \in fresh' PROVE FreshHeld(u)'
  <2>1. CASE u # t
    <3> DEFINE i == mem[u].id
    <3>1. i \in Ids \ I /\ mem'[u] = mem[u] /\ FreshHeld(u)
      BY <1>9, <2>1
    <3>2. wrote'[i] = wrote[i]
      BY <3>1
    <3>3. Written(i)'
      BY <1>3, <3>1 DEF FreshHeld
    <3>4. QED BY <1>1, <3>1, <3>2, <3>3 DEF FreshHeld, Like
  <2>2. QED BY <2>1
<1>11. ASSUME NEW u \in Callers PROVE ReadHeld(u)'
  <2>1. CASE u # t
    <3>1. ReadHeld(u) /\ last'[u] = last[u]
      BY <1>6, <2>1 DEF ModelInv
    <3>2. CASE u \in fresh'
      <4> DEFINE i == mem[u].id
      <4>1. i \in Ids \ I /\ mem'[u] = mem[u] /\ u \in fresh
        BY <1>9, <2>1, <3>2
      <4>2. wrote'[i] = wrote[i]
        BY <4>1
      <4>3. QED BY <1>1, <3>1, <4>1, <4>2 DEF ReadHeld, Agrees
    <3>3. CASE u \notin fresh'
      BY <1>1, <3>1, <3>3 DEF ReadHeld
    <3>4. QED BY <3>2, <3>3
  <2>2. QED BY <2>1
<1>12. QED BY <1>2, <1>4, <1>8, <1>10, <1>11 DEF ModelInv

LEMMA ModelInitHolds == ASSUME ModelInit PROVE ModelInv
<1>1. UInv
  BY UniqueInit
<1>2. Shaped
  BY DEF ModelInit, Shaped
<1>3. \A i \in Ids : RowHeld(i)
  BY DEF ModelInit, RowHeld
<1>4. \A t \in Callers : CopyHeld(t) /\ ReadHeld(t)
  BY DEF ModelInit, CopyHeld, ReadHeld
<1>5. \A t \in fresh : FreshHeld(t)
  BY DEF ModelInit
<1>6. QED BY <1>1, <1>2, <1>3, <1>4, <1>5 DEF ModelInv

\* auto_migrate and restarts leave the rows.
LEMMA RowsStay ==
  ASSUME ModelInv, UInv', UNCHANGED <<shape, wrote, kept, calls>>, table'.rows = table.rows,
         \/ UNCHANGED <<mem, fresh, last>>
         \/ mem' = [t \in Callers |-> NoModel] /\ fresh' = {} /\ last' = [t \in Callers |-> <<"none", TRUE>>]
  PROVE  ModelInv'
<1>1. Ids' = Ids /\ db' = db /\ NoRow' = NoRow /\ NoModel' = NoModel
  BY DEF Ids, db, NoRow, NoModel
<1>2. Shaped'
  BY <1>1 DEF ModelInv, Shaped
<1>3. \A i : Written(i)' = Written(i)
  BY <1>1 DEF Written, IsModel, Stored, FieldTag
<1>4. \A i : Mirroring(i)' = Mirroring(i)
  BY DEF Mirroring, Room, At
<1>5. \A i \in Ids' : RowHeld(i)'
  BY <1>1, <1>3, <1>4 DEF ModelInv, RowHeld
<1>6. CASE UNCHANGED <<mem, fresh, last>>
  <2>1. ASSUME NEW t \in Callers PROVE CopyHeld(t)' /\ ReadHeld(t)'
    <3>1. CopyHeld(t) /\ ReadHeld(t)
      BY DEF ModelInv
    <3>2. CopyHeld(t)'
      BY <1>1, <1>6, <3>1 DEF CopyHeld, IsCopy, IsModel
    <3>3. ReadHeld(t)'
      BY <1>1, <1>6, <3>1 DEF ReadHeld, Agrees
    <3>4. QED BY <3>2, <3>3
  <2>2. ASSUME NEW t \in fresh' PROVE FreshHeld(t)'
    <3>1. FreshHeld(t)
      BY <1>6 DEF ModelInv
    <3>2. QED BY <1>1, <1>3, <1>6, <3>1 DEF FreshHeld, Like
  <2>3. QED BY <1>2, <1>5, <2>1, <2>2 DEF ModelInv
<1>7. CASE mem' = [t \in Callers |-> NoModel] /\ fresh' = {} /\ last' = [t \in Callers |-> <<"none", TRUE>>]
  <2>1. \A t \in Callers : CopyHeld(t)' /\ ReadHeld(t)'
    BY <1>1, <1>7 DEF CopyHeld, ReadHeld
  <2>2. QED BY <1>2, <1>5, <1>7, <2>1 DEF ModelInv
<1>8. QED BY <1>6, <1>7

LEMMA MigrateKeepsRows ==
  ASSUME ModelInv, Restart \/ TableByHand \/ StartMigrate \/ MigrateFails \/ CreateTable \/ CreateIndex
  PROVE  ModelInv'
<1>1. UInv'
  BY MigrateStep DEF ModelInv
<1>2. UNCHANGED <<shape, wrote, kept, calls>>
  BY DEF Restart, TableByHand, StartMigrate, MigrateFails, CreateTable, CreateIndex, Indexed
<1>3. \/ UNCHANGED <<mem, fresh, last>>
      \/ mem' = [t \in Callers |-> NoModel] /\ fresh' = {} /\ last' = [t \in Callers |-> <<"none", TRUE>>]
  BY DEF Restart, TableByHand, StartMigrate, MigrateFails, CreateTable, CreateIndex, Indexed
<1>4. table'.rows = table.rows
  <2>1. \/ table' = table
        \/ \E u, i : table' = [table EXCEPT !.made = TRUE, !.uniques = u, !.indexes = i]
        \/ \E u : table' = [table EXCEPT !.made = TRUE, !.uniques = u]
        \/ \E u, i : table' = [table EXCEPT !.indexes = i, !.uniques = u]
    BY DEF Restart, TableByHand, StartMigrate, MigrateFails, CreateTable, CreateIndex, Indexed
  <2>2. QED BY <2>1 DEF ModelInv, UInv, KeysHold, TableFields
<1>5. QED BY <1>1, <1>2, <1>3, <1>4, RowsStay

-----------------------------------------------------------------------------
(* Models: each call keeps it.                                             *)

LEMMA PresentIsWritten == ASSUME ModelInv, NEW i \in Present PROVE i \in Ids /\ i \in Nat /\ Written(i) /\ Mirroring(i)
<1>1. i \in Ids /\ table.rows[i] # NoRow
  BY DEF Present
<1>2. i \in Nat
  BY <1>1 DEF Ids
<1>3. QED BY <1>1, <1>2 DEF ModelInv, RowHeld

LEMMA ReadsKeep ==
  ASSUME ModelInv, NEW t \in Callers, NEW op \in {"first", "last", "all"}, NEW ids \in SUBSET Present,
         NEW prepared \in BOOLEAN, prepared => op = "first", NEW pick, Reads(t, op, ids, prepared, pick)
  PROVE  ModelInv'
<1> DEFINE ok == \A i \in ids : FromRow(i, prepared) # {}
<1>1. /\ UNCHANGED <<shape, schema, todo, migrated, table, wrote, kept>> /\ calls' = calls + 1
      /\ last' = [last EXCEPT ![t] = <<op, ok>>]
  BY DEF Reads, Calls, Same
<1>2. UInv'
  BY <1>1, SameTable DEF ModelInv
<1>3. ok \/ (db = "mysql" /\ shape.tag = "bool" /\ op = "first")
  BY PresentIsWritten, RowRead DEF ModelInv, Shaped
<1>4. \/ ok /\ pick \in ids /\ \E m \in FromRow(pick, prepared) : mem' = [mem EXCEPT ![t] = m] /\ fresh' = fresh \cup {t}
      \/ mem' = [mem EXCEPT ![t] = NoModel] /\ fresh' = fresh \ {t}
  BY DEF Reads
<1> HIDE DEF ok
<1>5. calls' \in Nat /\ t \in DOMAIN mem /\ t \in DOMAIN last /\ db' = db /\ Ids' = Ids
  BY <1>1 DEF ModelInv, Shaped, db, Ids
<1>6. DOMAIN wrote' = Ids /\ kept' \in [Ids -> SUBSET Mirrored]
  BY <1>1 DEF ModelInv, Shaped
<1>7. last'[t] = <<op, ok>> /\ last'[t][1] = op /\ last'[t][2] = ok
  BY <1>1, <1>5
<1>8. CASE mem' = [mem EXCEPT ![t] = NoModel] /\ fresh' = fresh \ {t}
  <2>1. ReadHeld(t)'
    BY <1>3, <1>5, <1>7, <1>8, <1>1 DEF ReadHeld
  <2>2. OneCall(t, {}, NoModel, op, ok)
    BY <1>1, <1>5, <1>6, <1>7, <1>8 DEF OneCall, ModelInv, Shaped
  <2>3. QED BY <1>2, <1>8, <2>1, <2>2, OneCallKeeps
<1>9. CASE pick \in ids /\ \E m \in FromRow(pick, prepared) : mem' = [mem EXCEPT ![t] = m] /\ fresh' = fresh \cup {t}
  <2>1. PICK m \in FromRow(pick, prepared) : mem' = [mem EXCEPT ![t] = m] /\ fresh' = fresh \cup {t}
    BY <1>9
  <2>2. pick \in Ids /\ pick \in Nat /\ Written(pick)
    BY <1>9, PresentIsWritten
  <2>3. m.id = pick /\ DOMAIN m = {"id"} \cup Columns /\ IsModel(m) /\ Agrees(m, wrote[pick])
    BY <2>2, RowRead DEF ModelInv, Shaped
  <2>4. IsCopy(m)
    BY <2>2, <2>3 DEF IsCopy
  <2>5. mem'[t] = m /\ mem'[t].id = pick
    BY <1>5, <2>1, <2>3
  <2>6. Written(pick)'
    BY <1>1, <2>2, WrittenStays
  <2>7. m # NoModel
    BY <2>2, <2>3 DEF NoModel
  <2>8. FreshHeld(t)'
    BY <1>1, <1>5, <2>2, <2>3, <2>5, <2>6, <2>7 DEF FreshHeld, Like, Agrees, NoModel
  <2>9. ReadHeld(t)'
    BY <1>1, <1>3, <1>5, <1>7, <2>3, <2>5 DEF ReadHeld, Agrees
  <2>10. OneCall(t, {}, m, op, ok)
    BY <1>1, <1>5, <1>6, <1>7, <2>1, <2>4, <2>5 DEF OneCall, ModelInv, Shaped
  <2>11. QED BY <1>2, <2>8, <2>9, <2>10, OneCallKeeps
<1>10. QED BY <1>4, <1>8, <1>9

LEMMA QueriesKeep == ASSUME ModelInv, NEW t \in Callers, First(t) \/ All(t) \/ Last(t) PROVE ModelInv'
<1>1. CASE First(t)
  <2>1. PICK i \in Ids : Reads(t, "first", {i} \cap Present, TRUE, i)
    BY <1>1 DEF First
  <2>2. QED BY <2>1, ReadsKeep
<1>2. CASE All(t)
  <2>1. PICK i \in Ids : Reads(t, "all", Present, FALSE, i)
    BY <1>2 DEF All
  <2>2. QED BY <2>1, ReadsKeep
<1>3. CASE Last(t)
  <2>1. PICK i \in Ids : i \in Present /\ Reads(t, "last", {i}, FALSE, i)
    BY <1>3 DEF Last
  <2>2. QED BY <2>1, ReadsKeep
<1>4. QED BY <1>1, <1>2, <1>3

\* The copy after create: its fields are as they were, but for the key.
LEMMA CopyWithId ==
  ASSUME NEW m, IsCopy(m), NEW n \in Nat
  PROVE  /\ IsCopy([m EXCEPT !.id = n]) /\ [m EXCEPT !.id = n].id = n
         /\ \A c \in Columns : [m EXCEPT !.id = n][c] = m[c]
<1> DEFINE m2 == [m EXCEPT !.id = n]
<1>1. DOMAIN m2 = {"id"} \cup Columns /\ m2.id = n
  BY DEF IsCopy
<1>2. \A c \in Columns : m2[c] = m[c]
  BY DEF IsCopy, Columns
<1> HIDE DEF m2
<1>3. m2.x = m.x /\ m2.level = m.level /\ m2.rank = m.rank /\ m2.data = m.data /\ m2.at = m.at
  BY <1>2 DEF Columns
<1>4. IsCopy(m2)
  BY <1>1, <1>3 DEF IsCopy, IsModel
<1>5. QED BY <1>1, <1>2, <1>4 DEF m2

LEMMA ContentFacts ==
  ASSUME NEW m, IsModel(m)
  PROVE  /\ Content(m) = [c \in Columns |-> Content(m)[c]] /\ IsModel(Content(m)) /\ Like(m, Content(m))
         /\ \A c \in Columns : Content(m)[c] = m[c]
<1> DEFINE w == Content(m)
<1>1. w = [c \in Columns |-> m[c]]
  BY DEF Content
<1>2. (\A c \in Columns : w[c] = m[c]) /\ w = [c \in Columns |-> w[c]]
  BY <1>1
<1> HIDE DEF w
<1>3. w.x = m.x /\ w.level = m.level /\ w.rank = m.rank /\ w.data = m.data /\ w.at = m.at
  BY <1>2 DEF Columns
<1>4. IsModel(w) /\ Like(m, w)
  BY <1>3 DEF IsModel, Like, Near
<1>5. QED BY <1>2, <1>4 DEF w

LEMMA InsertKeeps ==
  ASSUME ModelInv, NEW t \in Callers, NEW m, IsCopy(m), NEW how, Insert(t, m, how)
  PROVE  ModelInv'
<1>1. PICK i : i = IF m.id > 0 THEN m.id ELSE table.next
  OBVIOUS
<1> DEFINE row == Stored(Content(m))
           works == i \in Ids /\ i \notin Present /\ ~Clashes(i, row)
           done == works /\ how # "refused"
           id2 == IF how = "ok" /\ works THEN i ELSE m.id
           m2 == [m EXCEPT !.id = id2]
<1>2. UInv'
  BY InsertStep DEF ModelInv
<1>3. /\ UNCHANGED shape /\ calls' = calls + 1 /\ i \in Ids /\ mem' = [mem EXCEPT ![t] = m2]
      /\ last' = [last EXCEPT ![t] = <<"create", how = "ok" /\ works>>]
  BY <1>1 DEF Insert, Calls
<1>4. done => /\ \E n : table' = [table EXCEPT !.rows[i] = row, !.next = n]
              /\ wrote' = [wrote EXCEPT ![i] = Content(m)] /\ kept' = [kept EXCEPT ![i] = {}]
              /\ fresh' = Others(t, i) \cup (IF how = "ok" THEN {t} ELSE {})
  BY <1>1 DEF Insert
<1>5. ~done => /\ \E n : table' = [table EXCEPT !.next = n]
               /\ fresh' = fresh \ {t} /\ UNCHANGED <<wrote, kept>>
  BY <1>1 DEF Insert
<1>6. done => works
  OBVIOUS
<1> HIDE DEF works, done
<1>7. i \in Nat /\ m.id \in Nat
  BY <1>3 DEF IsCopy, Ids
<1>8. /\ IsCopy(m2) /\ \A c \in Columns : m2[c] = m[c]
      /\ how = "ok" /\ works => m2.id = i
  <2>1. id2 \in Nat /\ (how = "ok" /\ works => id2 = i)
    BY <1>7
  <2> HIDE DEF id2
  <2>2. QED BY <2>1, CopyWithId
<1> HIDE DEF m2
<1>9. /\ calls' \in Nat /\ t \in DOMAIN mem /\ t \in DOMAIN last /\ Ids' = Ids /\ db' = db
      /\ DOMAIN wrote = Ids /\ kept \in [Ids -> SUBSET Mirrored] /\ DOMAIN table.rows = Ids
      /\ DOMAIN table = TableFields
  BY <1>3 DEF ModelInv, Shaped, db, Ids, UInv, KeysHold
<1>10. mem'[t] = m2 /\ last'[t] = <<"create", how = "ok" /\ works>>
  BY <1>3, <1>9
<1>11. ReadHeld(t)'
  <2>1. last'[t][1] = "create"
    BY <1>10
  <2>2. QED BY <2>1 DEF ReadHeld
<1>12. CASE done
  <2>1. table'.rows = [table.rows EXCEPT ![i] = row]
    <3> HIDE DEF row
    <3> QED BY <1>4, <1>9, <1>12 DEF TableFields
  <2>2. wrote' = [wrote EXCEPT ![i] = Content(m)] /\ kept' = [kept EXCEPT ![i] = {}]
    BY <1>4, <1>12
  <2>3. /\ \A j \in Ids \ {i} : table'.rows[j] = table.rows[j] /\ wrote'[j] = wrote[j] /\ kept'[j] = kept[j]
        /\ table'.rows[i] = row /\ wrote'[i] = Content(m) /\ kept'[i] = {}
    <3> HIDE DEF row
    <3> QED BY <1>3, <1>9, <2>1, <2>2
  <2>4. DOMAIN wrote' = Ids /\ kept' \in [Ids -> SUBSET Mirrored]
    BY <1>9, <2>2
  <2>5. IsModel(m) /\ IsModel(Content(m)) /\ Content(m) = [c \in Columns |-> Content(m)[c]] /\ Like(m, Content(m))
    BY ContentFacts DEF IsCopy
  <2>6. Written(i)'
    <3>1. PICK w : w = Content(m)
      OBVIOUS
    <3>2. wrote'[i] = w /\ table'.rows[i] = Stored(w) /\ IsModel(w) /\ w = [c \in Columns |-> w[c]]
      BY <2>3, <2>5, <3>1
    <3>3. QED BY <1>3, <1>9, <3>2 DEF Written, IsModel, Stored, FieldTag
  <2>7. RowHeld(i)'
    BY <2>3, <2>6 DEF RowHeld, Mirroring
  <2>8. fresh' = Others(t, i) \cup (IF how = "ok" THEN {t} ELSE {})
    BY <1>4, <1>12
  <2>9. fresh' \subseteq {u \in fresh \ {t} : mem[u].id \notin {i}} \cup {t}
    BY <2>8 DEF Others
  <2>10. t \in fresh' => FreshHeld(t)'
    <3>1. SUFFICES ASSUME t \in fresh' PROVE FreshHeld(t)'
      OBVIOUS
    <3>2. how = "ok"
      BY <2>8, <3>1 DEF Others
    <3>3. mem'[t].id = i
      BY <1>6, <1>8, <1>10, <1>12, <3>2
    <3>4. Like(m2, Content(m))
      <4>1. m2.x = m.x /\ m2.level = m.level /\ m2.rank = m.rank /\ m2.data = m.data /\ m2.at = m.at
        BY <1>8 DEF Columns
      <4>2. QED BY <2>5, <4>1 DEF Like
    <3>5. mem'[t] # NoModel
      BY <1>7, <3>3 DEF NoModel
    <3>6. wrote'[i] = Content(m)
      BY <2>3
    <3> HIDE DEF row
    <3>7. QED BY <1>3, <1>9, <1>10, <2>6, <3>3, <3>4, <3>5, <3>6 DEF FreshHeld, Like, NoModel
  <2>11. OneCall(t, {i}, m2, "create", how = "ok" /\ works)
    <3> HIDE DEF row
    <3> QED BY <1>3, <1>8, <1>9, <1>10, <2>3, <2>4, <2>9 DEF OneCall, ModelInv, Shaped
  <2>12. QED BY <1>2, <1>11, <2>7, <2>10, <2>11, OneCallKeeps
<1>13. CASE ~done
  <2>1. table'.rows = table.rows /\ fresh' = fresh \ {t} /\ UNCHANGED <<wrote, kept>>
    BY <1>5, <1>9, <1>13 DEF TableFields
  <2>2. OneCall(t, {}, m2, "create", how = "ok" /\ works)
    BY <1>3, <1>8, <1>9, <1>10, <2>1 DEF OneCall, ModelInv, Shaped
  <2>3. QED BY <1>2, <1>11, <2>1, <2>2, OneCallKeeps
<1>14. QED BY <1>12, <1>13

LEMMA DeleteKeeps == ASSUME ModelInv, NEW t \in Callers, Delete(t) PROVE ModelInv'
<1>1. PICK i : i = mem[t].id
  OBVIOUS
<1>2. UInv'
  BY DeleteStep DEF ModelInv
<1>3. PICK how : /\ Calls(t, "delete", how = "ok")
                 /\ IF how # "refused"
                    THEN /\ table' = [table EXCEPT !.rows[i] = NoRow]
                         /\ wrote' = [wrote EXCEPT ![i] = NoRow] /\ kept' = [kept EXCEPT ![i] = {}]
                         /\ fresh' = Others(t, i)
                    ELSE Same /\ fresh' = fresh
                 /\ UNCHANGED mem
  BY <1>1 DEF Delete
<1>4. mem[t] # NoModel
  BY DEF Delete
<1>5. /\ UNCHANGED shape /\ calls' = calls + 1 /\ last' = [last EXCEPT ![t] = <<"delete", how = "ok">>]
  BY <1>3 DEF Calls
<1>6. /\ calls' \in Nat /\ t \in DOMAIN mem /\ t \in DOMAIN last /\ Ids' = Ids /\ db' = db
      /\ DOMAIN wrote = Ids /\ kept \in [Ids -> SUBSET Mirrored] /\ DOMAIN table.rows = Ids
      /\ DOMAIN table = TableFields
  BY <1>5 DEF ModelInv, Shaped, db, Ids, UInv, KeysHold
<1>7. last'[t] = <<"delete", how = "ok">>
  BY <1>5, <1>6
<1>8. ReadHeld(t)'
  <2>1. last'[t][1] = "delete"
    BY <1>7
  <2>2. QED BY <2>1 DEF ReadHeld
<1>9. mem' = mem
  BY <1>3
<1>10. IsCopy(mem[t])
  BY <1>4 DEF ModelInv, CopyHeld
<1>11. CASE how # "refused"
  <2>1. table'.rows = [table.rows EXCEPT ![i] = NoRow]
    BY <1>3, <1>6, <1>11 DEF TableFields
  <2>2. wrote' = [wrote EXCEPT ![i] = NoRow] /\ kept' = [kept EXCEPT ![i] = {}] /\ fresh' = Others(t, i)
    BY <1>3, <1>11
  <2>3. \A j \in Ids \ {i} : table'.rows[j] = table.rows[j] /\ wrote'[j] = wrote[j] /\ kept'[j] = kept[j]
    BY <1>6, <2>1, <2>2
  <2>4. i \in Ids => RowHeld(i)'
    BY <1>6, <2>1, <2>2 DEF RowHeld, NoRow
  <2>5. DOMAIN wrote' = Ids /\ kept' \in [Ids -> SUBSET Mirrored]
    BY <1>6, <2>2
  <2>6. t \notin fresh' /\ fresh' \subseteq {u \in fresh \ {t} : mem[u].id \notin {i}} \cup {t}
    BY <2>2 DEF Others
  <2>7. OneCall(t, {i}, mem[t], "delete", how = "ok")
    BY <1>5, <1>6, <1>7, <1>9, <1>10, <2>3, <2>5, <2>6 DEF OneCall, ModelInv, Shaped
  <2>8. QED BY <1>2, <1>8, <2>4, <2>6, <2>7, OneCallKeeps
<1>12. CASE how = "refused"
  <2>1. UNCHANGED <<table, wrote, kept>> /\ fresh' = fresh
    BY <1>3, <1>12 DEF Same
  <2>2. ASSUME t \in fresh' PROVE FreshHeld(t)'
    <3>1. FreshHeld(t)
      BY <2>1, <2>2 DEF ModelInv
    <3>2. Written(i)'
      BY <1>1, <1>5, <2>1, <3>1, WrittenStays DEF FreshHeld
    <3>3. QED BY <1>1, <1>5, <1>6, <1>9, <2>1, <3>1, <3>2 DEF FreshHeld, Like, NoModel
  <2>3. OneCall(t, {}, mem[t], "delete", how = "ok")
    BY <1>5, <1>6, <1>7, <1>9, <1>10, <2>1 DEF OneCall, ModelInv, Shaped
  <2>4. QED BY <1>2, <1>8, <2>2, <2>3, OneCallKeeps
<1>13. QED BY <1>11, <1>12

-----------------------------------------------------------------------------
(* Models: update.                                                         *)

\* What update passes: the copy is the task's, but for fields among the columns that are set.
Passed(t, m, sets) ==
  /\ IsCopy(mem[t]) /\ IsCopy(m) /\ m.id = mem[t].id /\ m.id > 0
  /\ \A c \in Columns \ DOMAIN sets : m[c] = mem[t][c]
  /\ DOMAIN sets \subseteq {"x", "level", "rank", "data"}
  /\ "x" \in DOMAIN sets => IsOption(sets["x"], InType(shape.tag)) /\ (sets["x"] = <<>> => shape.opt)
  /\ "level" \in DOMAIN sets => IsOption(sets["level"], Int)
  /\ "rank" \in DOMAIN sets => IsOption(sets["rank"], Int)
  /\ "data" \in DOMAIN sets => Mirrored \subseteq DOMAIN sets /\ sets["data"] = m.data

\* The columns of the row after the UPDATE.
NewColumns(m, sets) ==
  LET json == SyncJsonFields(m, DOMAIN sets)
  IN  [c \in DOMAIN sets \cup {"at"} \cup (IF json.sent THEN {"data"} ELSE {}) |->
         IF c = "at" THEN Now ELSE IF c = "data" /\ json.sent THEN json.data ELSE sets[c]]

NewRow(m, sets, i) == Over(NewColumns(m, sets), wrote[i])
NewCopy(m, sets)   == [m EXCEPT !.at = Now, !.data = Sync(m, DOMAIN sets)]
SetSame(m, sets)   == {c \in DOMAIN sets : sets[c] = m[c]}
NewKept(t, m, sets, i) ==
  IF "data" \notin DOMAIN NewColumns(m, sets) THEN kept[i] \ DOMAIN sets
  ELSE {c \in Mirrored : IF c \in DOMAIN sets THEN c \in SetSame(m, sets) ELSE t \in fresh /\ c \in kept[i]}

\* A write over a row is a write over what the row was written with.
LEMMA StoredOver ==
  ASSUME NEW f, NEW w, DOMAIN w = Columns, DOMAIN f \subseteq Columns
  PROVE  /\ Over(Stored(f), Stored(w)) = Stored(Over(f, w))
         /\ Over(f, w) = [c \in Columns |-> IF c \in DOMAIN f THEN f[c] ELSE w[c]]
<1>1. Over(f, w) = [c \in Columns |-> IF c \in DOMAIN f THEN f[c] ELSE w[c]]
  BY DEF Over
<1> DEFINE v == Over(f, w)
           sf == Stored(f)
           sw == Stored(w)
           K(c, q) == Kept(db, ToColumn(FieldTag(c), q))
<1>2. Stored(v) = [c \in Columns |-> IF c \in DOMAIN f THEN K(c, f[c]) ELSE K(c, w[c])]
  <2>1. DOMAIN v = Columns /\ \A c \in Columns : v[c] = IF c \in DOMAIN f THEN f[c] ELSE w[c]
    BY <1>1
  <2> HIDE DEF v
  <2>2. QED BY <2>1 DEF Stored
<1>3. sf = [c \in DOMAIN f |-> K(c, f[c])] /\ sw = [c \in Columns |-> K(c, w[c])]
  BY DEF Stored
<1> HIDE DEF v, sf, sw, K
<1>4. Over(sf, sw) = [c \in Columns |-> IF c \in DOMAIN f THEN K(c, f[c]) ELSE K(c, w[c])]
  BY <1>3 DEF Over
<1>5. QED BY <1>1, <1>2, <1>4 DEF v, sf, sw

\* The row after an update holds the values passed, the time and the document of the copy, and
\* mirrors what it promises.
LEMMA Overwritten ==
  ASSUME ModelInv, NEW t \in Callers, NEW m, NEW sets, Passed(t, m, sets),
         NEW i \in Present, i = m.id
  PROVE  LET w2 == NewRow(m, sets, i)
             m2 == NewCopy(m, sets)
             kept2 == NewKept(t, m, sets, i)
         IN  /\ w2 = [c \in Columns |-> w2[c]] /\ IsModel(w2)
             /\ Over(Stored(NewColumns(m, sets)), table.rows[i]) = Stored(w2)
             /\ kept2 \subseteq Mirrored
             /\ \A c \in kept2 : w2.data # <<>> /\ (Room(w2.data, c) => At(w2.data[1], c) = w2[c])
             /\ IsCopy(m2) /\ m2.id = i
             /\ t \in fresh /\ DOMAIN sets \subseteq SetSame(m, sets) => Like(m2, w2)
<1> DEFINE C    == DOMAIN sets
           doc  == IF m.data = <<>> THEN Empty ELSE m.data[1]
           d    == Sync(m, C)
           sent == C \cap Mirrored # {} /\ d[1].kind = "object"
           f    == NewColumns(m, sets)
           w    == wrote[i]
           w2   == Over(f, w)
           same(c) == c \in C /\ sets[c] = m[c]
           kept2 == IF "data" \notin DOMAIN f THEN kept[i] \ C
                    ELSE {c \in Mirrored : IF c \in C THEN same(c) ELSE t \in fresh /\ c \in kept[i]}
           m2   == [m EXCEPT !.at = Now, !.data = d]
<1>1. /\ Written(i) /\ Mirroring(i) /\ i \in Nat /\ kept[i] \subseteq Mirrored
      /\ IsModel(w) /\ DOMAIN w = Columns
  <2>1. i \in Ids /\ i \in Nat /\ Written(i) /\ Mirroring(i)
    BY PresentIsWritten
  <2>2. QED BY <2>1 DEF Written, ModelInv, Shaped
<1>2. \A c \in kept[i] : w.data # <<>> /\ (Room(w.data, c) => At(w.data[1], c) = w[c])
  BY <1>1 DEF Mirroring
<1>3. /\ IsData(d) /\ d # <<>> /\ d[1].kind = doc.kind
      /\ doc.kind # "object" => d = m.data
      /\ C \cap Mirrored = {} => d = m.data \/ (m.data = <<>> /\ d = <<Empty>>)
      /\ \A c \in Mirrored \cap C : Room(d, c) => At(d[1], c) = m[c]
      /\ doc.kind = "object" =>
           \A c \in Mirrored \ C : At(d[1], c) = At(doc, c) /\ (c = "rank" => d[1].is = doc.is)
  BY SyncFacts DEF Passed, IsCopy, IsModel
<1>4. f = [c \in C \cup {"at"} \cup (IF sent THEN {"data"} ELSE {}) |->
             IF c = "at" THEN Now ELSE IF c = "data" /\ sent THEN d ELSE sets[c]]
  BY DEF NewColumns, SyncJsonFields
<1>5. C \subseteq {"x", "level", "rank", "data"} /\ {"x", "level", "rank", "data", "at"} = Columns
  BY DEF Passed, Columns
<1> HIDE DEF d, sent, doc
<1>6. /\ DOMAIN f = C \cup {"at"} \cup (IF sent THEN {"data"} ELSE {})
      /\ f["at"] = Now /\ (sent => f["data"] = d)
      /\ \A c \in C : c # "data" \/ ~sent => f[c] = sets[c]
  BY <1>4, <1>5
<1> HIDE DEF f
<1>7. DOMAIN f \subseteq Columns
  BY <1>5, <1>6
<1>8. w2 = [c \in Columns |-> IF c \in DOMAIN f THEN f[c] ELSE w[c]]
  BY <1>1, <1>7, StoredOver
<1>9. Over(Stored(f), table.rows[i]) = Stored(w2)
  BY <1>1, <1>7, StoredOver DEF Written
<1> HIDE DEF w2
<1>10. (\A c \in Columns : w2[c] = IF c \in DOMAIN f THEN f[c] ELSE w[c]) /\ w2 = [c \in Columns |-> w2[c]]
  BY <1>8
<1>11. /\ w2.at = Now
       /\ \A c \in {"x", "level", "rank"} : w2[c] = IF c \in C THEN sets[c] ELSE w[c]
       /\ w2.data = IF sent THEN d ELSE IF "data" \in C THEN m.data ELSE w.data
       /\ "data" \in DOMAIN f <=> sent \/ "data" \in C
  BY <1>5, <1>6, <1>10 DEF Passed
<1>12. w2.x = (IF "x" \in C THEN sets["x"] ELSE w.x) /\ w2.level = (IF "level" \in C THEN sets["level"] ELSE w.level)
       /\ w2.rank = (IF "rank" \in C THEN sets["rank"] ELSE w.rank)
  BY <1>11
<1>13. IsOption(Now, Int)
  BY DEF IsOption, Now, ModelInv, Shaped
<1>14. IsModel(w2)
  <2>1. IsData(w2.data)
    BY <1>1, <1>3, <1>11 DEF Passed, IsCopy, IsModel
  <2>2. IsOption(w2.x, InType(shape.tag)) /\ (w2.x = <<>> => shape.opt)
    BY <1>1, <1>12 DEF Passed, IsModel
  <2>3. IsOption(w2.level, Int) /\ IsOption(w2.rank, Int)
    BY <1>1, <1>12 DEF Passed, IsModel
  <2>4. QED BY <1>11, <1>13, <2>1, <2>2, <2>3 DEF IsModel
<1>15. /\ DOMAIN m2 = {"id"} \cup Columns /\ m2.id = m.id /\ m2.x = m.x /\ m2.level = m.level /\ m2.rank = m.rank
       /\ m2.data = d /\ m2.at = Now
  BY <1>5 DEF Passed, IsCopy
<1> HIDE DEF m2
<1>16. IsCopy(m2) /\ m2.id = i
  BY <1>3, <1>13, <1>15 DEF Passed, IsCopy, IsModel
<1>17. kept2 \subseteq Mirrored
  BY <1>1
<1>18. ASSUME NEW c \in kept2 PROVE w2.data # <<>> /\ (Room(w2.data, c) => At(w2.data[1], c) = w2[c])
  <2>1. c \in Mirrored /\ c \in {"level", "rank"}
    BY <1>17 DEF Mirrored
  <2>2. CASE "data" \notin DOMAIN f
    <3>1. c \in kept[i] /\ c \notin C
      BY <2>2
    <3>2. w2.data = w.data /\ w2[c] = w[c]
      BY <1>11, <2>1, <2>2, <3>1
    <3>3. QED BY <1>2, <3>1, <3>2
  <2>3. CASE sent /\ c \in C
    <3>1. sets[c] = m[c]
      BY <1>11, <2>3
    <3>2. w2.data = d /\ w2[c] = m[c]
      BY <1>11, <2>1, <2>3, <3>1
    <3>3. QED BY <1>3, <2>1, <2>3, <3>2
  <2>4. CASE sent /\ c \notin C
    <3>1. t \in fresh /\ c \in kept[i]
      BY <1>11, <2>4
    <3>2. w.data # <<>> /\ (Room(w.data, c) => At(w.data[1], c) = w[c])
      BY <1>2, <3>1
    <3>3. FreshHeld(t)
      BY <3>1 DEF ModelInv
    <3>4. mem[t].data = w.data
      BY <3>2, <3>3 DEF FreshHeld, Like, Passed
    <3>5. "data" \notin C => m.data = mem[t].data
      <4>1. \A k \in Columns \ C : m[k] = mem[t][k]
        BY DEF Passed
      <4>2. "data" \in Columns
        BY <1>5
      <4>3. QED BY <4>1, <4>2
    <3>6. CASE "data" \notin C
      <4>1. m.data = w.data /\ doc = w.data[1]
        BY <3>2, <3>4, <3>5, <3>6 DEF doc
      <4>2. w2.data = d /\ w2[c] = w[c]
        BY <1>11, <2>1, <2>4
      <4>3. doc.kind = "object"
        BY <1>3, <2>4 DEF sent
      <4>4. At(d[1], c) = At(doc, c) /\ (c = "rank" => d[1].is = doc.is)
        BY <1>3, <2>1, <2>4, <4>3
      <4>5. Room(d, c) => Room(w.data, c)
        BY <1>3, <3>2, <4>1, <4>4 DEF Room
      <4>6. QED BY <1>3, <3>2, <4>1, <4>2, <4>4, <4>5
    <3>7. CASE "data" \in C
      BY <2>1, <2>4, <3>7 DEF Passed
    <3>8. QED BY <3>6, <3>7
  <2>5. CASE ~sent /\ "data" \in C
    <3>1. C \cap Mirrored # {}
      BY <2>5 DEF Passed, Mirrored
    <3>2. d[1].kind # "object"
      BY <2>5, <3>1 DEF sent
    <3>3. d = m.data /\ w2.data = d
      BY <1>3, <1>11, <2>5, <3>2
    <3>4. QED BY <1>3, <3>2, <3>3 DEF Room
  <2>6. QED BY <1>11, <2>2, <2>3, <2>4, <2>5
<1>19. ASSUME t \in fresh, \A c \in C : same(c) PROVE Like(m2, w2)
  <2>1. FreshHeld(t)
    BY <1>19 DEF ModelInv
  <2>2. Like(mem[t], w) /\ mem[t].id = i
    BY <2>1 DEF FreshHeld, Passed
  <2>3. \A c \in Columns \ C : m[c] = mem[t][c]
    BY DEF Passed
  <2>4. /\ w2.x = IF "x" \in C THEN m.x ELSE w.x
        /\ w2.level = IF "level" \in C THEN m.level ELSE w.level
        /\ w2.rank = IF "rank" \in C THEN m.rank ELSE w.rank
    BY <1>12, <1>19
  <2>5. /\ "x" \notin C => m.x = mem[t].x
        /\ "level" \notin C => m.level = mem[t].level
        /\ "rank" \notin C => m.rank = mem[t].rank
        /\ "data" \notin C => m.data = mem[t].data
    BY <1>5, <2>3
  <2>6. IF shape.tag = "datetime" THEN Near(m2.x, w2.x) ELSE m2.x = w2.x
    BY <1>15, <2>2, <2>4, <2>5 DEF Like, Near
  <2>7. m2.level = w2.level /\ m2.rank = w2.rank
    BY <1>15, <2>2, <2>4, <2>5 DEF Like
  <2>8. Near(m2.at, w2.at)
    BY <1>11, <1>15 DEF Near
  <2>9. m2.data = w2.data \/ (w2.data = <<>> /\ m2.data = <<Empty>>)
    <3>1. CASE sent
      BY <1>11, <1>15, <3>1
    <3>2. CASE ~sent /\ "data" \in C
      <4>1. C \cap Mirrored # {}
        BY <3>2 DEF Passed, Mirrored
      <4>2. d = m.data
        BY <1>3, <3>2, <4>1 DEF sent
      <4>3. QED BY <1>11, <1>15, <3>2, <4>2
    <3>3. CASE ~sent /\ "data" \notin C
      <4>1. w2.data = w.data /\ m.data = mem[t].data
        BY <1>11, <2>5, <3>3
      <4>2. w.data = m.data \/ (w.data = <<>> /\ m.data = <<Empty>>)
        BY <2>2, <4>1 DEF Like
      <4>3. d = m.data \/ (m.data = <<>> /\ d = <<Empty>>)
        BY <1>3, <3>3 DEF sent
      <4>4. QED BY <1>15, <4>1, <4>2, <4>3
    <3>4. QED BY <3>1, <3>2, <3>3
  <2>10. QED BY <2>6, <2>7, <2>8, <2>9 DEF Like
<1>20. w2 = NewRow(m, sets, i) /\ m2 = NewCopy(m, sets)
  BY DEF w2, m2, d, f, NewRow, NewCopy
<1>21. kept2 = NewKept(t, m, sets, i)
  <2>1. \A c \in Mirrored : c \in C => (same(c) <=> c \in SetSame(m, sets))
    BY DEF SetSame
  <2>2. QED BY <2>1 DEF f, NewKept
<1>22. C \subseteq SetSame(m, sets) => \A c \in C : same(c)
  BY DEF SetSame
<1>23. t \in fresh /\ C \subseteq SetSame(m, sets) => Like(m2, w2)
  BY <1>19, <1>22
<1>24. Over(Stored(NewColumns(m, sets)), table.rows[i]) = Stored(w2)
  BY <1>9 DEF f
<1> HIDE DEF kept2
<1>25. QED BY <1>10, <1>14, <1>16, <1>17, <1>18, <1>20, <1>21, <1>23, <1>24

LEMMA WriteKeeps ==
  ASSUME ModelInv, NEW t \in Callers, NEW m, NEW sets, Passed(t, m, sets), NEW how, Write(t, m, sets, how)
  PROVE  ModelInv'
<1>1. PICK i : i = m.id
  OBVIOUS
<1> DEFINE C == DOMAIN sets
           f == NewColumns(m, sets)
           row == Over(Stored(f), table.rows[i])
           works == i \in Present => ~Clashes(i, row)
           done == works /\ i \in Present /\ how # "refused"
           kept2 == NewKept(t, m, sets, i)
           m2 == NewCopy(m, sets)
           ok == how = "ok" /\ works
<1>2. UInv'
  BY WriteStep DEF ModelInv
<1>3. /\ UNCHANGED shape /\ calls' = calls + 1 /\ mem' = [mem EXCEPT ![t] = m2]
      /\ last' = [last EXCEPT ![t] = <<"update", ok>>]
  BY <1>1 DEF Write, Calls, SyncJsonFields, NewColumns, NewCopy
<1>4. done => /\ table' = [table EXCEPT !.rows[i] = row]
              /\ wrote' = [wrote EXCEPT ![i] = NewRow(m, sets, i)]
              /\ kept' = [kept EXCEPT ![i] = kept2]
              /\ fresh' = Others(t, i) \cup
                   (IF how = "ok" /\ t \in fresh /\ C \subseteq SetSame(m, sets) THEN {t} ELSE {})
  <2>1. (\A c \in C : c \in C /\ sets[c] = m[c]) <=> C \subseteq SetSame(m, sets)
    BY DEF SetSame
  <2>2. {c \in Mirrored : IF c \in C THEN c \in C /\ sets[c] = m[c] ELSE t \in fresh /\ c \in kept[i]}
          = {c \in Mirrored : IF c \in C THEN c \in SetSame(m, sets) ELSE t \in fresh /\ c \in kept[i]}
    BY DEF SetSame
  <2>3. QED BY <1>1, <2>1, <2>2 DEF Write, SyncJsonFields, NewColumns, NewRow, NewKept
<1>5. ~done => UNCHANGED <<table, wrote, kept>> /\ fresh' = fresh \ {t}
  BY <1>1 DEF Write, SyncJsonFields, NewColumns, Same
<1>6. done => i \in Present
  OBVIOUS
<1> HIDE DEF done, works, ok, f, kept2
<1>7. /\ calls' \in Nat /\ t \in DOMAIN mem /\ t \in DOMAIN last /\ Ids' = Ids /\ db' = db
      /\ DOMAIN wrote = Ids /\ kept \in [Ids -> SUBSET Mirrored] /\ DOMAIN table.rows = Ids
      /\ DOMAIN table = TableFields
  BY <1>3 DEF ModelInv, Shaped, db, Ids, UInv, KeysHold
<1>8. IsCopy(m2)
  <2> DEFINE d == Sync(m, C)
  <2> HIDE DEF d
  <2>1. IsData(d) /\ IsOption(Now, Int)
    <3>1. IsData(d)
      BY SyncFacts DEF d, Passed, IsCopy, IsModel
    <3>2. QED BY <3>1 DEF IsOption, Now, ModelInv, Shaped
  <2>2. /\ DOMAIN m2 = {"id"} \cup Columns /\ m2.id = m.id /\ m2.x = m.x /\ m2.level = m.level
        /\ m2.rank = m.rank /\ m2.data = d /\ m2.at = Now
    BY DEF Passed, IsCopy, Columns, NewCopy, d
  <2> HIDE DEF m2
  <2>3. QED BY <2>1, <2>2 DEF Passed, IsCopy, IsModel
<1> HIDE DEF m2
<1>9. mem'[t] = m2 /\ last'[t] = <<"update", ok>>
  BY <1>3, <1>7
<1>10. ReadHeld(t)'
  <2>1. last'[t][1] = "update"
    BY <1>9
  <2>2. QED BY <2>1 DEF ReadHeld
<1>11. CASE done
  <2>1. i \in Present /\ i \in Ids /\ i \in Nat
    BY <1>6, <1>11, PresentIsWritten
  <2> DEFINE w2 == NewRow(m, sets, i)
  <2>2. w2 = NewRow(m, sets, i)
    OBVIOUS
  <2>3. /\ w2 = [c \in Columns |-> w2[c]] /\ IsModel(w2) /\ row = Stored(w2)
        /\ kept2 \subseteq Mirrored
        /\ \A c \in kept2 : w2.data # <<>> /\ (Room(w2.data, c) => At(w2.data[1], c) = w2[c])
        /\ m2.id = i
        /\ t \in fresh /\ C \subseteq SetSame(m, sets) => Like(m2, w2)
    BY <1>1, <2>1, Overwritten DEF m2, kept2, f
  <2> HIDE DEF row, w2
  <2>4. table'.rows = [table.rows EXCEPT ![i] = row] /\ wrote' = [wrote EXCEPT ![i] = w2]
        /\ kept' = [kept EXCEPT ![i] = kept2]
    BY <1>4, <1>7, <1>11, <2>2 DEF TableFields
  <2>5. /\ \A j \in Ids \ {i} : table'.rows[j] = table.rows[j] /\ wrote'[j] = wrote[j] /\ kept'[j] = kept[j]
        /\ table'.rows[i] = row /\ wrote'[i] = w2 /\ kept'[i] = kept2
    BY <1>7, <2>1, <2>4
  <2>6. DOMAIN wrote' = Ids /\ kept' \in [Ids -> SUBSET Mirrored]
    BY <1>7, <2>3, <2>4
  <2>7. Written(i)'
    BY <1>3, <1>7, <2>3, <2>5 DEF Written, IsModel, Stored, FieldTag
  <2>8. Mirroring(i)'
    BY <2>3, <2>5 DEF Mirroring, Room, At
  <2>9. RowHeld(i)'
    BY <2>7, <2>8 DEF RowHeld
  <2>10. fresh' = Others(t, i) \cup (IF how = "ok" /\ t \in fresh /\ C \subseteq SetSame(m, sets) THEN {t} ELSE {})
    BY <1>4, <1>11
  <2>11. fresh' \subseteq {u \in fresh \ {t} : mem[u].id \notin {i}} \cup {t}
    BY <2>10 DEF Others
  <2>12. t \in fresh' => FreshHeld(t)'
    <3>1. SUFFICES ASSUME t \in fresh' PROVE FreshHeld(t)'
      OBVIOUS
    <3>2. t \in fresh /\ C \subseteq SetSame(m, sets)
      BY <2>10, <3>1 DEF Others
    <3>3. Like(m2, w2)
      BY <2>3, <3>2
    <3>4. m2 # NoModel
      BY <2>1, <2>3 DEF NoModel
    <3>5. QED BY <1>3, <1>7, <1>9, <2>1, <2>3, <2>5, <2>7, <3>3, <3>4 DEF FreshHeld, Like, NoModel
  <2>13. OneCall(t, {i}, m2, "update", ok)
    BY <1>3, <1>7, <1>8, <1>9, <2>5, <2>6, <2>11 DEF OneCall, ModelInv, Shaped
  <2>14. QED BY <1>2, <1>10, <2>9, <2>12, <2>13, OneCallKeeps
<1>12. CASE ~done
  <2>1. UNCHANGED <<table, wrote, kept>> /\ fresh' = fresh \ {t}
    BY <1>5, <1>12
  <2>2. OneCall(t, {}, m2, "update", ok)
    BY <1>3, <1>7, <1>8, <1>9, <2>1 DEF OneCall, ModelInv, Shaped
  <2>3. QED BY <1>2, <1>10, <2>1, <2>2, OneCallKeeps
<1>13. QED BY <1>11, <1>12

\* The values programs put into fields are of their types.
LEMMA ValuesTyped ==
  ASSUME shape \in Shapes
  PROVE  /\ \A v \in Values("x") : IsOption(v, InType(shape.tag)) /\ (v = <<>> => shape.opt)
         /\ \A v \in Values("level") \cup Values("rank") : IsOption(v, Int)
<1>1. /\ \A v \in Samples[shape.tag] : v \in InType(shape.tag)
      /\ \A v \in Samples["i32"] : v \in Int
  <2>1. shape.tag \in Tags /\ "i32" \in Tags /\ InType("i32") = Int
    BY ShapeFacts DEF Tags, Ints, InType
  <2>2. QED BY <2>1, ShapeFacts
<1>2. ASSUME NEW v \in Values("x") PROVE IsOption(v, InType(shape.tag)) /\ (v = <<>> => shape.opt)
  <2>1. v \in {<<u>> : u \in Samples[shape.tag]} \/ (shape.opt /\ v = <<>>)
    BY <1>2, FieldTags DEF Values, Mirrored
  <2>2. CASE shape.opt /\ v = <<>>
    BY <2>2 DEF IsOption
  <2>3. CASE v \in {<<u>> : u \in Samples[shape.tag]}
    <3>1. PICK u \in Samples[shape.tag] : v = <<u>>
      BY <2>3
    <3>2. v[1] = u /\ v # <<>>
      BY <3>1
    <3>3. QED BY <1>1, <3>1, <3>2 DEF IsOption
  <2>4. QED BY <2>1, <2>2, <2>3
<1>3. ASSUME NEW v \in Values("level") \cup Values("rank") PROVE IsOption(v, Int)
  <2>1. v \in {<<u>> : u \in Samples["i32"]} \/ v = <<>>
    BY <1>3, FieldTags DEF Values
  <2>2. CASE v = <<>>
    BY <2>2 DEF IsOption
  <2>3. CASE v \in {<<u>> : u \in Samples["i32"]}
    <3>1. PICK u \in Samples["i32"] : v = <<u>>
      BY <2>3
    <3>2. v[1] = u
      BY <3>1
    <3>3. QED BY <1>1, <3>1, <3>2 DEF IsOption
  <2>4. QED BY <2>1, <2>2, <2>3
<1>4. QED BY <1>2, <1>3

LEMMA CreateKeepsRows == ASSUME ModelInv, NEW t \in Callers, Create(t) PROVE ModelInv'
<1>1. IsOption(Now, Int) /\ shape \in Shapes
  BY DEF IsOption, Now, ModelInv, Shaped
<1>2. PICK how :
        \/ \E v \in Values("x"), dr \in Bounds[shape].drafts :
             Insert(t, [id |-> 0, x |-> v, level |-> dr.level, rank |-> dr.rank, data |-> dr.data, at |-> Now], how)
        \/ mem[t] # NoModel /\ Insert(t, [mem[t] EXCEPT !.at = Now], how)
  BY DEF Create
<1>3. CASE \E v \in Values("x"), dr \in Bounds[shape].drafts :
             Insert(t, [id |-> 0, x |-> v, level |-> dr.level, rank |-> dr.rank, data |-> dr.data, at |-> Now], how)
  <2>1. PICK v \in Values("x"), dr \in Bounds[shape].drafts :
          Insert(t, [id |-> 0, x |-> v, level |-> dr.level, rank |-> dr.rank, data |-> dr.data, at |-> Now], how)
    BY <1>3
  <2> DEFINE m == [id |-> 0, x |-> v, level |-> dr.level, rank |-> dr.rank, data |-> dr.data, at |-> Now]
  <2>2. m.id = 0 /\ m.x = v /\ m.level = dr.level /\ m.rank = dr.rank /\ m.data = dr.data /\ m.at = Now
    OBVIOUS
  <2>3. DOMAIN m = {"id"} \cup Columns
    BY DEF Columns
  <2>4. IsOption(dr.level, Int) /\ IsOption(dr.rank, Int) /\ IsData(dr.data)
    BY <1>1, ShapeFacts
  <2> HIDE DEF m
  <2>5. IsCopy(m)
    BY <1>1, <2>2, <2>3, <2>4, ValuesTyped DEF IsCopy, IsModel
  <2>6. QED BY <2>1, <2>5, InsertKeeps DEF m
<1>4. CASE mem[t] # NoModel /\ Insert(t, [mem[t] EXCEPT !.at = Now], how)
  <2>1. IsCopy(mem[t])
    BY <1>4 DEF ModelInv, CopyHeld
  <2> DEFINE m == [mem[t] EXCEPT !.at = Now]
  <2>2. /\ DOMAIN m = {"id"} \cup Columns /\ m.id = mem[t].id /\ m.x = mem[t].x /\ m.level = mem[t].level
        /\ m.rank = mem[t].rank /\ m.data = mem[t].data /\ m.at = Now
    BY <2>1 DEF IsCopy, Columns
  <2> HIDE DEF m
  <2>3. IsCopy(m)
    BY <1>1, <2>1, <2>2 DEF IsCopy, IsModel
  <2>4. QED BY <1>4, <2>3, InsertKeeps DEF m
<1>5. QED BY <1>2, <1>3, <1>4

LEMMA UpdateKeepsRows == ASSUME ModelInv, NEW t \in Callers, Update(t) PROVE ModelInv'
<1>1. mem[t] # NoModel
  BY DEF Update
<1>2. IsCopy(mem[t]) /\ shape \in Shapes
  BY <1>1 DEF ModelInv, CopyHeld, Shaped
<1>3. PICK c \in {"x", "level", "rank"}, how \in Outcomes : \E val \in Values(c) :
        LET set == [mem[t] EXCEPT ![c] = val]
        IN  \/ mem[t].id > 0 /\ Write(t, set, [k \in {c} |-> val], how)
            \/ mem[t].id > 0 /\ Write(t, set, [k \in {"x", "level", "rank", "data"} |-> set[k]], how)
            \/ mem[t].id > 0 /\ Write(t, mem[t], [k \in {c} |-> val], how)
            \/ /\ mem[t].id = 0 /\ how = "refused" /\ Calls(t, "update", FALSE) /\ Same
               /\ mem' = [mem EXCEPT ![t] = set] /\ fresh' = fresh \ {t}
  BY DEF Update
<1>4. PICK val \in Values(c) :
        LET set == [mem[t] EXCEPT ![c] = val]
        IN  \/ mem[t].id > 0 /\ Write(t, set, [k \in {c} |-> val], how)
            \/ mem[t].id > 0 /\ Write(t, set, [k \in {"x", "level", "rank", "data"} |-> set[k]], how)
            \/ mem[t].id > 0 /\ Write(t, mem[t], [k \in {c} |-> val], how)
            \/ /\ mem[t].id = 0 /\ how = "refused" /\ Calls(t, "update", FALSE) /\ Same
               /\ mem' = [mem EXCEPT ![t] = set] /\ fresh' = fresh \ {t}
  BY <1>3
<1> DEFINE set == [mem[t] EXCEPT ![c] = val]
           one == [k \in {c} |-> val]
           all == [k \in {"x", "level", "rank", "data"} |-> set[k]]
<1>5. \/ mem[t].id > 0 /\ Write(t, set, one, how)
      \/ mem[t].id > 0 /\ Write(t, set, all, how)
      \/ mem[t].id > 0 /\ Write(t, mem[t], one, how)
      \/ Calls(t, "update", FALSE) /\ Same /\ mem' = [mem EXCEPT ![t] = set] /\ fresh' = fresh \ {t}
  BY <1>4
<1>6. /\ c = "x" => IsOption(val, InType(shape.tag)) /\ (val = <<>> => shape.opt)
      /\ c \in {"level", "rank"} => IsOption(val, Int)
  BY <1>2, ValuesTyped
<1>7. /\ DOMAIN set = {"id"} \cup Columns /\ set.id = mem[t].id
      /\ \A k \in Columns : set[k] = IF k = c THEN val ELSE mem[t][k]
  BY <1>2 DEF IsCopy, Columns
<1> HIDE DEF set
<1>8. IsCopy(set)
  <2>1. /\ set.x = (IF c = "x" THEN val ELSE mem[t].x) /\ set.level = (IF c = "level" THEN val ELSE mem[t].level)
        /\ set.rank = (IF c = "rank" THEN val ELSE mem[t].rank)
        /\ set.data = mem[t].data /\ set.at = mem[t].at
    BY <1>7 DEF Columns
  <2>2. QED BY <1>2, <1>6, <1>7, <2>1 DEF IsCopy, IsModel
<1>9. /\ DOMAIN one = {c} /\ one[c] = val
      /\ DOMAIN all = {"x", "level", "rank", "data"} /\ all["x"] = set.x /\ all["level"] = set.level
      /\ all["rank"] = set.rank /\ all["data"] = set.data
  OBVIOUS
<1> HIDE DEF one, all
<1>10. mem[t].id > 0 => Passed(t, set, one) /\ Passed(t, mem[t], one)
  BY <1>2, <1>6, <1>7, <1>8, <1>9 DEF Passed
<1>11. mem[t].id > 0 => Passed(t, set, all)
  <2>1. \A k \in Columns \ DOMAIN all : set[k] = mem[t][k]
    BY <1>7, <1>9
  <2>2. IsOption(all["x"], InType(shape.tag)) /\ (all["x"] = <<>> => shape.opt)
    BY <1>8, <1>9 DEF IsCopy, IsModel
  <2>3. IsOption(all["level"], Int) /\ IsOption(all["rank"], Int)
    BY <1>8, <1>9 DEF IsCopy, IsModel
  <2>4. QED BY <1>2, <1>7, <1>8, <1>9, <2>1, <2>2, <2>3 DEF Passed, Mirrored
<1>12. CASE mem[t].id > 0 /\ \E m, sets : Passed(t, m, sets) /\ Write(t, m, sets, how)
  BY <1>12, WriteKeeps
<1>13. PICK no : no = FALSE
  OBVIOUS
<1>14. CASE Calls(t, "update", no) /\ Same /\ mem' = [mem EXCEPT ![t] = set] /\ fresh' = fresh \ {t}
  <2>1. UInv'
    BY <1>14, SameTable DEF ModelInv, Calls, Same
  <2>2. /\ UNCHANGED <<shape, table, wrote, kept>> /\ calls' = calls + 1
        /\ last' = [last EXCEPT ![t] = <<"update", no>>]
    BY <1>14 DEF Calls, Same
  <2>3. t \in DOMAIN mem /\ t \in DOMAIN last /\ calls \in Nat /\ Ids' = Ids
    BY <2>2 DEF ModelInv, Shaped, Ids
  <2>4. mem' = [mem EXCEPT ![t] = set]
    BY <1>14
  <2>5. /\ mem'[t] = set /\ last'[t] = <<"update", no>> /\ calls' \in Nat /\ Ids' = Ids
    BY <2>2, <2>3, <2>4
  <2>6. OneCall(t, {}, set, "update", no)
    BY <1>8, <1>14, <2>2, <2>5 DEF OneCall, ModelInv, Shaped
  <2>7. last'[t][1] = "update"
    BY <2>5
  <2>8. ReadHeld(t)'
    BY <2>7 DEF ReadHeld
  <2>9. t \notin fresh'
    BY <1>14
  <2>10. QED BY <2>1, <2>6, <2>8, <2>9, OneCallKeeps
<1>15. \/ mem[t].id > 0 /\ \E m, sets : Passed(t, m, sets) /\ Write(t, m, sets, how)
       \/ Calls(t, "update", no) /\ Same /\ mem' = [mem EXCEPT ![t] = set] /\ fresh' = fresh \ {t}
  <2>1. \/ mem[t].id > 0 /\ Write(t, set, one, how)
        \/ mem[t].id > 0 /\ Write(t, set, all, how)
        \/ mem[t].id > 0 /\ Write(t, mem[t], one, how)
        \/ Calls(t, "update", no) /\ Same /\ mem' = [mem EXCEPT ![t] = set] /\ fresh' = fresh \ {t}
    BY <1>5, <1>13
  <2>2. CASE mem[t].id > 0 /\ Write(t, set, one, how)
    BY <1>10, <2>2
  <2>3. CASE mem[t].id > 0 /\ Write(t, set, all, how)
    BY <1>11, <2>3
  <2>4. CASE mem[t].id > 0 /\ Write(t, mem[t], one, how)
    BY <1>10, <2>4
  <2>5. QED BY <2>1, <2>2, <2>3, <2>4
<1>16. QED BY <1>12, <1>14, <1>15

LEMMA ModelStep == ASSUME ModelInv, [ModelNext]_modelVars PROVE ModelInv'
<1>1. CASE UNCHANGED modelVars
  <2>1. UInv'
    BY <1>1, SameTable DEF ModelInv, modelVars
  <2>2. QED BY <1>1, <2>1, RowsStay DEF modelVars
<1>2. CASE ModelNext
  <2>1. ASSUME NEW t \in Bounds[shape].tasks, Create(t) \/ First(t) \/ All(t) \/ Last(t) \/ Update(t) \/ Delete(t)
        PROVE  ModelInv'
    <3>1. t \in Callers
      BY ShapeFacts DEF ModelInv, Shaped
    <3>2. QED BY <2>1, <3>1, CreateKeepsRows, QueriesKeep, UpdateKeepsRows, DeleteKeeps
  <2>2. QED BY <1>2, <2>1, MigrateKeepsRows DEF ModelNext
<1>3. QED BY <1>1, <1>2

\* In every behaviour of programs that migrate, restart, create, read, update and
\* delete models, a row holds what the statements last wrote to it, as the driver
\* and the server store it, with the mirrors that update promised; every copy holds
\* values of its fields' types, and one that is fresh is like its row.
THEOREM RowsHoldWhatWasWritten == ModelSpec => []ModelInv
BY ModelInitHolds, ModelStep, PTL DEF ModelSpec

\* Whatever the dialect and the type of a field, all values included: what first, all
\* and last return is what the last statement that wrote the column was given, to the
\* second for a time, and every row that create or update wrote can be read.
THEOREM ModelsReadIsWritten == ModelSpec => []ReadIsWritten
<1>1. ModelInv => ReadIsWritten
  BY DEF ModelInv, ReadHeld, ReadIsWritten
<1>2. QED BY <1>1, RowsHoldWhatWasWritten, PTL

\* After an update from a fresh copy whose field is set to the value passed, the document
\* and the column of a mirrored field agree, until a copy that is not fresh is written.
THEOREM ModelsMirrorKept == ModelSpec => []MirrorKept
<1>1. ASSUME ModelInv PROVE MirrorKept
  <2>1. SUFFICES ASSUME NEW i \in Present, NEW c \in kept[i], NEW m \in FromRow(i, FALSE), Room(m.data, c)
                 PROVE  At(m.data[1], c) = m[c]
    BY DEF MirrorKept, Room
  <2>2. i \in Ids /\ Written(i) /\ Mirroring(i)
    BY <1>1, PresentIsWritten
  <2>3. Agrees(m, wrote[i])
    BY <1>1, <2>2, RowRead DEF ModelInv, Shaped
  <2>4. m.data = wrote[i].data /\ m.level = wrote[i].level /\ m.rank = wrote[i].rank
    BY <2>3 DEF Agrees
  <2>5. c \in {"level", "rank"}
    BY <1>1, <2>2 DEF ModelInv, Shaped, Mirrored
  <2>6. m[c] = wrote[i][c]
    BY <2>4, <2>5
  <2>7. QED BY <2>1, <2>2, <2>4, <2>6 DEF Mirroring
<1>2. QED BY <1>1, RowsHoldWhatWasWritten, PTL
=============================================================================
