-------------------------- MODULE MySqlConnection --------------------------
(***************************************************************************)
(* MySqlConnection of src/src/db/mysql.rs: COM_QUERY, the prepared path    *)
(* COM_STMT_PREPARE / EXECUTE / CLOSE, COM_PING and close over one stream  *)
(* behind a tokio mutex with a per-call timeout, and the MySQL server they *)
(* talk to (external).  A packet carries its kind and its statement; the   *)
(* definitions of n columns or parameters are one packet.                  *)
(***************************************************************************)
EXTENDS Naturals, SequencesExt

CONSTANTS Tasks,     \* tokio tasks that hold a clone of the connection
          MaxReq     \* bound on the calls issued

ASSUME MySqlAssumption == MaxReq \in Nat

VARIABLES
  pc,         \* where each task is; a reading task is in the loop it has reached
  req,        \* the call a task is running, 0 when none
  result,     \* what the last call of each task returned
  issued,     \* calls issued so far
  queue,      \* the tokio mutex: its holder, then the waiters
  stream,     \* "open" for Some(TcpStream), "none" once close has taken it
  connected,  \* the flag is_connected reads
  eofs,       \* CLIENT_DEPRECATE_EOF was not negotiated: EOF after definitions
  groups,     \* local of com_stmt_prepare: groups of definitions still to come
  stmt,       \* local of com_stmt_execute_query: a statement id is held
  kept,       \* local of com_stmt_execute_query: `result` while the close is sent
  acc,        \* local: the statements whose data the result holds
  toServer,   \* packets written and not yet read by the server
  toClient,   \* packets the server sent and no task has read
  alive,      \* the server is there
  prepared,   \* statements the server keeps prepared
  verdict,    \* what the server did with each call
  doubt       \* history: how finished calls left the stream; once not empty,
              \* toClient no longer says what the stream holds

clientVars == <<pc, req, result, issued, queue, stream, connected, eofs>>
localVars  == <<groups, stmt, kept, acc>>
serverVars == <<alive, prepared, verdict>>
wireVars   == <<toServer, toClient>>
vars == <<clientVars, localVars, serverVars, wireVars, doubt>>

Ids == 1..MaxReq
PrepareReads == {"prepare", "p_defs", "p_eof"}
ResultReads  == {"first", "cols", "c_eof", "rows", "pong"}
Reading == PrepareReads \cup ResultReads
Writing == {"writing", "executing", "releasing"}
Calling == {"waiting"} \cup Reading \cup Writing
Commands == {"QUERY", "PREPARE", "EXECUTE", "CLOSE", "PING"}
Packets  == {"OK", "ERR", "COUNT", "PREPARED", "DEFS", "EOF", "ROW", "END"}
NoResult == [st |-> "none", from |-> {}]
Results  == [st : {"none", "ok", "err"}, from : SUBSET (0..MaxReq)]

TypeOK ==
  /\ pc \in [Tasks -> {"idle", "closing", "shutting"} \cup Calling]
  /\ req \in [Tasks -> 0..MaxReq]
  /\ result \in [Tasks -> Results]
  /\ issued \in 0..MaxReq
  /\ queue \in Seq(Tasks)
  /\ stream \in {"open", "none"}
  /\ connected \in BOOLEAN /\ eofs \in BOOLEAN /\ alive \in BOOLEAN
  /\ groups \in 0..2 /\ stmt \in BOOLEAN /\ kept \in Results
  /\ acc \subseteq 0..MaxReq
  /\ toServer \in Seq([k : Commands, of : Ids])
  /\ toClient \in Seq([k : Packets, of : Ids, n : 0..2])
  /\ prepared \subseteq Ids
  /\ verdict \in [Ids -> {"none", "done", "failed"}]
  /\ doubt \subseteq {"timeout", "decode", "cut"}

Init ==
  /\ pc = [t \in Tasks |-> "idle"]
  /\ req = [t \in Tasks |-> 0]
  /\ result = [t \in Tasks |-> NoResult]
  /\ issued = 0
  /\ queue = <<>>
  /\ stream = "open"
  /\ connected = TRUE
  /\ eofs \in BOOLEAN
  /\ groups = 0 /\ stmt = FALSE /\ kept = NoResult /\ acc = {}
  /\ toServer = <<>>
  /\ toClient = <<>>
  /\ alive = TRUE
  /\ prepared = {}
  /\ verdict = [r \in Ids |-> "none"]
  /\ doubt = {}

-----------------------------------------------------------------------------
(* The mutex guard, the locals and the return of a call.                   *)

Holds(t) == queue # <<>> /\ Head(queue) = t

Leave(t) == \E i \in DOMAIN queue : queue[i] = t /\ queue' = RemoveAt(queue, i)

ClearLocals == groups' = 0 /\ stmt' = FALSE /\ kept' = NoResult /\ acc' = {}

Return(t, res) ==
  /\ pc' = [pc EXCEPT ![t] = "idle"]
  /\ req' = [req EXCEPT ![t] = 0]
  /\ result' = [result EXCEPT ![t] = res]
  /\ Leave(t)
  /\ IF Holds(t) THEN ClearLocals ELSE UNCHANGED localVars
  /\ UNCHANGED <<issued, stream, connected, eofs>>

ErrResult == [st |-> "err", from |-> {}]
Spoilt    == [st |-> "err", from |-> {0}]     \* an error that leaves packets unread
Fail(t) == Return(t, ErrResult)

Goto(t, phase) ==
  /\ pc' = [pc EXCEPT ![t] = phase]
  /\ UNCHANGED <<req, result, issued, queue, stream, connected, eofs>>

\* Mutant: an error of com_stmt_execute returns at once.
FinishEarly(t, res) ==
  \/ /\ stmt /\ res.st = "ok"
     /\ Goto(t, "releasing") /\ kept' = res
     /\ UNCHANGED <<groups, stmt, acc>>
  \/ (~stmt \/ res.st = "err") /\ Return(t, res)

\* A prepared statement is closed whatever com_stmt_execute returned.
Finish(t, res) ==
  \/ /\ stmt
     /\ Goto(t, "releasing") /\ kept' = res
     /\ UNCHANGED <<groups, stmt, acc>>
  \/ ~stmt /\ Return(t, res)

-----------------------------------------------------------------------------
(* run_query and ping: timer, mutex, write.                                *)

Execute(t) ==
  /\ pc[t] = "idle"
  /\ issued < MaxReq
  /\ issued' = issued + 1
  /\ req' = [req EXCEPT ![t] = issued + 1]
  /\ pc' = [pc EXCEPT ![t] = "waiting"]
  /\ queue' = Append(queue, t)
  /\ result' = [result EXCEPT ![t] = NoResult]
  /\ UNCHANGED <<stream, connected, eofs, localVars, serverVars, wireVars, doubt>>

PingClosed(t) ==
  /\ pc[t] = "idle" /\ ~connected
  /\ result' = [result EXCEPT ![t] = ErrResult]
  /\ UNCHANGED <<pc, req, issued, queue, stream, connected, eofs>>
  /\ UNCHANGED <<localVars, serverVars, wireVars, doubt>>

\* Mutant: the stream is used without the mutex.
AcquireUnlocked(t) ==
  /\ pc[t] = "waiting"
  /\ \/ stream = "open" /\ Goto(t, "writing") /\ UNCHANGED localVars
     \/ stream = "none" /\ Fail(t)
  /\ UNCHANGED <<serverVars, wireVars, doubt>>

Acquire(t) ==
  /\ pc[t] = "waiting" /\ Holds(t)
  /\ \/ stream = "open" /\ Goto(t, "writing") /\ UNCHANGED localVars
     \/ stream = "none" /\ Fail(t)
  /\ UNCHANGED <<serverVars, wireVars, doubt>>

Sent(t, k) == toServer' = Append(toServer, [k |-> k, of |-> req[t]])

Write(t) ==
  /\ \/ pc[t] = "writing" /\ Sent(t, "QUERY") /\ Goto(t, "first") /\ UNCHANGED localVars
     \/ pc[t] = "writing" /\ Sent(t, "PREPARE") /\ Goto(t, "prepare") /\ UNCHANGED localVars
     \/ pc[t] = "writing" /\ Sent(t, "PING") /\ Goto(t, "pong") /\ UNCHANGED localVars
     \/ pc[t] = "executing" /\ Sent(t, "EXECUTE") /\ Goto(t, "first") /\ UNCHANGED localVars
  /\ UNCHANGED <<toClient, serverVars, doubt>>

\* com_stmt_execute_query returns what com_stmt_execute did.
Released(t) ==
  IF kept = Spoilt THEN Return(t, ErrResult) /\ doubt' = doubt \cup {"decode"} /\ toClient' = <<>>
                   ELSE Return(t, kept) /\ UNCHANGED <<doubt, toClient>>

Release(t) ==
  /\ pc[t] = "releasing" /\ Sent(t, "CLOSE")
  /\ Released(t)
  /\ UNCHANGED serverVars

\* A write to a dead peer; the error of com_stmt_close is ignored.
WriteFails(t) ==
  /\ ~alive
  /\ \/ pc[t] = "writing" /\ Fail(t) /\ UNCHANGED <<toClient, doubt>>
     \/ pc[t] = "executing" /\ Finish(t, ErrResult) /\ UNCHANGED <<toClient, doubt>>
     \/ pc[t] = "releasing" /\ Released(t)
  /\ UNCHANGED <<serverVars, toServer>>

-----------------------------------------------------------------------------
(* Reading, one packet a step.                                             *)

\* The definitions of a group are read: EOF, the next group, or the end.
NextGroup(t, left) ==
  IF left = 0 THEN Goto(t, "executing") /\ stmt' = TRUE /\ groups' = 0
              ELSE Goto(t, "p_defs") /\ groups' = left /\ UNCHANGED stmt

ReadPrepare(t, m) ==
  \/ /\ pc[t] = "prepare" /\ m.k = "ERR" /\ Fail(t)
  \/ /\ pc[t] = "prepare" /\ m.k = "PREPARED"
     /\ NextGroup(t, m.n) /\ UNCHANGED <<kept, acc>>
  \/ /\ pc[t] = "p_defs" /\ m.k = "DEFS"
     /\ IF eofs THEN Goto(t, "p_eof") /\ UNCHANGED <<stmt, groups>> ELSE NextGroup(t, groups - 1)
     /\ UNCHANGED <<kept, acc>>
  \/ /\ pc[t] = "p_eof" /\ m.k = "EOF"
     /\ NextGroup(t, groups - 1) /\ UNCHANGED <<kept, acc>>

\* Mutant: no EOF is expected between the definitions and the rows.
ReadResultNoEof(t, m) ==
  LET done == [st |-> "ok", from |-> acc \cup {m.of}] IN
  \/ pc[t] \in {"first", "pong"} /\ m.k = "OK" /\ Finish(t, done)
  \/ pc[t] \in {"first", "pong", "rows"} /\ m.k = "ERR" /\ Finish(t, ErrResult)
  \/ /\ pc[t] \in {"first", "cols"} /\ m.k \in {"COUNT", "DEFS"}
     /\ Goto(t, IF pc[t] = "first" THEN "cols" ELSE "rows") /\ acc' = acc \cup {m.of}
     /\ UNCHANGED <<groups, stmt, kept>>
  \/ pc[t] = "rows" /\ m.k = "END" /\ Finish(t, done)

ReadResult(t, m) ==
  LET done == [st |-> "ok", from |-> acc \cup {m.of}] IN
  \/ pc[t] \in {"first", "pong"} /\ m.k = "OK" /\ Finish(t, done)
  \/ pc[t] \in {"first", "pong", "rows"} /\ m.k = "ERR" /\ Finish(t, ErrResult)
  \/ /\ pc[t] = "first" /\ m.k = "COUNT" /\ Goto(t, "cols") /\ acc' = acc \cup {m.of}
     /\ UNCHANGED <<groups, stmt, kept>>
  \/ /\ pc[t] = "cols" /\ m.k = "DEFS"
     /\ Goto(t, IF eofs THEN "c_eof" ELSE "rows") /\ acc' = acc \cup {m.of}
     /\ UNCHANGED <<groups, stmt, kept>>
  \/ pc[t] = "c_eof" /\ m.k = "EOF" /\ Goto(t, "rows") /\ UNCHANGED localVars
  \/ /\ pc[t] = "rows" /\ m.k = "ROW" /\ acc' = acc \cup {m.of}
     /\ Goto(t, "rows") /\ UNCHANGED <<groups, stmt, kept>>
  \/ pc[t] = "rows" /\ m.k = "END" /\ Finish(t, done)

\* A definition or a row that does not parse: what follows it stays unread.
ReadUndecodable(t, m) ==
  \/ /\ pc[t] \in {"p_defs", "cols", "rows"} /\ m.k \in {"DEFS", "ROW"} /\ ~stmt
     /\ Fail(t)
     /\ doubt' = doubt \cup {"decode"} /\ toClient' = <<>>
  \/ /\ pc[t] \in {"cols", "rows"} /\ m.k \in {"DEFS", "ROW"} /\ stmt
     /\ Finish(t, Spoilt)
     /\ UNCHANGED <<doubt, toClient>>

ReadAligned(t) ==
  LET m == Head(toClient) IN
  /\ doubt = {} /\ toClient # <<>>
  /\ \/ /\ ReadPrepare(t, m) \/ ReadResult(t, m)
        /\ toClient' = Tail(toClient)
        /\ UNCHANGED doubt
     \/ ReadUndecodable(t, m)

\* Whatever the stream holds is taken for the packet the loop is waiting for.
ReadLost(t) ==
  /\ doubt # {}
  /\ \/ pc[t] \in PrepareReads /\ Fail(t)
     \/ pc[t] \in PrepareReads /\ Goto(t, "executing") /\ stmt' = TRUE /\ groups' = 0 /\ UNCHANGED <<kept, acc>>
     \/ pc[t] \in ResultReads /\ Finish(t, ErrResult)
     \/ pc[t] \in ResultReads /\ Finish(t, [st |-> "ok", from |-> acc \cup {0}])
  /\ UNCHANGED <<toClient, doubt>>

ReadEof(t) ==
  /\ ~alive /\ toClient = <<>>
  /\ IF pc[t] \in PrepareReads THEN Fail(t) ELSE Finish(t, ErrResult)
  /\ UNCHANGED <<toClient, doubt>>

Read(t) ==
  /\ pc[t] \in Reading
  /\ ReadAligned(t) \/ ReadLost(t) \/ ReadEof(t)
  /\ UNCHANGED <<toServer, serverVars>>

-----------------------------------------------------------------------------
(* The timeout drops the future; write_packet is two writes.               *)

Timeout(t) ==
  /\ pc[t] \in Calling
  /\ Fail(t)
  /\ \/ pc[t] \in {"waiting", "writing"} /\ UNCHANGED <<doubt, toClient>>
     \/ /\ pc[t] \in Reading \cup {"executing", "releasing"}
        /\ doubt' = doubt \cup {"timeout"} /\ toClient' = <<>>
     \/ pc[t] \in Writing /\ doubt' = doubt \cup {"cut"} /\ toClient' = <<>>
  /\ UNCHANGED <<toServer, serverVars>>

-----------------------------------------------------------------------------
(* close                                                                   *)

CloseBegin(t) ==
  /\ pc[t] = "idle" /\ connected
  /\ pc' = [pc EXCEPT ![t] = "closing"]
  /\ queue' = Append(queue, t)
  /\ UNCHANGED <<req, result, issued, stream, connected, eofs>>
  /\ UNCHANGED <<localVars, serverVars, wireVars, doubt>>

CloseTake(t) ==
  /\ pc[t] = "closing" /\ Holds(t)
  /\ stream' = "none"
  /\ pc' = [pc EXCEPT ![t] = "shutting"]
  /\ UNCHANGED <<req, result, issued, queue, connected, eofs>>
  /\ UNCHANGED <<localVars, serverVars, wireVars, doubt>>

CloseEnd(t) ==
  /\ pc[t] = "shutting"
  /\ connected' = FALSE
  /\ pc' = [pc EXCEPT ![t] = "idle"]
  /\ Leave(t)
  /\ UNCHANGED <<req, result, issued, stream, eofs>>
  /\ UNCHANGED <<localVars, serverVars, wireVars, doubt>>

-----------------------------------------------------------------------------
(* The MySQL server (external).                                            *)

Packet(k, r, n) == [k |-> k, of |-> r, n |-> n]
Defs(r)  == <<Packet("DEFS", r, 0)>> \o IF eofs THEN <<Packet("EOF", r, 0)>> ELSE <<>>
Table(r) == <<Packet("COUNT", r, 0)>> \o Defs(r) \o <<Packet("ROW", r, 0)>>
Ok(r)    == <<Packet("OK", r, 0)>>
Error(r) == <<Packet("ERR", r, 0)>>

Deliver(ms) == toClient' = IF doubt = {} THEN toClient \o ms ELSE toClient

Answers(r) == {<<Ok(r), "done">>, <<Error(r), "failed">>,
               <<Table(r) \o <<Packet("END", r, 0)>>, "done">>, <<Table(r) \o Error(r), "failed">>}

Decided(r, v) == verdict' = [verdict EXCEPT ![r] = v]

Serve ==
  LET m == Head(toServer) IN
  /\ alive /\ "cut" \notin doubt
  /\ toServer # <<>>
  /\ toServer' = Tail(toServer)
  /\ \/ /\ m.k = "QUERY" \/ (m.k = "EXECUTE" /\ m.of \in prepared)
        /\ \E a \in Answers(m.of) : Deliver(a[1]) /\ Decided(m.of, a[2])
        /\ UNCHANGED prepared
     \/ /\ m.k = "PREPARE"
        /\ \/ Deliver(Error(m.of)) /\ Decided(m.of, "failed") /\ UNCHANGED prepared
           \/ /\ \E n \in 0..2 : Deliver(<<Packet("PREPARED", m.of, n)>>
                                         \o (IF n > 0 THEN Defs(m.of) ELSE <<>>)
                                         \o (IF n > 1 THEN Defs(m.of) ELSE <<>>))
              /\ prepared' = prepared \cup {m.of}
              /\ UNCHANGED verdict
     \/ /\ m.k = "EXECUTE" /\ m.of \notin prepared
        /\ Deliver(Error(m.of)) /\ UNCHANGED <<prepared, verdict>>
     \/ m.k = "CLOSE" /\ prepared' = prepared \ {m.of} /\ UNCHANGED <<toClient, verdict>>
     \/ m.k = "PING" /\ Deliver(Ok(m.of)) /\ Decided(m.of, "done") /\ UNCHANGED prepared
  /\ UNCHANGED <<clientVars, localVars, alive, doubt>>

Crash ==
  /\ alive
  /\ alive' = FALSE
  /\ UNCHANGED <<clientVars, localVars, wireVars, prepared, verdict, doubt>>

-----------------------------------------------------------------------------
Poll(t) == Acquire(t) \/ Write(t) \/ Release(t) \/ Read(t) \/ CloseTake(t) \/ CloseEnd(t)

Next == \/ \E t \in Tasks : \/ Execute(t) \/ PingClosed(t) \/ CloseBegin(t)
                            \/ Poll(t) \/ Timeout(t) \/ WriteFails(t)
        \/ Serve
        \/ Crash

Spec == Init /\ [][Next]_vars

-----------------------------------------------------------------------------
(* Properties.                                                             *)

Session == INSTANCE DbSession WITH
             call    <- req,
             open    <- stream = "open",
             trusted <- doubt = {}

\* The connection is the session its users are promised, as PostgreSQL's is;
\* here an error of the server alone does not cost the trust.
IsSession == Session!Spec

Busy == \E t \in Tasks : pc[t] \in (Reading \cup Writing) \ {"writing"}

\* Server errors included, every call ends with its answer read to the last
\* packet: between calls at most the close of a statement is under way, and in a
\* call the next packet is one the reader is waiting for.
Lockstep ==
  doubt = {} =>
    /\ ~Busy => /\ toClient = <<>>
                /\ alive => \A i \in DOMAIN toServer : toServer[i].k = "CLOSE"
    /\ \A t \in Tasks : pc[t] \in Reading /\ toClient # <<>> =>
         Head(toClient).k \in CASE pc[t] = "prepare" -> {"PREPARED", "ERR"}
                                [] pc[t] \in {"p_defs", "cols"} -> {"DEFS"}
                                [] pc[t] \in {"p_eof", "c_eof"} -> {"EOF"}
                                [] pc[t] = "first" -> {"OK", "ERR", "COUNT"}
                                [] pc[t] = "pong"  -> {"OK", "ERR"}
                                [] pc[t] = "rows"  -> {"ROW", "END", "ERR"}

\* "closed whether or not it succeeded, so that prepared statements do not leak"
\* (mysql.rs:634): as long as no call timed out and every packet decoded, a
\* statement the server keeps is in use or its close is under way.
StatementsClosed ==
  doubt = {} /\ alive =>
    \A r \in prepared : \/ \E i \in DOMAIN toServer : toServer[i] = [k |-> "CLOSE", of |-> r]
                        \/ \E t \in Tasks : req[t] = r /\ Holds(t)

=============================================================================
