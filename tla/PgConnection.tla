---------------------------- MODULE PgConnection ----------------------------
(***************************************************************************)
(* PostgresConnection of src/src/db/postgresql.rs: tasks that share one    *)
(* TCP stream behind a tokio mutex, the simple and the extended query      *)
(* protocol, the per-statement timeout, ping and close, together with the  *)
(* part of a PostgreSQL backend they talk to (external).                   *)
(*                                                                         *)
(* A message carries only its type byte and the statement it is about; the *)
(* types the read loops ignore ('1', '2', 'n', 'N', 'S') are not sent.     *)
(***************************************************************************)
EXTENDS Naturals, SequencesExt

CONSTANTS Tasks,     \* tokio tasks that hold a clone of the connection
          MaxReq,    \* bound on the statements issued
          Large      \* the statements whose write may find the send buffer full

ASSUME PgAssumption == MaxReq \in Nat

VARIABLES
  pc,         \* where each task is in run_simple / run_extended / close
  req,        \* the statement a task is running, 0 when none
  result,     \* what the last call of each task returned
  issued,     \* statements issued so far
  queue,      \* the tokio mutex: its holder, then the waiters, first come first served
  stream,     \* "open" for Some(TcpStream), "none" once close has taken it
  connected,  \* the flag is_connected reads
  cols,       \* local of the running protocol: `columns` is not empty
  acc,        \* local of the running protocol: the statements it holds data of
  toServer,   \* bytes written and not yet read by the backend
  toClient,   \* messages the backend sent and no task has read
  torn,       \* a read stopped inside a message: message boundaries are lost for
              \* good, and toClient no longer says what the stream holds
  alive,      \* the backend process is there
  skipping,   \* the backend discards everything up to the next Sync
  verdict,    \* what the backend did with each statement
  faults      \* history: the ways a finished call has left the stream in doubt

clientVars == <<pc, req, result, issued, queue, stream, connected>>
runVars    == <<cols, acc>>
serverVars == <<alive, skipping, verdict>>
wireVars   == <<toServer, toClient, torn>>
vars == <<clientVars, runVars, serverVars, wireVars, faults>>

Ids  == 1..MaxReq
Calling  == {"waiting", "writing", "syncing", "reading"}
OnStream == {"writing", "syncing", "reading"}
Phases   == {"idle", "closing", "shutting"} \cup Calling
\* Q, P and S are whole; "cut": what a pipeline or a query had written when its
\* timer struck, "half": the part of a message at the end of such a write.
Requests == [k : {"Q", "P", "S", "cut", "half"}, of : Ids]
Replies  == [k : {"T", "D", "C", "E", "Z"}, of : Ids]
Results  == [st : {"none", "ok", "err"}, from : SUBSET (0..MaxReq)]
NoResult == [st |-> "none", from |-> {}]
Faults   == {"error", "timeout", "cut", "torn"}

TypeOK ==
  /\ pc \in [Tasks -> Phases]
  /\ req \in [Tasks -> 0..MaxReq]
  /\ result \in [Tasks -> Results]
  /\ issued \in 0..MaxReq
  /\ queue \in Seq(Tasks)
  /\ stream \in {"open", "none"}
  /\ connected \in BOOLEAN
  /\ cols \in BOOLEAN
  /\ acc \subseteq 0..MaxReq
  /\ toServer \in Seq(Requests)
  /\ toClient \in Seq(Replies)
  /\ torn \in BOOLEAN
  /\ alive \in BOOLEAN
  /\ skipping \in BOOLEAN
  /\ verdict \in [Ids -> {"none", "done", "failed"}]
  /\ faults \subseteq Faults

Init ==
  /\ pc = [t \in Tasks |-> "idle"]
  /\ req = [t \in Tasks |-> 0]
  /\ result = [t \in Tasks |-> NoResult]
  /\ issued = 0
  /\ queue = <<>>
  /\ stream = "open"
  /\ connected = TRUE
  /\ cols = FALSE
  /\ acc = {}
  /\ toServer = <<>>
  /\ toClient = <<>>
  /\ torn = FALSE
  /\ alive = TRUE
  /\ skipping = FALSE
  /\ verdict = [r \in Ids |-> "none"]
  /\ faults = {}

-----------------------------------------------------------------------------
(* The mutex guard and the return of a call.                               *)

Holds(t) == queue # <<>> /\ Head(queue) = t

\* Mutant: a task that gives up while it waits releases the holder's guard.
LeaveReleasesHead(t) == queue' = Tail(queue)

\* Dropping the guard, or the future that waits for it.
Leave(t) == \E i \in DOMAIN queue : queue[i] = t /\ queue' = RemoveAt(queue, i)

\* The locals of a protocol run die with it.
Return(t, st, from) ==
  /\ pc' = [pc EXCEPT ![t] = "idle"]
  /\ req' = [req EXCEPT ![t] = 0]
  /\ result' = [result EXCEPT ![t] = [st |-> st, from |-> from]]
  /\ Leave(t)
  /\ IF Holds(t) THEN cols' = FALSE /\ acc' = {} ELSE UNCHANGED runVars
  /\ UNCHANGED <<issued, stream, connected>>

Fail(t) == Return(t, "err", {})

Goto(t, phase) ==
  /\ pc' = [pc EXCEPT ![t] = phase]
  /\ UNCHANGED <<req, result, issued, queue, stream, connected>>

-----------------------------------------------------------------------------
(* run_query: the timer starts, then the task queues for the stream.       *)

Execute(t) ==
  /\ pc[t] = "idle"
  /\ issued < MaxReq
  /\ issued' = issued + 1
  /\ req' = [req EXCEPT ![t] = issued + 1]
  /\ pc' = [pc EXCEPT ![t] = "waiting"]
  /\ queue' = Append(queue, t)
  /\ result' = [result EXCEPT ![t] = NoResult]
  /\ UNCHANGED <<stream, connected, runVars, serverVars, wireVars, faults>>

PingClosed(t) ==
  /\ pc[t] = "idle" /\ ~connected
  /\ result' = [result EXCEPT ![t] = [st |-> "err", from |-> {}]]
  /\ UNCHANGED <<pc, req, issued, queue, stream, connected>>
  /\ UNCHANGED <<runVars, serverVars, wireVars, faults>>

\* Mutant: the stream is used without the mutex.
AcquireUnlocked(t) ==
  /\ pc[t] = "waiting"
  /\ \/ stream = "open" /\ Goto(t, "writing") /\ UNCHANGED runVars
     \/ stream = "none" /\ Fail(t)
  /\ UNCHANGED <<serverVars, wireVars, faults>>

\* The guard is granted; `as_mut().ok_or_else` refuses a stream that close took.
Acquire(t) ==
  /\ pc[t] = "waiting" /\ Holds(t)
  /\ \/ stream = "open" /\ Goto(t, "writing") /\ UNCHANGED runVars
     \/ stream = "none" /\ Fail(t)
  /\ UNCHANGED <<serverVars, wireVars, faults>>

\* write_message 'Q', or Parse, Bind, Describe and Execute as one unit "P".
Write(t) ==
  /\ pc[t] = "writing"
  /\ \/ /\ toServer' = Append(toServer, [k |-> "Q", of |-> req[t]])
        /\ Goto(t, "reading")
     \/ /\ toServer' = Append(toServer, [k |-> "P", of |-> req[t]])
        /\ Goto(t, "syncing")
  /\ UNCHANGED <<toClient, torn, runVars, serverVars, faults>>

\* Mutant: the pipeline is never closed with a Sync.
WriteNoSync(t) ==
  /\ pc[t] = "syncing"
  /\ Goto(t, "reading")
  /\ UNCHANGED <<wireVars, runVars, serverVars, faults>>

WriteSync(t) ==
  /\ pc[t] = "syncing"
  /\ toServer' = Append(toServer, [k |-> "S", of |-> req[t]])
  /\ Goto(t, "reading")
  /\ UNCHANGED <<toClient, torn, runVars, serverVars, faults>>

\* A write to a dead peer may fail at once (or be swallowed: Write, WriteSync).
WriteFails(t) ==
  /\ pc[t] \in {"writing", "syncing"} /\ ~alive
  /\ Fail(t)
  /\ faults' = IF pc[t] = "syncing" THEN faults \cup {"cut"} ELSE faults
  /\ UNCHANGED <<serverVars, wireVars>>

-----------------------------------------------------------------------------
(* The read loop, one message a step.                                      *)

Keep(m) == acc' = acc \cup {m.of}

ReadAligned(t) ==
  LET m == Head(toClient) IN
  /\ ~torn
  /\ toClient # <<>>
  /\ toClient' = Tail(toClient)
  /\ \/ /\ m.k = "T" /\ cols' = TRUE /\ Keep(m)
        /\ UNCHANGED <<clientVars, faults>>
     \/ /\ m.k = "D" /\ cols /\ Keep(m)             \* the row decodes
        /\ UNCHANGED <<clientVars, cols, faults>>
     \/ /\ m.k = "C" /\ Keep(m)
        /\ UNCHANGED <<clientVars, cols, faults>>
     \/ /\ m.k \in {"D", "E"}      \* no columns, a row that does not decode, an error
        /\ Fail(t)
        /\ faults' = faults \cup {"error"}
     \/ /\ m.k = "Z"
        /\ Return(t, "ok", acc \cup {m.of})
        /\ UNCHANGED faults

\* Bytes from inside a message read as a header: whatever they spell.
ReadTorn(t) ==
  /\ torn
  /\ \/ acc' = acc \cup {0} /\ cols' \in BOOLEAN /\ UNCHANGED clientVars
     \/ Fail(t)
     \/ Return(t, "ok", acc \cup {0})
  /\ UNCHANGED <<toClient, faults>>

ReadEof(t) ==
  /\ ~alive /\ toClient = <<>>
  /\ Fail(t)
  /\ UNCHANGED <<toClient, faults>>

Read(t) ==
  /\ pc[t] = "reading"
  /\ ReadAligned(t) \/ ReadTorn(t) \/ ReadEof(t)
  /\ UNCHANGED <<toServer, torn, serverVars>>

-----------------------------------------------------------------------------
(* tokio::time::timeout drops the future at the await it has reached.      *)

\* Mutant: the timer covers the wait for the lock, not the protocol.
TimeoutOfLock(t) ==
  /\ pc[t] = "waiting"
  /\ Fail(t)
  /\ UNCHANGED <<wireVars, serverVars, faults>>

\* Mutant: a call that times out throws away what has arrived so far.
TimeoutDrains(t) ==
  /\ pc[t] \in Calling
  /\ Fail(t)
  /\ faults' = IF pc[t] = "reading" THEN faults \cup {"timeout"} ELSE faults
  /\ toClient' = IF pc[t] = "reading" THEN <<>> ELSE toClient
  /\ UNCHANGED <<toServer, torn, serverVars>>

\* Nothing was written, the pipeline lacks its Sync, or the answer was awaited.
Timeout(t) ==
  /\ pc[t] \in Calling
  /\ Fail(t)
  /\ \/ /\ pc[t] \in {"waiting", "writing"}
        /\ UNCHANGED <<toClient, torn, faults>>
     \/ /\ pc[t] = "syncing"
        /\ faults' = faults \cup {"cut"}
        /\ UNCHANGED <<toClient, torn>>
     \/ /\ pc[t] = "reading"
        /\ faults' = faults \cup {"timeout"}
        /\ UNCHANGED <<toClient, torn>>
     \/ /\ pc[t] = "reading" /\ toClient # <<>>     \* inside read_message
        /\ faults' = faults \cup {"timeout", "torn"}
        /\ torn' = TRUE
        /\ toClient' = <<>>
  /\ UNCHANGED <<toServer, serverVars>>

\* Inside write_all, or between two of the messages before Execute; or inside
\* the Sync.
TimeoutInWrite(t) ==
  /\ pc[t] \in {"writing", "syncing"}
  /\ req[t] \in Large
  /\ Fail(t)
  /\ toServer' = Append(toServer, [k |-> IF pc[t] = "writing" THEN "cut" ELSE "half",
                                   of |-> req[t]])
  /\ faults' = faults \cup {"cut"}
  /\ UNCHANGED <<toClient, torn, serverVars>>

-----------------------------------------------------------------------------
(* close: the flag is read first, the lock is taken without a timeout.     *)

CloseBegin(t) ==
  /\ pc[t] = "idle" /\ connected
  /\ pc' = [pc EXCEPT ![t] = "closing"]
  /\ queue' = Append(queue, t)
  /\ UNCHANGED <<req, result, issued, stream, connected>>
  /\ UNCHANGED <<runVars, serverVars, wireVars, faults>>

\* guard.take() leaves None behind before anything is written.
CloseTake(t) ==
  /\ pc[t] = "closing" /\ Holds(t)
  /\ stream' = "none"
  /\ pc' = [pc EXCEPT ![t] = "shutting"]
  /\ UNCHANGED <<req, result, issued, queue, connected>>
  /\ UNCHANGED <<runVars, serverVars, wireVars, faults>>

\* Terminate is written and the socket shut down under the guard: both may wait
\* for a backend that does not read (Clogged), no timer ends that.
CloseEnd(t) ==
  /\ pc[t] = "shutting"
  /\ connected' = FALSE
  /\ pc' = [pc EXCEPT ![t] = "idle"]
  /\ Leave(t)
  /\ UNCHANGED <<req, result, issued, stream>>
  /\ UNCHANGED <<runVars, serverVars, wireVars, faults>>

-----------------------------------------------------------------------------
(* The backend (external).                                                 *)

Msg(k, r) == [k |-> k, of |-> r]
Rows(r)    == <<Msg("T", r), Msg("D", r), Msg("C", r)>>
Command(r) == <<Msg("C", r)>>
Refusal(r) == <<Msg("E", r)>>
RowsThenError(r) == <<Msg("T", r), Msg("D", r), Msg("E", r)>>

Deliver(ms) == toClient' = IF torn THEN toClient ELSE toClient \o ms

Ran(r, ms, v) ==
  /\ Deliver(ms)
  /\ verdict' = [verdict EXCEPT ![r] = v]

Serve ==
  LET m == Head(toServer)
      ready == IF m.k = "Q" THEN <<Msg("Z", m.of)>> ELSE <<>>
  IN
  /\ alive
  /\ toServer # <<>>
  /\ m.k \in {"Q", "P", "S"}
  /\ toServer' = Tail(toServer)
  /\ \/ /\ m.k # "S" /\ skipping
        /\ UNCHANGED <<toClient, skipping, verdict>>
     \/ /\ m.k # "S" /\ ~skipping
        /\ \/ /\ \E body \in {Rows(m.of), Command(m.of)} : Ran(m.of, body \o ready, "done")
              /\ UNCHANGED skipping
           \/ /\ \E body \in {Refusal(m.of), RowsThenError(m.of)} : Ran(m.of, body \o ready, "failed")
              /\ skipping' = (m.k = "P")
     \/ /\ m.k = "S"
        /\ Deliver(<<Msg("Z", m.of)>>)
        /\ skipping' = FALSE
        /\ UNCHANGED verdict
  /\ UNCHANGED <<clientVars, runVars, torn, alive, faults>>

\* Of a write that was cut: the whole messages of the pipeline are answered or
\* refused, what is left of one waits for more; an Execute that lacks its last
\* bytes takes them from the message behind it and runs the statement.
ServeCut ==
  LET m    == Head(toServer)
      rest == Tail(toServer)
      half == <<[k |-> "half", of |-> m.of]>>
  IN
  /\ alive
  /\ toServer # <<>>
  /\ m.k = "cut"
  /\ \/ /\ toServer' \in {rest, half \o rest}
        /\ \/ UNCHANGED <<toClient, skipping, verdict>>
           \/ /\ ~skipping
              /\ Deliver(<<Msg("T", m.of)>>)
              /\ UNCHANGED <<skipping, verdict>>
           \/ /\ ~skipping
              /\ Ran(m.of, Refusal(m.of), "failed")
              /\ skipping' = TRUE
     \/ /\ ~skipping /\ rest # <<>>
        /\ toServer' = half \o Tail(rest)
        /\ \E body \in {Rows(m.of), Command(m.of)} : Ran(m.of, body, "done")
        /\ UNCHANGED skipping
  /\ UNCHANGED <<clientVars, runVars, torn, alive, faults>>

\* Half a message takes the bytes behind it for its own: it is still short of
\* some, or it is refused, and what follows is read from a message boundary,
\* from inside a message, or not at all.
ServeHalf ==
  LET m    == Head(toServer)
      rest == Tail(Tail(toServer))
  IN
  /\ alive
  /\ Len(toServer) > 1
  /\ m.k = "half"
  /\ \/ /\ toServer' \in {rest, <<m>> \o rest}
        /\ \/ (skipping \/ toServer' # rest) /\ UNCHANGED <<toClient, skipping>>
           \/ ~skipping /\ Deliver(Refusal(m.of)) /\ skipping' = TRUE
           \/ /\ ~skipping
              /\ Deliver(<<Msg("E", m.of), Msg("Z", m.of)>>)
              /\ UNCHANGED skipping
        /\ UNCHANGED alive
     \/ /\ toServer' = rest
        /\ Deliver(Refusal(m.of))
        /\ alive' = FALSE
        /\ UNCHANGED skipping
  /\ UNCHANGED <<clientVars, runVars, torn, verdict, faults>>

Crash == /\ alive
         /\ alive' = FALSE
         /\ UNCHANGED <<clientVars, runVars, wireVars, skipping, verdict, faults>>

-----------------------------------------------------------------------------
Poll(t) == Acquire(t) \/ Write(t) \/ WriteSync(t) \/ Read(t) \/ CloseTake(t) \/ CloseEnd(t)

Next == \/ \E t \in Tasks : \/ Execute(t) \/ PingClosed(t) \/ CloseBegin(t)
                            \/ Poll(t) \/ WriteFails(t)
                            \/ Timeout(t) \/ TimeoutInWrite(t)
        \/ Serve \/ ServeCut \/ ServeHalf
        \/ Crash

Spec == Init /\ [][Next]_vars

\* The backend lives and has not read all that was written to it: the send
\* buffer may be full.
Clogged == alive /\ \E m \in ToSet(toServer) : m.k # "half"

\* A close waits for such a backend with the guard in its hand.
CloseHangs == Clogged /\ \E t \in Tasks : pc[t] = "shutting"

\* An elapsed timer fires, and tokio polls a close that can go on: a write that
\* a full send buffer holds up cannot. Nothing is assumed of the backend, which
\* may neither read nor answer ever again, nor of the pace of the statements.
FairSpec ==
  /\ Spec
  /\ \A t \in Tasks : /\ WF_vars(Timeout(t))
                      /\ WF_vars(CloseTake(t) \/ (CloseEnd(t) /\ ~Clogged))
-----------------------------------------------------------------------------
(* Properties.                                                             *)

\* The connection is the session its users are promised: a statement runs at
\* most once, an answer is the caller's own until a call has failed after it
\* wrote to the stream, and nothing is answered once close has taken the stream.
Session == INSTANCE DbSession WITH
             call    <- req,
             open    <- stream = "open",
             trusted <- faults = {}

IsSession == Session!Spec

\* The mutex protects the stream: a task that writes, reads or shuts the stream
\* down is the one holder, it never works on a stream that close has taken, and
\* a task that gave up (timeout) leaves neither the guard nor its place behind.
StreamOwner ==
  /\ \A i, j \in DOMAIN queue : queue[i] = queue[j] => i = j
  /\ \A t \in Tasks : pc[t] # "idle" <=> \E i \in DOMAIN queue : queue[i] = t
  /\ \A t \in Tasks : pc[t] \in OnStream \cup {"shutting"} => Holds(t)
  /\ \A t \in Tasks : pc[t] \in OnStream => stream = "open"
  /\ \A t \in Tasks : pc[t] = "shutting" => stream = "none"
  /\ ~connected => stream = "none"

\* An Ok answer is put together from the messages of one statement, unless a
\* timeout cut a write, a pipeline before its Sync or a read inside a message.
WholeAnswer ==
  faults \cap {"cut", "torn"} = {} =>
    \A t \in Tasks : result[t].st = "ok" => \E r \in Ids : result[t].from = {r}

\* Once a server error or a timeout has left its answer in the stream, no later
\* call on this connection that returns Ok returns the answer to its own
\* statement: nothing in the code drains or drops the stream.
DesyncIsPermanent ==
  [][ faults # {} /\ faults \subseteq {"error", "timeout"} =>
        \A t \in Tasks :
          pc[t] = "reading" /\ pc'[t] = "idle" /\ result'[t].st = "ok"
            => req[t] \notin result'[t].from ]_vars

\* Every statement returns, whatever the backend does and even behind a close
\* that hangs: each wait is bounded by its own timer. close has none: it returns
\* too, unless one hangs for good on a backend that lives and never reads what
\* was written to it.
EveryCallReturns ==
  \A t \in Tasks : \/ []<>(pc[t] = "idle")
                   \/ <>[](pc[t] \in {"closing", "shutting"} /\ CloseHangs)
=============================================================================
