------------------------ MODULE MySqlConnectionProofs ------------------------
(***************************************************************************)
(* Theorems of MySqlConnection for every set of tasks and every bound: the *)
(* connection implements DbSession, a call that returns has read its       *)
(* answer to the last packet, and prepared statements are closed.          *)
(***************************************************************************)
EXTENDS MySqlConnection, SequenceLemmas

-----------------------------------------------------------------------------
(* The inductive invariant, one part per argument.                         *)

Phases   == {"idle", "closing", "shutting"} \cup Calling
OnStream == Reading \cup Writing
Using    == OnStream \ {"writing"}     \* a request has been written
Requests == [k : Commands, of : Ids]
Replies  == [k : Packets, of : Ids, n : 0..2]

\* The mutex: who is on the stream holds the guard, and nobody after close.
StreamOwner ==
  /\ Once(queue)
  /\ \A t \in Tasks : pc[t] # "idle" <=> Queues(queue, t)
  /\ \A t \in Tasks : pc[t] \in OnStream \cup {"shutting"} => Holds(t)
  /\ \A t \in Tasks : pc[t] \in OnStream => stream = "open"
  /\ \A t \in Tasks : pc[t] = "shutting" => stream = "none"
  /\ ~connected => stream = "none"

\* A call has a statement of its own, and no other task has it.
OwnStatements ==
  /\ \A t \in Tasks : pc[t] \in Calling => req[t] \in Ids
  /\ \A t \in Tasks : pc[t] \notin Calling => req[t] = 0
  /\ \A t, u \in Tasks : req[t] # 0 /\ req[t] = req[u] => t = u

\* Nothing is on its way, has run or is prepared that was not issued.
UpToIssued ==
  /\ \A t \in Tasks : req[t] <= issued
  /\ \A r \in Ids : r > issued => verdict[r] = "none" /\ r \notin prepared
  /\ \A i \in DOMAIN toServer : toServer[i].of <= issued

\* What the server has prepared, or may still come to prepare.
Preparable ==
  prepared \cup {toServer[i].of : i \in {j \in DOMAIN toServer : toServer[j].k = "PREPARE"}}

\* A command that can run has not run, and is sent once.
CommandsOnce ==
  /\ \A i, j \in DOMAIN toServer :
       toServer[i].k # "CLOSE" /\ toServer[i].k = toServer[j].k /\ toServer[i].of = toServer[j].of => i = j
  /\ \A i, j \in DOMAIN toServer :
       /\ toServer[i].k \in {"QUERY", "PING"} /\ toServer[j].k # "CLOSE"
       /\ toServer[i].of = toServer[j].of
       => i = j
  /\ \A i \in DOMAIN toServer : toServer[i].k = "PREPARE" => toServer[i].of \notin prepared
RunsOnce ==
  /\ \A i \in DOMAIN toServer :
       \/ toServer[i].k \in {"QUERY", "PING", "PREPARE"}
       \/ toServer[i].k = "EXECUTE" /\ toServer[i].of \in Preparable
       => verdict[toServer[i].of] = "none"
  /\ \A t \in Tasks : pc[t] \in {"waiting", "writing"} =>
       /\ verdict[req[t]] = "none" /\ req[t] \notin prepared
       /\ \A i \in DOMAIN toServer : toServer[i].of # req[t]
  /\ \A t \in Tasks : pc[t] \in PrepareReads \cup {"executing"} =>
       /\ req[t] \in Preparable => verdict[req[t]] = "none"
       /\ \A i \in DOMAIN toServer : toServer[i].of = req[t] => toServer[i].k = "PREPARE"

\* The locals belong to the task that uses the stream.
Locals ==
  /\ (\A t \in Tasks : pc[t] \notin Using) =>
       groups = 0 /\ stmt = FALSE /\ kept = NoResult /\ acc = {}
  /\ \A t \in Tasks : pc[t] \in PrepareReads => ~stmt
  /\ \A t \in Tasks : pc[t] \in {"p_defs", "p_eof"} => groups # 0
  /\ \A t \in Tasks : pc[t] \in {"executing", "releasing"} => stmt
  /\ \A t \in Tasks : pc[t] = "releasing" => kept.st = "ok" \/ kept \in {ErrResult, Spoilt}

\* What may be left of an answer about r, by what the reader waits for.
P(k, r)    == Packet(k, r, 0)
Finals(r)  == {<<P("END", r)>>, <<P("ERR", r)>>}
RowsOf(r)  == Finals(r) \cup {<<P("ROW", r)>> \o s : s \in Finals(r)}
EofOf(r)   == {<<P("EOF", r)>> \o s : s \in RowsOf(r)}
ColsOf(r)  == {<<P("DEFS", r)>> \o s : s \in IF eofs THEN EofOf(r) ELSE RowsOf(r)}
FirstOf(r) == {<<P("OK", r)>>, <<P("ERR", r)>>} \cup {<<P("COUNT", r)>> \o s : s \in ColsOf(r)}
Group(r, s) == <<P("DEFS", r)>> \o (IF eofs THEN <<P("EOF", r)>> \o s ELSE s)
GroupsOf(r, n) == CASE n = 0 -> <<>>
                    [] n = 1 -> Group(r, <<>>)
                    [] OTHER -> Group(r, Group(r, <<>>))
PrepareOf(r) == {<<P("ERR", r)>>} \cup {<<Packet("PREPARED", r, n)>> \o GroupsOf(r, n) : n \in 0..2}

Awaited(phase, r) ==
  CASE phase = "prepare" -> PrepareOf(r)
    [] phase = "p_defs"  -> {GroupsOf(r, groups)}
    [] phase = "p_eof"   -> IF eofs THEN {<<P("EOF", r)>> \o GroupsOf(r, groups - 1)} ELSE {}
    [] phase = "first"   -> FirstOf(r)
    [] phase = "pong"    -> {<<P("OK", r)>>}
    [] phase = "cols"    -> ColsOf(r)
    [] phase = "c_eof"   -> IF eofs THEN EofOf(r) ELSE {}
    [] OTHER             -> RowsOf(r)

OnlyCloses == alive => \A i \in DOMAIN toServer : toServer[i].k = "CLOSE"

\* The command the reader waits for the answer of, at the end of the queue.
CommandOf(phase) == CASE phase = "prepare" -> "PREPARE"
                      [] phase = "pong"    -> "PING"
                      [] phase = "first"   -> IF stmt THEN "EXECUTE" ELSE "QUERY"
                      [] OTHER             -> "none"
Asked(t) ==
  /\ pc[t] \in {"prepare", "first", "pong"}
  /\ alive => /\ toServer # <<>>
              /\ toServer[Len(toServer)] = [k |-> CommandOf(pc[t]), of |-> req[t]]
              /\ \A i \in DOMAIN toServer : i < Len(toServer) => toServer[i].k = "CLOSE"

\* While nothing was left in doubt, the reader's answer is all there is to read.
InStep ==
  /\ (\A t \in Tasks : pc[t] \notin Using) => toClient = <<>> /\ OnlyCloses
  /\ \A t \in Tasks : pc[t] \in Reading =>
       \/ toClient = <<>> /\ Asked(t)
       \/ toClient \in Awaited(pc[t], req[t]) /\ OnlyCloses
  /\ \A t \in Tasks : pc[t] = "executing" => toClient = <<>> /\ OnlyCloses
  /\ \A t \in Tasks : pc[t] = "releasing" => (kept = Spoilt \/ toClient = <<>>) /\ OnlyCloses

\* A good answer is about the caller's statement, and the statement has run.
Told ==
  /\ \A t \in Tasks : pc[t] \in Using => acc \subseteq {req[t]}
  /\ \A i \in DOMAIN toClient : toClient[i].k \in {"OK", "END"} => verdict[toClient[i].of] = "done"
  /\ \A t \in Tasks : pc[t] = "releasing" /\ kept.st = "ok" =>
       kept.from = {req[t]} /\ verdict[req[t]] = "done"

\* A statement the server keeps is in use, or its close is under way.
InUse ==
  /\ alive => \A r \in prepared :
       \/ \E i \in DOMAIN toServer : toServer[i] = [k |-> "CLOSE", of |-> r]
       \/ \E t \in Tasks : req[t] = r /\ pc[t] \in Using /\ (stmt \/ pc[t] \in PrepareReads)
  /\ \A t \in Tasks :
       pc[t] = "prepare" /\ toClient # <<>> /\ toClient[1].k = "ERR" => req[t] \notin prepared

Aligned == doubt = {} => InStep /\ Told /\ InUse

MutexType == pc \in [Tasks -> Phases] /\ queue \in Seq(Tasks)

MySqlInv == /\ MutexType /\ StreamOwner /\ TypeOK
            /\ OwnStatements /\ UpToIssued /\ CommandsOnce /\ RunsOnce
            /\ Locals /\ Aligned

-----------------------------------------------------------------------------
(* The mutex.                                                              *)

Queued(t) == Queues(queue, t)

\* Who leaves was in the queue once; the others keep their order, and the guard.
LEMMA LeaveFacts ==
  ASSUME queue \in Seq(Tasks), Once(queue), NEW t \in Tasks, Leave(t)
  PROVE  /\ queue' \in Seq(Tasks)
         /\ Once(queue')
         /\ \A u \in Tasks : Queued(u)' <=> (u # t /\ Queued(u))
         /\ \A u \in Tasks : u # t /\ Holds(u) => Holds(u)'
<1>1. PICK i \in DOMAIN queue : queue[i] = t /\ queue' = RemoveAt(queue, i)
  BY DEF Leave
<1>2. /\ RemoveAt(queue, i) \in Seq(Tasks)
      /\ Once(RemoveAt(queue, i))
      /\ \A u : Queues(RemoveAt(queue, i), u) <=> (u # queue[i] /\ Queues(queue, u))
      /\ queue[1] # queue[i] => RemoveAt(queue, i) # <<>> /\ Head(RemoveAt(queue, i)) = queue[1]
  BY <1>1, LeaveQueue
<1>3. \A u \in Tasks : Holds(u) => queue[1] = u
  BY DEF Holds
<1>4. QED BY <1>1, <1>2, <1>3 DEF Queued, Holds

LEMMA OneHolder ==
  ASSUME NEW t \in Tasks, NEW u \in Tasks, Holds(t), Holds(u)
  PROVE  t = u
BY DEF Holds

\* A task that returns leaves the queue and goes idle; nothing else moves.
LEMMA ReturnKeeps ==
  ASSUME MutexType, StreamOwner, NEW t \in Tasks,
         pc' = [pc EXCEPT ![t] = "idle"], Leave(t), stream' = stream,
         (connected' = connected) \/ (stream = "none" /\ connected' = FALSE)
  PROVE  MutexType' /\ StreamOwner'
<1>1. /\ queue' \in Seq(Tasks)
      /\ Once(queue')
      /\ \A u \in Tasks : Queued(u)' <=> (u # t /\ Queued(u))
      /\ \A u \in Tasks : u # t /\ Holds(u) => Holds(u)'
  BY LeaveFacts DEF MutexType, StreamOwner
<1>2. MutexType'
  BY <1>1 DEF MutexType, Phases
<1>3. ASSUME NEW u \in Tasks
      PROVE  /\ pc'[u] # "idle" <=> Queued(u)'
             /\ pc'[u] \in OnStream \cup {"shutting"} => Holds(u)'
             /\ pc'[u] \in OnStream => stream' = "open"
             /\ pc'[u] = "shutting" => stream' = "none"
  <2>1. CASE u = t
    BY <2>1, <1>1 DEF MutexType, OnStream, Reading, Writing, PrepareReads, ResultReads
  <2>2. CASE u # t
    <3>1. pc'[u] = pc[u]
      BY <2>2 DEF MutexType
    <3>2. QED BY <3>1, <2>2, <1>1 DEF StreamOwner, Queued
  <2>3. QED BY <2>1, <2>2
<1>4. (~connected)' => stream' = "none"
  BY DEF StreamOwner
<1>5. \A u \in Tasks : pc'[u] # "idle" <=> Queued(u)'
  BY <1>3
<1>6. QED BY <1>1, <1>2, <1>3, <1>4, <1>5 DEF StreamOwner, Queued

\* The holder moves on to another use of the stream.
LEMMA GotoKeeps ==
  ASSUME MutexType, StreamOwner, NEW t \in Tasks, NEW phase \in OnStream,
         Holds(t), pc[t] # "idle", stream = "open", Goto(t, phase)
  PROVE  MutexType' /\ StreamOwner'
<1>0. pc' = [pc EXCEPT ![t] = phase] /\ UNCHANGED <<queue, stream, connected>>
  BY DEF Goto
<1>1. MutexType'
  BY <1>0 DEF MutexType, Phases, OnStream, Calling
<1>2. ASSUME NEW u \in Tasks
      PROVE  /\ pc'[u] # "idle" <=> pc[u] # "idle"
             /\ pc'[u] \in OnStream \cup {"shutting"} => Holds(u)
             /\ pc'[u] \in OnStream => stream = "open"
             /\ pc'[u] = "shutting" => stream = "none"
  <2>1. CASE u = t
    BY <2>1, <1>0 DEF MutexType, OnStream, Reading, Writing, PrepareReads, ResultReads
  <2>2. CASE u # t
    BY <2>2, <1>0 DEF MutexType, StreamOwner
  <2>3. QED BY <2>1, <2>2
<1>3. \A u \in Tasks : Holds(u)' <=> Holds(u)
  BY <1>0 DEF Holds
<1>4. QED BY <1>0, <1>1, <1>2, <1>3 DEF StreamOwner

\* A task joins the queue.
LEMMA JoinKeeps ==
  ASSUME MutexType, StreamOwner, NEW t \in Tasks, NEW phase \in {"waiting", "closing"},
         pc[t] = "idle", pc' = [pc EXCEPT ![t] = phase], queue' = Append(queue, t),
         UNCHANGED <<stream, connected>>
  PROVE  MutexType' /\ StreamOwner'
<1>1. /\ queue' \in Seq(Tasks)
      /\ Once(queue')
      /\ \A u \in Tasks : Queued(u)' <=> (u = t \/ Queued(u))
      /\ \A u \in Tasks : Holds(u) => Holds(u)'
  <2>1. ~Queues(queue, t) /\ Once(queue) /\ queue \in Seq(Tasks)
    BY DEF StreamOwner, MutexType
  <2>2. /\ Append(queue, t) \in Seq(Tasks)
        /\ Once(Append(queue, t))
        /\ \A u : Queues(Append(queue, t), u) <=> (u = t \/ Queues(queue, u))
        /\ queue # <<>> => Append(queue, t) # <<>> /\ Head(Append(queue, t)) = queue[1]
    BY <2>1, JoinQueue
  <2>3. \A u \in Tasks : Holds(u) => queue[1] = u
    BY <2>1 DEF Holds
  <2>4. QED BY <2>2, <2>3 DEF Queued, Holds
<1>2. MutexType'
  BY <1>1 DEF MutexType, Phases, Calling
<1>3. ASSUME NEW u \in Tasks
      PROVE  /\ pc'[u] # "idle" <=> Queued(u)'
             /\ pc'[u] \in OnStream \cup {"shutting"} => Holds(u)'
             /\ pc'[u] \in OnStream => stream' = "open"
             /\ pc'[u] = "shutting" => stream' = "none"
  <2>1. CASE u = t
    BY <2>1, <1>1 DEF MutexType, OnStream, Reading, Writing, PrepareReads, ResultReads
  <2>2. CASE u # t
    <3>1. pc'[u] = pc[u]
      BY <2>2 DEF MutexType
    <3>2. QED BY <3>1, <2>2, <1>1 DEF StreamOwner, Queued
  <2>3. QED BY <2>1, <2>2
<1>4. \A u \in Tasks : pc'[u] # "idle" <=> Queued(u)'
  BY <1>3
<1>5. QED BY <1>1, <1>2, <1>3, <1>4 DEF StreamOwner, Queued

LEMMA SameKeeps ==
  ASSUME MutexType, StreamOwner, UNCHANGED <<pc, queue, stream, connected>>
  PROVE  MutexType' /\ StreamOwner'
BY DEF MutexType, StreamOwner, Holds

\* What a step on the stream does to its task: the call ends, or goes on.
LEMMA UserMoves ==
  ASSUME NEW t \in Tasks, Write(t) \/ Release(t) \/ Read(t) \/ WriteFails(t) \/ Timeout(t)
  PROVE  \/ \E res : Return(t, res)
         \/ pc[t] \in OnStream /\ \E phase \in OnStream : Goto(t, phase)
<1>1. ASSUME NEW res, Finish(t, res)
      PROVE  Return(t, res) \/ Goto(t, "releasing")
  BY <1>1 DEF Finish
<1>2. \A phase \in {"first", "prepare", "pong", "executing", "releasing", "p_defs", "p_eof",
                    "cols", "c_eof", "rows"} : phase \in OnStream
  BY DEF OnStream, Reading, Writing, PrepareReads, ResultReads
<1>3. CASE Write(t)
  BY <1>3, <1>2 DEF Write, OnStream, Writing
<1>4. CASE Release(t)
  BY <1>4 DEF Release, Released
<1>5. CASE WriteFails(t)
  BY <1>5, <1>1, <1>2 DEF WriteFails, Released, Fail
<1>6. CASE Timeout(t)
  BY <1>6 DEF Timeout, Fail
<1>7. CASE Read(t)
  <2>1. pc[t] \in OnStream
    BY <1>7 DEF Read, OnStream
  <2>2. ASSUME NEW m, ReadPrepare(t, m) PROVE Fail(t) \/ \E phase \in OnStream : Goto(t, phase)
    BY <2>2, <1>2 DEF ReadPrepare, NextGroup
  <2>3. ASSUME NEW m, ReadResult(t, m)
        PROVE  (\E res : Return(t, res)) \/ \E phase \in OnStream : Goto(t, phase)
    <3> DEFINE done == [st |-> "ok", from |-> acc \cup {m.of}]
    <3>1. Finish(t, done) \/ Finish(t, ErrResult) \/ \E phase \in OnStream : Goto(t, phase)
      BY <2>3, <1>2 DEF ReadResult
    <3>2. QED BY <3>1, <1>1, <1>2
  <2>4. ASSUME NEW m, ReadUndecodable(t, m)
        PROVE  (\E res : Return(t, res)) \/ \E phase \in OnStream : Goto(t, phase)
    BY <2>4, <1>1, <1>2 DEF ReadUndecodable, Fail
  <2>5. ASSUME ReadLost(t) \/ ReadEof(t)
        PROVE  (\E res : Return(t, res)) \/ \E phase \in OnStream : Goto(t, phase)
    BY <2>5, <1>1, <1>2 DEF ReadLost, ReadEof, Fail
  <2>6. QED BY <2>1, <2>2, <2>3, <2>4, <2>5, <1>7 DEF Read, ReadAligned, Fail
<1>8. QED BY <1>3, <1>4, <1>5, <1>6, <1>7

\* Acquire and CloseTake are the two steps that check the guard.
LEMMA OwnerStep ==
  ASSUME MutexType, StreamOwner, [Next]_vars
  PROVE  MutexType' /\ StreamOwner'
<1>1. ASSUME NEW t \in Tasks, NEW res, Return(t, res)
      PROVE  MutexType' /\ StreamOwner'
  BY <1>1, ReturnKeeps DEF Return
<1>2. ASSUME NEW t \in Tasks, Execute(t) \/ CloseBegin(t)
      PROVE  MutexType' /\ StreamOwner'
  <2>1. PICK phase \in {"waiting", "closing"} :
          /\ pc[t] = "idle" /\ pc' = [pc EXCEPT ![t] = phase]
          /\ queue' = Append(queue, t) /\ UNCHANGED <<stream, connected>>
    BY <1>2 DEF Execute, CloseBegin
  <2>2. QED BY <2>1, JoinKeeps
<1>3. ASSUME NEW t \in Tasks, Acquire(t)
      PROVE  MutexType' /\ StreamOwner'
  <2>1. CASE Fail(t)
    BY <2>1, <1>1 DEF Fail
  <2>2. CASE stream = "open" /\ Goto(t, "writing")
    <3>1. Holds(t) /\ pc[t] # "idle" /\ "writing" \in OnStream
      BY <1>3 DEF Acquire, OnStream, Writing
    <3>2. QED BY <3>1, <2>2, GotoKeeps
  <2>3. QED BY <2>1, <2>2, <1>3 DEF Acquire
<1>4. ASSUME NEW t \in Tasks, Write(t) \/ Release(t) \/ Read(t) \/ WriteFails(t) \/ Timeout(t)
      PROVE  MutexType' /\ StreamOwner'
  <2>1. CASE \E res : Return(t, res)
    BY <2>1, <1>1
  <2>2. CASE pc[t] \in OnStream /\ \E phase \in OnStream : Goto(t, phase)
    <3>1. Holds(t) /\ pc[t] # "idle" /\ stream = "open"
      BY <2>2 DEF OnStream, Reading, Writing, PrepareReads, ResultReads, StreamOwner
    <3>2. QED BY <3>1, <2>2, GotoKeeps
  <2>3. QED BY <2>1, <2>2, <1>4, UserMoves
<1>5. ASSUME NEW t \in Tasks, CloseTake(t)
       PROVE  MutexType' /\ StreamOwner'
  <2>1. /\ pc[t] = "closing" /\ Holds(t) /\ stream' = "none"
        /\ pc' = [pc EXCEPT ![t] = "shutting"] /\ UNCHANGED <<queue, connected>>
    BY <1>5 DEF CloseTake
  <2>2. MutexType'
    BY <2>1 DEF MutexType, Phases
  <2>3. ASSUME NEW u \in Tasks
        PROVE  /\ pc'[u] # "idle" <=> pc[u] # "idle"
               /\ pc'[u] \in OnStream \cup {"shutting"} => Holds(u)
               /\ pc'[u] \notin OnStream
    <3>1. CASE u = t
      BY <3>1, <2>1 DEF MutexType, OnStream, Reading, Writing, PrepareReads, ResultReads
    <3>2. CASE u # t
      <4>1. pc'[u] = pc[u]
        BY <3>2, <2>1 DEF MutexType
      <4>2. ~Holds(u)
        BY <3>2, <2>1, OneHolder
      <4>3. QED BY <4>1, <4>2 DEF StreamOwner
    <3>3. QED BY <3>1, <3>2
  <2>4. \A u \in Tasks : Holds(u)' <=> Holds(u)
    BY <2>1 DEF Holds
  <2>5. QED BY <2>1, <2>2, <2>3, <2>4 DEF StreamOwner
<1>6. ASSUME NEW t \in Tasks, CloseEnd(t)
       PROVE  MutexType' /\ StreamOwner'
  <2>1. /\ pc[t] = "shutting" /\ connected' = FALSE /\ stream' = stream
        /\ pc' = [pc EXCEPT ![t] = "idle"] /\ Leave(t)
    BY <1>6 DEF CloseEnd
  <2>2. stream = "none"
    BY <2>1 DEF StreamOwner
  <2>3. QED BY <2>1, <2>2, ReturnKeeps
<1>7. ASSUME (\E t \in Tasks : PingClosed(t)) \/ Serve \/ Crash \/ UNCHANGED vars
      PROVE  MutexType' /\ StreamOwner'
  BY <1>7, SameKeeps DEF PingClosed, Serve, Crash, vars, clientVars
<1>8. QED
  BY <1>2, <1>3, <1>4, <1>5, <1>6, <1>7 DEF Next, Poll

-----------------------------------------------------------------------------
(* Types.                                                                  *)

CallerType ==
  /\ req \in [Tasks -> 0..MaxReq]
  /\ result \in [Tasks -> Results]
  /\ issued \in 0..MaxReq
  /\ stream \in {"open", "none"}
  /\ connected \in BOOLEAN /\ eofs \in BOOLEAN

RunType ==
  /\ groups \in 0..2 /\ stmt \in BOOLEAN /\ kept \in Results
  /\ acc \in SUBSET (0..MaxReq)

WireType == toServer \in Seq(Requests) /\ toClient \in Seq(Replies)

ServerType ==
  /\ alive \in BOOLEAN
  /\ prepared \subseteq Ids
  /\ verdict \in [Ids -> {"none", "done", "failed"}]

DoubtType == doubt \subseteq {"timeout", "decode", "cut"}

Types == CallerType /\ RunType /\ WireType /\ ServerType /\ DoubtType

LEMMA TypeParts == MutexType => (TypeOK <=> Types)
BY DEF MutexType, Types, CallerType, RunType, WireType, ServerType, DoubtType, TypeOK,
       Phases, Requests, Replies

LEMMA TypePartsNext == MutexType' => (TypeOK' <=> Types')
BY DEF MutexType, Types, CallerType, RunType, WireType, ServerType, DoubtType, TypeOK,
       Phases, Requests, Replies

LEMMA ResultTypes ==
  /\ NoResult \in Results /\ ErrResult \in Results /\ Spoilt \in Results
  /\ \A from \in SUBSET (0..MaxReq) : [st |-> "ok", from |-> from] \in Results
  /\ 0 \in 0..MaxReq /\ \A r \in Ids : r \in 0..MaxReq
BY MySqlAssumption DEF Results, NoResult, ErrResult, Spoilt, Ids

LEMMA ReturnTypes ==
  ASSUME Types, NEW t \in Tasks, NEW res \in Results, Return(t, res)
  PROVE  CallerType' /\ RunType'
<1>1. CallerType'
  BY ResultTypes DEF Return, Types, CallerType
<1>2. RunType'
  <2>1. CASE ClearLocals
    <3>1. groups' = 0 /\ stmt' = FALSE /\ kept' = NoResult /\ acc' = {}
      BY <2>1 DEF ClearLocals
    <3>2. 0 \in 0..2
      OBVIOUS
    <3>3. (NoResult \in Results)' /\ (stmt \in BOOLEAN)' /\ (acc \in SUBSET (0..MaxReq))'
      BY <3>1, ResultTypes DEF NoResult, Results
    <3>4. QED BY <3>1, <3>2, <3>3 DEF RunType, Results
  <2>2. CASE UNCHANGED localVars
    BY <2>2 DEF localVars, Types, RunType
  <2>3. QED BY <2>1, <2>2 DEF Return
<1>3. QED BY <1>1, <1>2

LEMMA GotoTypes ==
  ASSUME Types, NEW t \in Tasks, NEW phase, Goto(t, phase)
  PROVE  CallerType'
BY DEF Goto, Types, CallerType

LEMMA FinishTypes ==
  ASSUME Types, NEW t \in Tasks, NEW res \in Results, Finish(t, res)
  PROVE  CallerType' /\ RunType'
<1>1. CASE Return(t, res)
  BY <1>1, ReturnTypes
<1>2. CASE Goto(t, "releasing") /\ kept' = res /\ UNCHANGED <<groups, stmt, acc>>
  BY <1>2, GotoTypes DEF Types, RunType
<1>3. QED BY <1>1, <1>2 DEF Finish

LEMMA SameTypes ==
  ASSUME Types
  PROVE  /\ UNCHANGED <<req, result, issued, stream, connected, eofs>> => CallerType'
         /\ UNCHANGED localVars => RunType'
         /\ UNCHANGED wireVars => WireType'
         /\ UNCHANGED serverVars => ServerType'
         /\ UNCHANGED doubt => DoubtType'
BY DEF Types, CallerType, RunType, WireType, ServerType, DoubtType, localVars, wireVars, serverVars

\* The packet at the front, and the stream without it.
LEMMA FrontTypes ==
  ASSUME Types
  PROVE  /\ toClient # <<>> => /\ Head(toClient) \in Replies /\ Head(toClient).of \in Ids
                               /\ Head(toClient).n \in 0..2 /\ Tail(toClient) \in Seq(Replies)
         /\ toServer # <<>> => /\ Head(toServer) \in Requests /\ Head(toServer).of \in Ids
                               /\ Tail(toServer) \in Seq(Requests)
         /\ <<>> \in Seq(Replies)
<1>1. ASSUME NEW S, NEW q \in Seq(S), q # <<>> PROVE Head(q) \in S /\ Tail(q) \in Seq(S)
  BY <1>1
<1>2. toClient # <<>> => Head(toClient) \in Replies /\ Tail(toClient) \in Seq(Replies)
  BY <1>1 DEF Types, WireType
<1>3. toServer # <<>> => Head(toServer) \in Requests /\ Tail(toServer) \in Seq(Requests)
  BY <1>1 DEF Types, WireType
<1>4. QED BY <1>2, <1>3 DEF Replies, Requests

LEMMA ReadTypes ==
  ASSUME Types, Locals, NEW t \in Tasks, Read(t)
  PROVE  Types'
<1>0. UNCHANGED <<toServer, serverVars>> /\ pc[t] \in Reading
  BY DEF Read
<1>1. ServerType'
  BY <1>0, SameTypes
<1>2. WireType' /\ DoubtType'
  <2>1. \/ toClient' = toClient
        \/ toClient' = <<>>
        \/ toClient # <<>> /\ toClient' = Tail(toClient)
    BY DEF Read, ReadAligned, ReadUndecodable, ReadLost, ReadEof
  <2>2. toClient' \in Seq(Replies)
    BY <2>1, FrontTypes DEF Types, WireType
  <2>3. doubt' = doubt \/ doubt' = doubt \cup {"decode"}
    BY DEF Read, ReadAligned, ReadUndecodable, ReadLost, ReadEof
  <2>4. QED BY <2>2, <2>3, <1>0 DEF Types, WireType, DoubtType
<1>3. CallerType' /\ RunType'
  <2>0. /\ groups \in 0..2 /\ stmt \in BOOLEAN /\ kept \in Results /\ acc \in SUBSET (0..MaxReq)
        /\ ErrResult \in Results /\ Spoilt \in Results /\ 0 \in 0..MaxReq
    BY ResultTypes DEF Types, RunType
  <2>1. ASSUME Fail(t) PROVE CallerType' /\ RunType'
    BY <2>0, <2>1, ReturnTypes DEF Fail
  <2>2. ASSUME NEW res \in Results, Finish(t, res) PROVE CallerType' /\ RunType'
    BY <2>2, FinishTypes
  <2>3. ASSUME NEW left \in 0..2, NextGroup(t, left), UNCHANGED <<kept, acc>>
        PROVE  CallerType' /\ RunType'
    <3>1. CallerType'
      BY <2>3, GotoTypes DEF NextGroup
    <3>2. groups' \in 0..2 /\ stmt' \in BOOLEAN
      BY <2>0, <2>3 DEF NextGroup
    <3>3. QED BY <3>1, <3>2, <2>0, <2>3 DEF RunType
  <2>4. ASSUME NEW phase, Goto(t, phase), groups' = groups, stmt' = stmt, kept' = kept,
               acc' \in SUBSET (0..MaxReq)
        PROVE  CallerType' /\ RunType'
    BY <2>0, <2>4, GotoTypes DEF RunType
  <2>5. CASE ReadAligned(t)
    <3> DEFINE m == Head(toClient)
               done == [st |-> "ok", from |-> acc \cup {m.of}]
    <3>1. m.of \in 0..MaxReq /\ m.n \in 0..2
      BY <2>5, FrontTypes, ResultTypes DEF ReadAligned
    <3>2. acc \cup {m.of} \in SUBSET (0..MaxReq)
      BY <2>0, <3>1
    <3>3. done \in Results
      BY <3>2, ResultTypes
    <3>4. CASE ReadPrepare(t, m)
      <4>1. pc[t] \in {"p_defs", "p_eof"} => groups - 1 \in 0..2
        <5>1. pc[t] \in {"p_defs", "p_eof"} => groups # 0
          BY DEF Locals
        <5>2. QED BY <5>1, <2>0
      <4>2. \/ Fail(t)
            \/ NextGroup(t, m.n) /\ UNCHANGED <<kept, acc>>
            \/ pc[t] \in {"p_defs", "p_eof"} /\ NextGroup(t, groups - 1) /\ UNCHANGED <<kept, acc>>
            \/ Goto(t, "p_eof") /\ UNCHANGED <<stmt, groups, kept, acc>>
        BY <3>4 DEF ReadPrepare
      <4>3. CASE Goto(t, "p_eof") /\ UNCHANGED <<stmt, groups, kept, acc>>
        BY <4>3, <2>4, <2>0
      <4> HIDE DEF m
      <4>4. QED BY <4>1, <4>2, <4>3, <2>1, <2>3, <3>1
    <3>5. CASE ReadResult(t, m)
      <4>1. \/ Finish(t, done)
            \/ Finish(t, ErrResult)
            \/ \E phase : /\ Goto(t, phase) /\ UNCHANGED <<groups, stmt, kept>>
                          /\ acc' \in {acc, acc \cup {m.of}}
        BY <3>5 DEF ReadResult, localVars
      <4> HIDE DEF m, done
      <4>2. QED BY <4>1, <2>0, <2>2, <2>4, <3>2, <3>3
    <3>6. CASE ReadUndecodable(t, m)
      BY <3>6, <2>0, <2>1, <2>2 DEF ReadUndecodable
    <3>7. QED BY <3>4, <3>5, <3>6, <2>5 DEF ReadAligned
  <2>6. CASE ReadLost(t)
    <3>1. [st |-> "ok", from |-> acc \cup {0}] \in Results
      BY <2>0, ResultTypes
    <3>2. CASE /\ Goto(t, "executing") /\ stmt' = TRUE /\ groups' = 0
               /\ UNCHANGED <<kept, acc>>
      BY <3>2, <2>0, GotoTypes DEF RunType
    <3>3. QED BY <3>1, <3>2, <2>0, <2>1, <2>2, <2>6 DEF ReadLost
  <2>7. CASE ReadEof(t)
    BY <2>0, <2>1, <2>2, <2>7 DEF ReadEof
  <2>8. QED BY <2>5, <2>6, <2>7 DEF Read
<1>4. QED BY <1>1, <1>2, <1>3 DEF Types

-----------------------------------------------------------------------------
(* The packets of an answer.                                               *)

About(r) == {p \in Replies : p.of = r}

LEMMA PacketFacts ==
  ASSUME NEW r \in Ids
  PROVE  \A k \in Packets, n \in 0..2 :
           Packet(k, r, n) \in About(r) /\ Packet(k, r, n).k = k /\ Packet(k, r, n).n = n
BY DEF Packet, About, Replies

LEMMA AboutFacts ==
  ASSUME NEW r \in Ids, NEW s \in Seq(About(r))
  PROVE  s \in Seq(Replies) /\ \A i \in DOMAIN s : s[i].of = r /\ s[i] \in Replies
<1>1. ASSUME NEW S, NEW q \in Seq(S) PROVE \A i \in DOMAIN q : q[i] \in S
  OBVIOUS
<1>2. \A i \in DOMAIN s : s[i] \in About(r)
  BY <1>1
<1>3. s \in Seq(Replies)
  BY SeqMonotonic DEF About
<1>4. QED BY <1>2, <1>3 DEF About

\* Every packet of an answer tells the reader where it is.
LEMMA AnswerPackets ==
  ASSUME NEW r \in Ids
  PROVE  /\ \A s \in Finals(r) : /\ s \in Seq(About(r)) /\ s # <<>> /\ s[1] = Head(s)
                                 /\ Head(s) \in {P("END", r), P("ERR", r)} /\ Tail(s) = <<>>
         /\ \A s \in RowsOf(r) : /\ s \in Seq(About(r)) /\ s # <<>> /\ s[1] = Head(s)
                                 /\ \/ Head(s) \in {P("END", r), P("ERR", r)} /\ Tail(s) = <<>>
                                    \/ Head(s) = P("ROW", r) /\ Tail(s) \in RowsOf(r)
         /\ \A s \in EofOf(r) : /\ s \in Seq(About(r)) /\ s # <<>> /\ s[1] = Head(s)
                                /\ Head(s) = P("EOF", r) /\ Tail(s) \in RowsOf(r)
         /\ \A s \in ColsOf(r) : /\ s \in Seq(About(r)) /\ s # <<>> /\ s[1] = Head(s)
                                 /\ Head(s) = P("DEFS", r)
                                 /\ Tail(s) \in IF eofs THEN EofOf(r) ELSE RowsOf(r)
         /\ \A s \in FirstOf(r) : /\ s \in Seq(About(r)) /\ s # <<>> /\ s[1] = Head(s)
                                  /\ \/ Head(s) \in {P("OK", r), P("ERR", r)} /\ Tail(s) = <<>>
                                     \/ Head(s) = P("COUNT", r) /\ Tail(s) \in ColsOf(r)
<1>1. \A k \in Packets : P(k, r) \in About(r)
  BY PacketFacts DEF P
<1>2. ASSUME NEW e \in About(r)
      PROVE  <<e>> \in Seq(About(r)) /\ <<e>> # <<>> /\ <<e>>[1] = Head(<<e>>) /\ Head(<<e>>) = e /\ Tail(<<e>>) = <<>>
  OBVIOUS
<1>3. \A s \in Finals(r) : /\ s \in Seq(About(r)) /\ s # <<>> /\ s[1] = Head(s)
                           /\ Head(s) \in {P("END", r), P("ERR", r)} /\ Tail(s) = <<>>
  BY <1>1, <1>2 DEF Finals, Packets
<1>4. ASSUME NEW e \in About(r), NEW T, \A s \in T : s \in Seq(About(r)),
             NEW q, q \in {<<e>> \o s : s \in T}
      PROVE  q \in Seq(About(r)) /\ q # <<>> /\ q[1] = Head(q) /\ Head(q) = e /\ Tail(q) \in T
  <2>1. PICK s \in T : q = <<e>> \o s
    BY <1>4
  <2>2. s \in Seq(About(r))
    BY <1>4
  <2>3. /\ <<e>> \o s \in Seq(About(r)) /\ <<e>> \o s # <<>>
        /\ Head(<<e>> \o s) = e /\ (<<e>> \o s)[1] = e /\ Tail(<<e>> \o s) = s
    BY <2>2, Prepended
  <2>4. QED BY <2>1, <2>3
<1>5. ASSUME NEW s \in RowsOf(r)
      PROVE  /\ s \in Seq(About(r)) /\ s # <<>> /\ s[1] = Head(s)
             /\ \/ Head(s) \in {P("END", r), P("ERR", r)} /\ Tail(s) = <<>>
                \/ Head(s) = P("ROW", r) /\ Tail(s) \in RowsOf(r)
  <2>1. CASE s \in Finals(r)
    BY <2>1, <1>3
  <2>2. CASE s \in {<<P("ROW", r)>> \o f : f \in Finals(r)}
    <3>1. P("ROW", r) \in About(r) /\ \A f \in Finals(r) : f \in Seq(About(r))
      BY <1>1, <1>3 DEF Packets
    <3>2. s \in Seq(About(r)) /\ s # <<>> /\ s[1] = Head(s) /\ Head(s) = P("ROW", r) /\ Tail(s) \in Finals(r)
      BY <3>1, <2>2, <1>4
    <3>3. QED BY <3>2 DEF RowsOf
  <2>3. QED BY <2>1, <2>2 DEF RowsOf
<1>6. ASSUME NEW s \in EofOf(r)
      PROVE  /\ s \in Seq(About(r)) /\ s # <<>> /\ s[1] = Head(s)
             /\ Head(s) = P("EOF", r) /\ Tail(s) \in RowsOf(r)
  <2>1. P("EOF", r) \in About(r) /\ \A f \in RowsOf(r) : f \in Seq(About(r))
    BY <1>1, <1>5 DEF Packets
  <2>2. s \in {<<P("EOF", r)>> \o f : f \in RowsOf(r)}
    BY DEF EofOf
  <2>3. QED BY <2>1, <2>2, <1>4
<1>7. ASSUME NEW s \in ColsOf(r)
      PROVE  /\ s \in Seq(About(r)) /\ s # <<>> /\ s[1] = Head(s)
             /\ Head(s) = P("DEFS", r)
             /\ Tail(s) \in IF eofs THEN EofOf(r) ELSE RowsOf(r)
  <2> DEFINE T == IF eofs THEN EofOf(r) ELSE RowsOf(r)
  <2>1. P("DEFS", r) \in About(r) /\ \A f \in T : f \in Seq(About(r))
    BY <1>1, <1>5, <1>6 DEF Packets
  <2>2. s \in {<<P("DEFS", r)>> \o f : f \in T}
    BY DEF ColsOf
  <2> HIDE DEF T
  <2>3. s \in Seq(About(r)) /\ s # <<>> /\ s[1] = Head(s) /\ Head(s) = P("DEFS", r) /\ Tail(s) \in T
    BY <2>1, <2>2, <1>4
  <2>4. QED BY <2>3 DEF T
<1>8. ASSUME NEW s \in FirstOf(r)
      PROVE  /\ s \in Seq(About(r)) /\ s # <<>> /\ s[1] = Head(s)
             /\ \/ Head(s) \in {P("OK", r), P("ERR", r)} /\ Tail(s) = <<>>
                \/ Head(s) = P("COUNT", r) /\ Tail(s) \in ColsOf(r)
  <2>1. CASE s \in {<<P("OK", r)>>, <<P("ERR", r)>>}
    BY <2>1, <1>1, <1>2 DEF Packets
  <2>2. CASE s \in {<<P("COUNT", r)>> \o f : f \in ColsOf(r)}
    <3>1. P("COUNT", r) \in About(r) /\ \A f \in ColsOf(r) : f \in Seq(About(r))
      BY <1>1, <1>7 DEF Packets
    <3>2. s \in Seq(About(r)) /\ s # <<>> /\ s[1] = Head(s) /\ Head(s) = P("COUNT", r) /\ Tail(s) \in ColsOf(r)
      BY <3>1, <2>2, <1>4
    <3>3. QED BY <3>2
  <2>3. QED BY <2>1, <2>2 DEF FirstOf
<1>9. QED BY <1>3, <1>5, <1>6, <1>7, <1>8

LEMMA PreparePackets ==
  ASSUME NEW r \in Ids
  PROVE  /\ \A n \in 0..2 : GroupsOf(r, n) \in Seq(About(r))
         /\ GroupsOf(r, 0) = <<>>
         /\ \A n \in 1..2 : /\ GroupsOf(r, n) # <<>> /\ Head(GroupsOf(r, n)) = P("DEFS", r)
                            /\ Tail(GroupsOf(r, n)) = IF eofs THEN <<P("EOF", r)>> \o GroupsOf(r, n - 1)
                                                              ELSE GroupsOf(r, n - 1)
         /\ \A n \in 1..2 : LET s == <<P("EOF", r)>> \o GroupsOf(r, n - 1)
                            IN  /\ s \in Seq(About(r)) /\ s # <<>> /\ Head(s) = P("EOF", r)
                                /\ Tail(s) = GroupsOf(r, n - 1)
         /\ \A s \in PrepareOf(r) : /\ s \in Seq(About(r)) /\ s # <<>> /\ s[1] = Head(s)
                                    /\ \/ Head(s) = P("ERR", r) /\ Tail(s) = <<>>
                                       \/ \E n \in 0..2 : /\ Head(s) = Packet("PREPARED", r, n)
                                                          /\ Tail(s) = GroupsOf(r, n)
<1>1. P("DEFS", r) \in About(r) /\ P("EOF", r) \in About(r) /\ P("ERR", r) \in About(r)
  BY PacketFacts DEF P, Packets
<1>2. ASSUME NEW e \in About(r), NEW s \in Seq(About(r))
      PROVE  /\ <<e>> \o s \in Seq(About(r)) /\ <<e>> \o s # <<>>
             /\ (<<e>> \o s)[1] = Head(<<e>> \o s) /\ Head(<<e>> \o s) = e /\ Tail(<<e>> \o s) = s
  BY Prepended
<1>3. ASSUME NEW s \in Seq(About(r))
      PROVE  /\ Group(r, s) \in Seq(About(r)) /\ Group(r, s) # <<>>
             /\ Head(Group(r, s)) = P("DEFS", r)
             /\ Tail(Group(r, s)) = IF eofs THEN <<P("EOF", r)>> \o s ELSE s
  <2>1. <<P("EOF", r)>> \o s \in Seq(About(r))
    BY <1>1, <1>2
  <2>2. QED BY <2>1, <1>1, <1>2 DEF Group
<1>4. <<>> \in Seq(About(r))
  OBVIOUS
<1>5. GroupsOf(r, 0) = <<>> /\ GroupsOf(r, 1) = Group(r, <<>>) /\ GroupsOf(r, 2) = Group(r, Group(r, <<>>))
  BY DEF GroupsOf
<1>6. Group(r, <<>>) \in Seq(About(r))
  BY <1>3, <1>4
<1>7. \A n \in 0..2 : GroupsOf(r, n) \in Seq(About(r))
  <2>1. \A n \in 0..2 : n = 0 \/ n = 1 \/ n = 2
    OBVIOUS
  <2>2. QED BY <2>1, <1>3, <1>4, <1>5, <1>6
<1>8. \A n \in 1..2 : /\ GroupsOf(r, n) # <<>> /\ Head(GroupsOf(r, n)) = P("DEFS", r)
                      /\ Tail(GroupsOf(r, n)) = IF eofs THEN <<P("EOF", r)>> \o GroupsOf(r, n - 1)
                                                        ELSE GroupsOf(r, n - 1)
  <2>1. /\ \A n \in 1..2 : n = 1 \/ n = 2
        /\ 1 - 1 = 0 /\ 2 - 1 = 1
    OBVIOUS
  <2>2. /\ Group(r, <<>>) # <<>> /\ Head(Group(r, <<>>)) = P("DEFS", r)
        /\ Tail(Group(r, <<>>)) = IF eofs THEN <<P("EOF", r)>> \o <<>> ELSE <<>>
    BY <1>3, <1>4
  <2>3. LET s == Group(r, <<>>)
        IN  /\ Group(r, s) # <<>> /\ Head(Group(r, s)) = P("DEFS", r)
            /\ Tail(Group(r, s)) = IF eofs THEN <<P("EOF", r)>> \o s ELSE s
    BY <1>3, <1>6
  <2>4. QED BY <2>1, <2>2, <2>3, <1>5
<1>9. \A n \in 1..2 : LET s == <<P("EOF", r)>> \o GroupsOf(r, n - 1)
                      IN  /\ s \in Seq(About(r)) /\ s # <<>> /\ Head(s) = P("EOF", r)
                          /\ Tail(s) = GroupsOf(r, n - 1)
  <2>1. \A n \in 1..2 : n - 1 \in 0..2
    OBVIOUS
  <2>2. QED BY <2>1, <1>1, <1>2, <1>7
<1>10. \A s \in PrepareOf(r) : /\ s \in Seq(About(r)) /\ s # <<>> /\ s[1] = Head(s)
                               /\ \/ Head(s) = P("ERR", r) /\ Tail(s) = <<>>
                                  \/ \E n \in 0..2 : /\ Head(s) = Packet("PREPARED", r, n)
                                                     /\ Tail(s) = GroupsOf(r, n)
  <2>1. ASSUME NEW n \in 0..2, NEW s, s = <<Packet("PREPARED", r, n)>> \o GroupsOf(r, n)
        PROVE  /\ s \in Seq(About(r)) /\ s # <<>> /\ s[1] = Head(s)
               /\ Head(s) = Packet("PREPARED", r, n) /\ Tail(s) = GroupsOf(r, n)
    <3>1. Packet("PREPARED", r, n) \in About(r)
      BY PacketFacts DEF Packets
    <3>2. QED BY <3>1, <2>1, <1>2, <1>7
  <2>2. ASSUME NEW s, s = <<P("ERR", r)>>
        PROVE  s \in Seq(About(r)) /\ s # <<>> /\ s[1] = Head(s) /\ Head(s) = P("ERR", r) /\ Tail(s) = <<>>
    BY <2>2, <1>1
  <2>3. QED BY <2>1, <2>2 DEF PrepareOf
<1>11. QED BY <1>5, <1>7, <1>8, <1>9, <1>10

\* What the server sends is what the reader expects.
Dull(r) == {p \in About(r) : p.k \notin {"OK", "END"}}

LEMMA DefsFacts ==
  ASSUME NEW r \in Ids
  PROVE  /\ Defs(r) \in Seq(Dull(r)) /\ Defs(r) \in Seq(About(r))
         /\ \A s \in Seq(About(r)) : Defs(r) \o s = Group(r, s)
<1>1. \A k \in {"DEFS", "EOF"} : P(k, r) \in Dull(r) /\ P(k, r) \in About(r)
  BY PacketFacts DEF P, Dull, Packets
<1>2. /\ <<P("DEFS", r)>> \in Seq(Dull(r)) /\ <<P("EOF", r)>> \in Seq(Dull(r)) /\ <<>> \in Seq(Dull(r))
      /\ <<P("DEFS", r)>> \in Seq(About(r)) /\ <<P("EOF", r)>> \in Seq(About(r)) /\ <<>> \in Seq(About(r))
  BY <1>1
<1>3. Defs(r) = <<P("DEFS", r)>> \o IF eofs THEN <<P("EOF", r)>> ELSE <<>>
  BY DEF Defs, P
<1>4. Defs(r) \in Seq(Dull(r))
  BY <1>2, <1>3
<1>5. Defs(r) \in Seq(About(r))
  BY <1>2, <1>3
<1>6. ASSUME NEW s \in Seq(About(r)) PROVE Defs(r) \o s = Group(r, s)
  <2>1. CASE eofs
    <3>1. (<<P("DEFS", r)>> \o <<P("EOF", r)>>) \o s = <<P("DEFS", r)>> \o (<<P("EOF", r)>> \o s)
      BY <1>2, ConcatAssociative
    <3>2. QED BY <3>1, <2>1, <1>3 DEF Group
  <2>2. CASE ~eofs
    <3>1. <<P("DEFS", r)>> \o <<>> = <<P("DEFS", r)>>
      BY <1>2, ConcatEmptySeq
    <3>2. QED BY <3>1, <2>2, <1>3 DEF Group
  <2>3. QED BY <2>1, <2>2
<1>7. QED BY <1>4, <1>5, <1>6

LEMMA ServedAnswer ==
  ASSUME NEW r \in Ids, NEW a \in Answers(r)
  PROVE  /\ a[1] \in FirstOf(r) /\ a[2] \in {"done", "failed"}
         /\ a[2] = "failed" => \A i \in DOMAIN a[1] : a[1][i].k \notin {"OK", "END"}
<1>1. \A k \in Packets : P(k, r) \in About(r) /\ P(k, r).k = k
  BY PacketFacts DEF P
<1>2. \A k \in {"COUNT", "ROW", "ERR"} : P(k, r) \in Dull(r)
  BY <1>1 DEF Dull, Packets
<1>3. ASSUME NEW f \in Finals(r)
      PROVE  Table(r) \o f \in FirstOf(r)
  <2> DEFINE g == <<P("ROW", r)>> \o f
  <2>1. f \in Seq(About(r))
    BY AnswerPackets
  <2>2. <<P("ROW", r)>> \in Seq(About(r)) /\ <<P("COUNT", r)>> \in Seq(About(r))
    BY <1>1 DEF Packets
  <2>3. g \in RowsOf(r) /\ g \in Seq(About(r))
    <3>1. g \in RowsOf(r)
      BY DEF RowsOf
    <3>2. QED BY <3>1, AnswerPackets
  <2>4. Table(r) = (<<P("COUNT", r)>> \o Defs(r)) \o <<P("ROW", r)>>
    BY DEF Table, P
  <2>5. (<<P("COUNT", r)>> \o Defs(r)) \in Seq(About(r)) /\ Defs(r) \in Seq(About(r))
    BY <2>2, DefsFacts
  <2>6. Table(r) \o f = (<<P("COUNT", r)>> \o Defs(r)) \o g
    BY <2>1, <2>2, <2>4, <2>5, ConcatAssociative
  <2> HIDE DEF g
  <2>7. (<<P("COUNT", r)>> \o Defs(r)) \o g = <<P("COUNT", r)>> \o (Defs(r) \o g)
    BY <2>2, <2>3, <2>5, ConcatAssociative
  <2>8. Defs(r) \o g = Group(r, g)
    BY <2>3, DefsFacts
  <2>9. Group(r, g) \in ColsOf(r)
    BY <2>3 DEF Group, ColsOf, EofOf
  <2>10. QED BY <2>6, <2>7, <2>8, <2>9 DEF FirstOf
<1>4. Ok(r) = <<P("OK", r)>> /\ Error(r) = <<P("ERR", r)>> /\ <<Packet("END", r, 0)>> = <<P("END", r)>>
  BY DEF Ok, Error, P
<1>5. ASSUME NEW q \in Seq(Dull(r)) PROVE \A i \in DOMAIN q : q[i].k \notin {"OK", "END"}
  <2>1. ASSUME NEW S, NEW s \in Seq(S) PROVE \A i \in DOMAIN s : s[i] \in S
    OBVIOUS
  <2>2. \A i \in DOMAIN q : q[i] \in Dull(r)
    BY <2>1
  <2>3. QED BY <2>2 DEF Dull
<1>6. Error(r) \in Seq(Dull(r)) /\ Table(r) \o Error(r) \in Seq(Dull(r))
  <2>1. <<P("COUNT", r)>> \in Seq(Dull(r)) /\ <<P("ROW", r)>> \in Seq(Dull(r)) /\ Error(r) \in Seq(Dull(r))
    BY <1>2, <1>4
  <2>2. Table(r) = (<<P("COUNT", r)>> \o Defs(r)) \o <<P("ROW", r)>>
    BY DEF Table, P
  <2>3. Defs(r) \in Seq(Dull(r))
    BY DefsFacts
  <2>4. Table(r) \in Seq(Dull(r))
    BY <2>1, <2>2, <2>3
  <2>5. QED BY <2>1, <2>4
<1>7. \/ a[1] = Ok(r) /\ a[2] = "done"
      \/ a[1] = Error(r) /\ a[2] = "failed"
      \/ a[1] = Table(r) \o <<P("END", r)>> /\ a[2] = "done"
      \/ a[1] = Table(r) \o Error(r) /\ a[2] = "failed"
  BY <1>4 DEF Answers
<1>8. Ok(r) \in FirstOf(r) /\ Error(r) \in FirstOf(r) /\ Error(r) \in Finals(r) /\ <<P("END", r)>> \in Finals(r)
  BY <1>4 DEF FirstOf, Finals
<1>9. QED BY <1>3, <1>5, <1>6, <1>7, <1>8

LEMMA ServedPrepare ==
  ASSUME NEW r \in Ids, NEW n \in 0..2
  PROVE  <<Packet("PREPARED", r, n)>> \o (IF n > 0 THEN Defs(r) ELSE <<>>)
                                      \o (IF n > 1 THEN Defs(r) ELSE <<>>)
           = <<Packet("PREPARED", r, n)>> \o GroupsOf(r, n)
<1> DEFINE p == <<Packet("PREPARED", r, n)>>
<1>1. p \in Seq(About(r)) /\ Defs(r) \in Seq(About(r)) /\ <<>> \in Seq(About(r))
  <2>1. Packet("PREPARED", r, n) \in About(r)
    BY PacketFacts DEF Packets
  <2>2. p \in Seq(About(r)) /\ <<>> \in Seq(About(r))
    BY <2>1
  <2>3. QED BY <2>2, DefsFacts
<1> HIDE DEF p
<1>2. Defs(r) = Group(r, <<>>) /\ Defs(r) \o Defs(r) = Group(r, Group(r, <<>>))
  <2>1. Defs(r) \o <<>> = Defs(r)
    BY <1>1, ConcatEmptySeq
  <2>2. QED BY <2>1, <1>1, DefsFacts
<1>3. p \o <<>> = p /\ (p \o <<>>) \o <<>> = p \o <<>>
  BY <1>1, ConcatEmptySeq
<1>4. p \o Defs(r) \in Seq(About(r))
  BY <1>1
<1>5. (p \o Defs(r)) \o <<>> = p \o Defs(r)
  BY <1>4, ConcatEmptySeq
<1>6. (p \o Defs(r)) \o Defs(r) = p \o (Defs(r) \o Defs(r))
  BY <1>1, ConcatAssociative
<1>7. CASE n = 0
  BY <1>7, <1>3 DEF GroupsOf, p
<1>8. CASE n = 1
  BY <1>8, <1>2, <1>5 DEF GroupsOf, p
<1>9. CASE n = 2
  <2>1. GroupsOf(r, n) = Group(r, Group(r, <<>>))
    BY <1>9 DEF GroupsOf
  <2>2. n > 0 /\ n > 1
    BY <1>9
  <2>3. (p \o Defs(r)) \o Defs(r) = p \o GroupsOf(r, n)
    BY <2>1, <1>2, <1>6
  <2>4. QED BY <2>2, <2>3 DEF p
<1>10. n = 0 \/ n = 1 \/ n = 2
  OBVIOUS
<1>11. QED BY <1>7, <1>8, <1>9, <1>10

-----------------------------------------------------------------------------
(* What the server does with the command m at the front, and answers (ms). *)

\* m is run, or refused for good.
Ran(m, ms) ==
  /\ prepared' = prepared
  /\ \E v \in {"done", "failed"} :
       /\ verdict' = [verdict EXCEPT ![m.of] = v]
       /\ v = "failed" => \A i \in DOMAIN ms : ms[i].k \notin {"OK", "END"}
  /\ \/ /\ m.k = "QUERY" \/ (m.k = "EXECUTE" /\ m.of \in prepared)
        /\ ms \in FirstOf(m.of)
     \/ m.k = "PING" /\ ms = <<P("OK", m.of)>>
     \/ m.k = "PREPARE" /\ ms = <<P("ERR", m.of)>>

Readied(m, ms) ==
  /\ m.k = "PREPARE" /\ verdict' = verdict /\ prepared' = prepared \cup {m.of}
  /\ \E n \in 0..2 : ms = <<Packet("PREPARED", m.of, n)>> \o GroupsOf(m.of, n)

Unknown(m, ms) ==
  /\ m.k = "EXECUTE" /\ m.of \notin prepared /\ UNCHANGED <<verdict, prepared>>
  /\ ms = <<P("ERR", m.of)>>

Closed(m, ms) ==
  m.k = "CLOSE" /\ verdict' = verdict /\ prepared' = prepared \ {m.of} /\ ms = <<>>

Responds(m, ms) ==
  /\ alive /\ toServer # <<>> /\ toServer' = Tail(toServer)
  /\ m \in Requests /\ m.of \in Ids /\ ms \in Seq(About(m.of))
  /\ toClient' = IF doubt = {} THEN toClient \o ms ELSE toClient
  /\ UNCHANGED <<clientVars, localVars, alive, doubt>>
  /\ Ran(m, ms) \/ Readied(m, ms) \/ Unknown(m, ms) \/ Closed(m, ms)

LEMMA ServeFacts ==
  ASSUME Types, Serve
  PROVE  \E ms : Responds(toServer[1], ms)
<1> DEFINE m == Head(toServer)
<1>1. /\ alive /\ toServer # <<>> /\ toServer' = Tail(toServer)
      /\ UNCHANGED <<clientVars, localVars, alive, doubt>>
  BY DEF Serve
<1>2. m = toServer[1] /\ m \in Requests /\ m.of \in Ids
  <2>1. toServer \in Seq(Requests)
    BY DEF Types, WireType
  <2>2. QED BY <2>1, <1>1, FrontTypes
<1>3. ASSUME NEW ms, ms \in Seq(About(m.of)), Deliver(ms),
             Ran(m, ms) \/ Readied(m, ms) \/ Unknown(m, ms) \/ Closed(m, ms)
      PROVE  \E s : Responds(toServer[1], s)
  BY <1>1, <1>2, <1>3 DEF Responds, Deliver
<1>4. \/ /\ m.k = "QUERY" \/ (m.k = "EXECUTE" /\ m.of \in prepared)
         /\ \E a \in Answers(m.of) : Deliver(a[1]) /\ Decided(m.of, a[2])
         /\ UNCHANGED prepared
      \/ /\ m.k = "PREPARE"
         /\ Deliver(Error(m.of)) /\ Decided(m.of, "failed") /\ UNCHANGED prepared
      \/ /\ m.k = "PREPARE"
         /\ \E n \in 0..2 : Deliver(<<Packet("PREPARED", m.of, n)>>
                                    \o (IF n > 0 THEN Defs(m.of) ELSE <<>>)
                                    \o (IF n > 1 THEN Defs(m.of) ELSE <<>>))
         /\ prepared' = prepared \cup {m.of} /\ UNCHANGED verdict
      \/ /\ m.k = "EXECUTE" /\ m.of \notin prepared
         /\ Deliver(Error(m.of)) /\ UNCHANGED <<prepared, verdict>>
      \/ m.k = "CLOSE" /\ prepared' = prepared \ {m.of} /\ UNCHANGED <<toClient, verdict>>
      \/ m.k = "PING" /\ Deliver(Ok(m.of)) /\ Decided(m.of, "done") /\ UNCHANGED prepared
  BY DEF Serve
<1> HIDE DEF m
<1>5. /\ Error(m.of) = <<P("ERR", m.of)>> /\ Ok(m.of) = <<P("OK", m.of)>>
      /\ Error(m.of) \in Seq(About(m.of)) /\ Ok(m.of) \in Seq(About(m.of)) /\ <<>> \in Seq(About(m.of))
      /\ \A i \in DOMAIN Error(m.of) : Error(m.of)[i].k \notin {"OK", "END"}
  <2>1. /\ Packet("ERR", m.of, 0) \in About(m.of) /\ Packet("OK", m.of, 0) \in About(m.of)
        /\ Packet("ERR", m.of, 0).k = "ERR"
    BY <1>2, PacketFacts DEF Packets
  <2>2. Error(m.of) = <<P("ERR", m.of)>> /\ Ok(m.of) = <<P("OK", m.of)>>
    BY DEF Error, Ok, P
  <2>3. ASSUME NEW S, NEW e \in S PROVE <<e>> \in Seq(S) /\ \A i \in DOMAIN <<e>> : <<e>>[i] = e
    OBVIOUS
  <2>4. <<>> \in Seq(About(m.of))
    OBVIOUS
  <2>5. QED BY <2>1, <2>2, <2>3, <2>4 DEF P
<1>6. CASE /\ m.k = "QUERY" \/ (m.k = "EXECUTE" /\ m.of \in prepared)
           /\ \E a \in Answers(m.of) : Deliver(a[1]) /\ Decided(m.of, a[2])
           /\ UNCHANGED prepared
  <2>1. PICK a \in Answers(m.of) : Deliver(a[1]) /\ Decided(m.of, a[2])
    BY <1>6
  <2>2. /\ a[1] \in FirstOf(m.of) /\ a[2] \in {"done", "failed"}
        /\ a[2] = "failed" => \A i \in DOMAIN a[1] : a[1][i].k \notin {"OK", "END"}
    BY <1>2, ServedAnswer
  <2>3. a[1] \in Seq(About(m.of))
    BY <1>2, <2>2, AnswerPackets
  <2>4. Ran(m, a[1])
    BY <1>6, <2>1, <2>2 DEF Ran, Decided
  <2>5. QED BY <2>1, <2>3, <2>4, <1>3
<1>7. CASE m.k = "PREPARE" /\ Deliver(Error(m.of)) /\ Decided(m.of, "failed") /\ UNCHANGED prepared
  <2>1. Ran(m, Error(m.of))
    BY <1>5, <1>7 DEF Ran, Decided
  <2>2. QED BY <2>1, <1>3, <1>5, <1>7
<1>8. CASE /\ m.k = "PREPARE"
           /\ \E n \in 0..2 : Deliver(<<Packet("PREPARED", m.of, n)>>
                                      \o (IF n > 0 THEN Defs(m.of) ELSE <<>>)
                                      \o (IF n > 1 THEN Defs(m.of) ELSE <<>>))
           /\ prepared' = prepared \cup {m.of} /\ UNCHANGED verdict
  <2>1. PICK n \in 0..2 : Deliver(<<Packet("PREPARED", m.of, n)>>
                                  \o (IF n > 0 THEN Defs(m.of) ELSE <<>>)
                                  \o (IF n > 1 THEN Defs(m.of) ELSE <<>>))
    BY <1>8
  <2> DEFINE ms == <<Packet("PREPARED", m.of, n)>> \o GroupsOf(m.of, n)
  <2>2. Deliver(ms)
    BY <2>1, <1>2, ServedPrepare
  <2>3. ms \in Seq(About(m.of))
    <3>1. ms \in PrepareOf(m.of)
      BY DEF PrepareOf
    <3>2. QED BY <3>1, <1>2, PreparePackets
  <2>4. Readied(m, ms)
    BY <1>8 DEF Readied
  <2> HIDE DEF ms
  <2>5. QED BY <2>2, <2>3, <2>4, <1>3
<1>9. CASE /\ m.k = "EXECUTE" /\ m.of \notin prepared
           /\ Deliver(Error(m.of)) /\ UNCHANGED <<prepared, verdict>>
  <2>1. Unknown(m, Error(m.of))
    BY <1>5, <1>9 DEF Unknown
  <2>2. QED BY <2>1, <1>3, <1>5, <1>9
<1>10. CASE m.k = "CLOSE" /\ prepared' = prepared \ {m.of} /\ UNCHANGED <<toClient, verdict>>
  <2>1. toClient \o <<>> = toClient
    <3>1. toClient \in Seq(Replies)
      BY DEF Types, WireType
    <3>2. QED BY <3>1, ConcatEmptySeq
  <2>2. Deliver(<<>>)
    BY <2>1, <1>10 DEF Deliver
  <2>3. Closed(m, <<>>)
    BY <1>10 DEF Closed
  <2>4. QED BY <2>2, <2>3, <1>3, <1>5
<1>11. CASE m.k = "PING" /\ Deliver(Ok(m.of)) /\ Decided(m.of, "done") /\ UNCHANGED prepared
  <2>1. Ran(m, Ok(m.of))
    BY <1>5, <1>11 DEF Ran, Decided
  <2>2. QED BY <2>1, <1>3, <1>5, <1>11
<1>12. QED BY <1>4, <1>6, <1>7, <1>8, <1>9, <1>10, <1>11

LEMMA ServeTypes ==
  ASSUME Types, Serve
  PROVE  Types'
<1>1. PICK ms : Responds(toServer[1], ms)
  BY ServeFacts
<1> DEFINE m == toServer[1]
<1>2. /\ UNCHANGED <<clientVars, localVars, alive, doubt>> /\ m.of \in Ids
      /\ toServer # <<>> /\ toServer' = Tail(toServer)
      /\ ms \in Seq(Replies)
      /\ toClient' = IF doubt = {} THEN toClient \o ms ELSE toClient
      /\ Ran(m, ms) \/ Readied(m, ms) \/ Unknown(m, ms) \/ Closed(m, ms)
  <2>1. ms \in Seq(About(m.of)) => ms \in Seq(Replies)
    BY SeqMonotonic DEF About
  <2>2. QED BY <2>1, <1>1 DEF Responds
<1> HIDE DEF m
<1>3. CallerType' /\ RunType' /\ DoubtType'
  BY <1>2, SameTypes DEF clientVars
<1>4. WireType'
  <2>1. toClient \in Seq(Replies)
    BY DEF Types, WireType
  <2>2. toClient \o ms \in Seq(Replies)
    BY <2>1, <1>2
  <2>3. toServer' \in Seq(Requests)
    BY <1>2, FrontTypes
  <2>4. QED BY <2>1, <2>2, <2>3, <1>2 DEF WireType
<1>5. ServerType'
  BY <1>2 DEF Types, ServerType, Ran, Readied, Unknown, Closed
<1>6. QED BY <1>3, <1>4, <1>5 DEF Types

LEMMA SentTypes ==
  ASSUME Types, OwnStatements, NEW t \in Tasks, pc[t] \in Calling, NEW k \in Commands, Sent(t, k)
  PROVE  /\ toServer' \in Seq(Requests) /\ [k |-> k, of |-> req[t]] \in Requests
         /\ toServer' = Append(toServer, [k |-> k, of |-> req[t]])
<1>1. [k |-> k, of |-> req[t]] \in Requests
  BY DEF OwnStatements, Requests
<1>2. toServer \in Seq(Requests)
  BY DEF Types, WireType
<1>3. Append(toServer, [k |-> k, of |-> req[t]]) \in Seq(Requests)
  BY <1>1, <1>2
<1>4. QED BY <1>1, <1>3 DEF Sent

LEMMA ReleasedTypes ==
  ASSUME Types, NEW t \in Tasks, Released(t)
  PROVE  /\ CallerType' /\ RunType' /\ DoubtType' /\ toClient' \in Seq(Replies)
<1>0. kept \in Results /\ ErrResult \in Results /\ toClient \in Seq(Replies) /\ <<>> \in Seq(Replies)
  BY ResultTypes DEF Types, RunType, WireType
<1>1. CASE Return(t, ErrResult) /\ doubt' = doubt \cup {"decode"} /\ toClient' = <<>>
  BY <1>0, <1>1, ReturnTypes DEF Types, DoubtType
<1>2. CASE Return(t, kept) /\ UNCHANGED <<doubt, toClient>>
  BY <1>0, <1>2, ReturnTypes DEF Types, DoubtType
<1>3. QED BY <1>1, <1>2 DEF Released

LEMMA TypesStep ==
  ASSUME MutexType, Types, OwnStatements, Locals, [Next]_vars
  PROVE  Types'
<1>0. /\ req \in [Tasks -> 0..MaxReq] /\ result \in [Tasks -> Results] /\ issued \in 0..MaxReq
      /\ MaxReq \in Nat /\ ErrResult \in Results /\ NoResult \in Results /\ 0 \in 0..MaxReq
      /\ toServer \in Seq(Requests) /\ toClient \in Seq(Replies) /\ <<>> \in Seq(Replies)
      /\ doubt \subseteq {"timeout", "decode", "cut"}
  BY ResultTypes, MySqlAssumption DEF Types, CallerType, WireType, DoubtType
<1>1. ASSUME NEW t \in Tasks, Execute(t) PROVE Types'
  <2>1. issued' \in 0..MaxReq /\ req' \in [Tasks -> 0..MaxReq] /\ result' \in [Tasks -> Results]
    <3>1. issued + 1 \in 0..MaxReq
      BY <1>0, <1>1 DEF Execute
    <3>2. /\ issued' = issued + 1 /\ req' = [req EXCEPT ![t] = issued + 1]
          /\ result' = [result EXCEPT ![t] = NoResult]
      BY <1>1 DEF Execute
    <3>3. QED BY <3>1, <3>2, <1>0
  <2>2. CallerType'
    BY <2>1, <1>1 DEF Execute, Types, CallerType
  <2>3. QED BY <2>2, <1>1, SameTypes DEF Execute, Types
<1>2. ASSUME NEW t \in Tasks, PingClosed(t) PROVE Types'
  <2>1. result' \in [Tasks -> Results]
    BY <1>0, <1>2 DEF PingClosed
  <2>2. CallerType'
    BY <2>1, <1>2 DEF PingClosed, Types, CallerType
  <2>3. QED BY <2>2, <1>2, SameTypes DEF PingClosed, Types
<1>3. ASSUME NEW t \in Tasks, Fail(t) PROVE CallerType' /\ RunType'
  BY <1>0, <1>3, ReturnTypes DEF Fail
<1>4. ASSUME NEW t \in Tasks, Acquire(t) PROVE Types'
  <2>1. CallerType' /\ RunType'
    BY <1>3, <1>4, GotoTypes, SameTypes DEF Acquire
  <2>2. QED BY <2>1, <1>4, SameTypes DEF Acquire, Types
<1>5. ASSUME NEW t \in Tasks, Write(t) PROVE Types'
  <2>1. PICK k \in Commands : Sent(t, k)
    BY <1>5 DEF Write, Commands
  <2>2. pc[t] \in Calling
    BY <1>5 DEF Write, Calling, Writing
  <2>3. toServer' \in Seq(Requests)
    BY <2>1, <2>2, SentTypes
  <2>4. CallerType' /\ RunType'
    BY <1>5, GotoTypes, SameTypes DEF Write
  <2>5. UNCHANGED <<toClient, serverVars, doubt>>
    BY <1>5 DEF Write
  <2>6. QED BY <2>3, <2>4, <2>5, <1>0, SameTypes DEF Types, WireType
<1>6. ASSUME NEW t \in Tasks, Release(t) PROVE Types'
  <2>1. toServer' \in Seq(Requests)
    BY <1>6, SentTypes DEF Release, Calling, Writing, Commands
  <2>2. CallerType' /\ RunType' /\ DoubtType' /\ toClient' \in Seq(Replies)
    BY <1>6, ReleasedTypes DEF Release
  <2>3. ServerType'
    BY <1>6, SameTypes DEF Release
  <2>4. QED BY <2>1, <2>2, <2>3 DEF Types, WireType
<1>7. ASSUME NEW t \in Tasks, WriteFails(t) PROVE Types'
  <2>1. UNCHANGED <<serverVars, toServer>>
    BY <1>7 DEF WriteFails
  <2>2. CASE Released(t)
    <3>1. CallerType' /\ RunType' /\ DoubtType' /\ toClient' \in Seq(Replies)
      BY <2>2, ReleasedTypes
    <3>2. QED BY <3>1, <2>1, <1>0, SameTypes DEF Types, WireType
  <2>3. CASE (Fail(t) \/ Finish(t, ErrResult)) /\ UNCHANGED <<toClient, doubt>>
    <3>1. CallerType' /\ RunType'
      BY <2>3, <1>0, <1>3, FinishTypes
    <3>2. QED BY <3>1, <2>1, <2>3, SameTypes DEF Types, wireVars
  <2>4. QED BY <2>2, <2>3, <1>7 DEF WriteFails
<1>8. ASSUME NEW t \in Tasks, Timeout(t) PROVE Types'
  <2>1. UNCHANGED <<serverVars, toServer>> /\ Fail(t)
    BY <1>8 DEF Timeout
  <2>2. \/ UNCHANGED <<doubt, toClient>>
        \/ \E d \in {"timeout", "cut"} : doubt' = doubt \cup {d} /\ toClient' = <<>>
    BY <1>8 DEF Timeout
  <2>3. DoubtType' /\ toClient' \in Seq(Replies)
    BY <2>2, <1>0 DEF DoubtType
  <2>4. QED BY <2>1, <2>3, <1>0, <1>3, SameTypes DEF Types, WireType
<1>9. ASSUME NEW t \in Tasks, CloseBegin(t) \/ CloseTake(t) \/ CloseEnd(t) PROVE Types'
  <2>1. /\ UNCHANGED <<req, result, issued, eofs>>
        /\ UNCHANGED <<localVars, serverVars, wireVars, doubt>>
        /\ stream' = stream \/ stream' = "none"
        /\ connected' = connected \/ connected' = FALSE
    BY <1>9 DEF CloseBegin, CloseTake, CloseEnd
  <2>2. CallerType'
    BY <2>1 DEF Types, CallerType
  <2>3. QED BY <2>1, <2>2, SameTypes DEF Types
<1>10. ASSUME Crash PROVE Types'
  <2>1. ServerType' /\ CallerType'
    BY <1>10, SameTypes DEF Crash, Types, ServerType, clientVars
  <2>2. QED BY <2>1, <1>10, SameTypes DEF Crash, Types
<1>11. ASSUME UNCHANGED vars PROVE Types'
  BY <1>11, SameTypes DEF vars, clientVars, Types
<1>12. QED
  BY <1>1, <1>2, <1>4, <1>5, <1>6, <1>7, <1>8, <1>9, <1>10, <1>11, ReadTypes, ServeTypes
  DEF Next, Poll

-----------------------------------------------------------------------------
(* The parts that hold whatever was left in doubt.                         *)

LEMMA Typed ==
  ASSUME MySqlInv
  PROVE  /\ Types /\ MutexType /\ StreamOwner /\ OwnStatements /\ Locals
         /\ pc \in [Tasks -> Phases] /\ req \in [Tasks -> 0..MaxReq] /\ issued \in Nat /\ MaxReq \in Nat
         /\ toServer \in Seq(Requests) /\ toClient \in Seq(Replies)
         /\ verdict \in [Ids -> {"none", "done", "failed"}] /\ prepared \subseteq Ids
         /\ \A i \in DOMAIN toServer : toServer[i] \in Requests /\ toServer[i].of \in Ids
         /\ \A i \in DOMAIN toClient : toClient[i] \in Replies /\ toClient[i].of \in Ids
         /\ \A r \in Ids : r \in Nat /\ r # 0
         /\ \A t \in Tasks : req[t] \in Nat
<1>1. Types /\ MutexType /\ StreamOwner /\ OwnStatements /\ Locals
  BY TypeParts DEF MySqlInv
<1>2. /\ pc \in [Tasks -> Phases] /\ req \in [Tasks -> 0..MaxReq] /\ issued \in Nat /\ MaxReq \in Nat
      /\ toServer \in Seq(Requests) /\ toClient \in Seq(Replies)
      /\ verdict \in [Ids -> {"none", "done", "failed"}] /\ prepared \subseteq Ids
  BY <1>1, MySqlAssumption DEF MutexType, Types, CallerType, WireType, ServerType
<1>3. ASSUME NEW S, NEW q \in Seq(S) PROVE \A i \in DOMAIN q : q[i] \in S
  OBVIOUS
<1>4. \A i \in DOMAIN toServer : toServer[i] \in Requests
  BY <1>2, <1>3
<1>5. \A i \in DOMAIN toClient : toClient[i] \in Replies
  BY <1>2, <1>3
<1>6. \A r \in Ids : r \in Nat /\ r # 0
  BY <1>2 DEF Ids
<1>7. \A t \in Tasks : req[t] \in Nat
  BY <1>2
<1>8. QED BY <1>1, <1>2, <1>4, <1>5, <1>6, <1>7 DEF Requests, Replies

LEMMA OneUser ==
  ASSUME MySqlInv, NEW t \in Tasks, pc[t] \in OnStream
  PROVE  /\ Holds(t) /\ req[t] \in Ids
         /\ \A u \in Tasks : pc[u] \in OnStream => u = t
<1>1. Holds(t)
  BY Typed DEF StreamOwner
<1>2. \A u \in Tasks : pc[u] \in OnStream => u = t
  BY <1>1, Typed, OneHolder DEF StreamOwner
<1>3. req[t] \in Ids
  BY Typed DEF OwnStatements, OnStream, Calling
<1>4. QED BY <1>1, <1>2, <1>3

LEMMA ReturnFacts ==
  ASSUME MySqlInv, NEW t \in Tasks, NEW res, Return(t, res)
  PROVE  /\ \A u \in Tasks :
              /\ pc'[u] = IF u = t THEN "idle" ELSE pc[u]
              /\ req'[u] = IF u = t THEN 0 ELSE req[u]
         /\ result' = [result EXCEPT ![t] = res]
         /\ UNCHANGED <<issued, stream, connected, eofs>>
         /\ Holds(t) => ClearLocals
         /\ ~Holds(t) => UNCHANGED localVars
BY Typed DEF Return

LEMMA GotoFacts ==
  ASSUME MySqlInv, NEW t \in Tasks, NEW phase, Goto(t, phase)
  PROVE  /\ \A u \in Tasks : pc'[u] = IF u = t THEN phase ELSE pc[u]
         /\ UNCHANGED <<req, result, issued, queue, stream, connected, eofs>>
BY Typed DEF Goto

Basic == OwnStatements /\ UpToIssued /\ CommandsOnce /\ RunsOnce

\* Calls go on or end, packets are read or lost; nothing is written or run.
LEMMA QuietBasic ==
  ASSUME MySqlInv,
         \A u \in Tasks :
           \/ pc'[u] = pc[u] /\ req'[u] = req[u]
           \/ pc'[u] \notin Calling /\ req'[u] = 0
           \/ /\ pc[u] \in Calling /\ pc'[u] \in Calling /\ req'[u] = req[u]
              /\ pc'[u] \in {"waiting", "writing"} => pc[u] \in {"waiting", "writing"}
              /\ pc'[u] \in PrepareReads \cup {"executing"} => pc[u] \in PrepareReads \cup {"executing"},
         UNCHANGED <<issued, verdict, prepared, toServer>>
  PROVE  Basic'
<1>0. OwnStatements /\ UpToIssued /\ CommandsOnce /\ RunsOnce
  BY DEF MySqlInv
<1>1. \A t \in Tasks : pc'[t] \in Calling => req'[t] = req[t] /\ pc[t] \in Calling
  BY <1>0 DEF OwnStatements, Ids
<1>2. OwnStatements'
  <2>1. \A t \in Tasks : req'[t] # 0 => req'[t] = req[t]
    BY <1>0
  <2>2. \A t \in Tasks : pc'[t] \notin Calling => req'[t] = 0
    BY <1>0 DEF OwnStatements
  <2>3. \A t \in Tasks : pc'[t] \in Calling => req'[t] \in Ids
    BY <1>0, <1>1 DEF OwnStatements
  <2>4. QED BY <2>1, <2>2, <2>3, <1>0 DEF OwnStatements, Ids
<1>3. UpToIssued'
  <2>1. \A t \in Tasks : req'[t] <= issued
    BY <1>0, Typed DEF UpToIssued
  <2>2. QED BY <2>1, <1>0 DEF UpToIssued, Ids
<1>4. CommandsOnce'
  BY <1>0 DEF CommandsOnce
<1>5. Preparable' = Preparable
  BY DEF Preparable
<1>6. RunsOnce'
  <2>1. ASSUME NEW t \in Tasks, pc'[t] \in {"waiting", "writing"}
        PROVE  /\ verdict[req'[t]] = "none" /\ req'[t] \notin prepared
               /\ \A i \in DOMAIN toServer : toServer[i].of # req'[t]
    <3>1. pc[t] \in {"waiting", "writing"} /\ req'[t] = req[t]
      BY <2>1, <1>1 DEF Calling, Writing
    <3>2. QED BY <3>1, <1>0 DEF RunsOnce
  <2>2. ASSUME NEW t \in Tasks, pc'[t] \in PrepareReads \cup {"executing"}
        PROVE  /\ req'[t] \in Preparable => verdict[req'[t]] = "none"
               /\ \A i \in DOMAIN toServer : toServer[i].of = req'[t] => toServer[i].k = "PREPARE"
    <3>1. pc[t] \in PrepareReads \cup {"executing"} /\ req'[t] = req[t]
      BY <2>2, <1>1 DEF Calling, Writing, Reading
    <3>2. QED BY <3>1, <1>0 DEF RunsOnce
  <2>3. \A i \in DOMAIN toServer :
          \/ toServer[i].k \in {"QUERY", "PING", "PREPARE"}
          \/ toServer[i].k = "EXECUTE" /\ toServer[i].of \in Preparable
          => verdict[toServer[i].of] = "none"
    BY <1>0 DEF RunsOnce
  <2>4. \A t \in Tasks : pc'[t] \in PrepareReads \cup {"executing"} =>
               /\ req'[t] \in Preparable' => verdict[req'[t]] = "none"
               /\ \A i \in DOMAIN toServer : toServer[i].of = req'[t] => toServer[i].k = "PREPARE"
    BY <2>2, <1>5
  <2>5. \A i \in DOMAIN toServer' :
          \/ toServer'[i].k \in {"QUERY", "PING", "PREPARE"}
          \/ toServer'[i].k = "EXECUTE" /\ toServer'[i].of \in Preparable'
          => verdict'[toServer'[i].of] = "none"
    BY <2>3, <1>5
  <2>6. QED BY <2>1, <2>4, <2>5 DEF RunsOnce
<1>7. QED BY <1>2, <1>3, <1>4, <1>6 DEF Basic

LEMMA ExecuteBasic ==
  ASSUME MySqlInv, NEW t \in Tasks, Execute(t)
  PROVE  Basic'
<1>0. OwnStatements /\ UpToIssued /\ CommandsOnce /\ RunsOnce
  BY DEF MySqlInv
<1>1. /\ pc[t] = "idle" /\ issued < MaxReq /\ issued' = issued + 1
      /\ \A u \in Tasks :
           /\ pc'[u] = IF u = t THEN "waiting" ELSE pc[u]
           /\ req'[u] = IF u = t THEN issued + 1 ELSE req[u]
      /\ UNCHANGED <<verdict, prepared, toServer>>
  BY Typed DEF Execute, serverVars, wireVars
<1>2. issued \in Nat /\ issued + 1 \in Ids /\ issued + 1 > issued /\ ~(issued + 1 <= issued) /\ issued + 1 # 0
  BY Typed, <1>1 DEF Ids
<1>3. OwnStatements'
  <2>1. \A u \in Tasks : req[u] # issued + 1
    BY <1>0, <1>2 DEF UpToIssued
  <2>2. \A u \in Tasks : pc'[u] \in Calling => u = t \/ pc[u] \in Calling
    BY <1>1
  <2>3. "waiting" \in Calling
    BY DEF Calling
  <2>4. QED BY <2>1, <2>2, <2>3, <1>0, <1>1, <1>2 DEF OwnStatements, Ids
<1>4. UpToIssued'
  <2>1. \A u \in Tasks : req'[u] <= issued + 1
    BY <1>0, <1>1, <1>2, Typed DEF UpToIssued
  <2>2. \A i \in DOMAIN toServer : toServer[i].of <= issued + 1
    <3> SUFFICES ASSUME NEW i \in DOMAIN toServer PROVE toServer[i].of <= issued + 1
      OBVIOUS
    <3>1. toServer[i].of \in Nat /\ toServer[i].of <= issued
      BY <1>0, Typed DEF UpToIssued
    <3>2. QED BY <3>1, <1>2
  <2>3. \A r \in Ids : r > issued + 1 => verdict[r] = "none" /\ r \notin prepared
    <3> SUFFICES ASSUME NEW r \in Ids, r > issued + 1 PROVE verdict[r] = "none" /\ r \notin prepared
      OBVIOUS
    <3>1. r > issued
      BY <1>2, Typed
    <3>2. QED BY <3>1, <1>0 DEF UpToIssued
  <2>4. QED BY <2>1, <2>2, <2>3, <1>1 DEF UpToIssued, Ids
<1>5. CommandsOnce'
  BY <1>0, <1>1 DEF CommandsOnce
<1>6. Preparable' = Preparable
  BY <1>1 DEF Preparable
<1>7. RunsOnce'
  <2>1. ASSUME NEW u \in Tasks, pc'[u] \in {"waiting", "writing"}
        PROVE  /\ verdict[req'[u]] = "none" /\ req'[u] \notin prepared
               /\ \A i \in DOMAIN toServer : toServer[i].of # req'[u]
    <3>1. CASE u = t
      BY <3>1, <1>0, <1>1, <1>2 DEF UpToIssued
    <3>2. CASE u # t
      BY <3>2, <2>1, <1>0, <1>1 DEF RunsOnce
    <3>3. QED BY <3>1, <3>2
  <2>2. \A u \in Tasks : pc'[u] \in PrepareReads \cup {"executing"} =>
          /\ req'[u] \in Preparable' => verdict[req'[u]] = "none"
          /\ \A i \in DOMAIN toServer : toServer[i].of = req'[u] => toServer[i].k = "PREPARE"
    <3>1. "waiting" \notin PrepareReads \cup {"executing"}
      BY DEF PrepareReads
    <3>2. QED BY <3>1, <1>0, <1>1, <1>6 DEF RunsOnce
  <2>3. \A i \in DOMAIN toServer' :
          \/ toServer'[i].k \in {"QUERY", "PING", "PREPARE"}
          \/ toServer'[i].k = "EXECUTE" /\ toServer'[i].of \in Preparable'
          => verdict'[toServer'[i].of] = "none"
    BY <1>0, <1>1, <1>6 DEF RunsOnce
  <2>4. QED BY <2>1, <2>2, <2>3, <1>1 DEF RunsOnce
<1>8. QED BY <1>3, <1>4, <1>5, <1>7 DEF Basic

\* Write and Release: one more command of the writer's statement.
LEMMA SendBasic ==
  ASSUME MySqlInv, NEW t \in Tasks, NEW k \in Commands, Sent(t, k),
         UNCHANGED <<issued, verdict, prepared>>,
         \/ k \in {"QUERY", "PREPARE", "PING"} /\ pc[t] = "writing"
         \/ k = "EXECUTE" /\ pc[t] = "executing"
         \/ k = "CLOSE" /\ pc[t] = "releasing",
         \/ k = "PREPARE" /\ pc'[t] = "prepare" /\ req'[t] = req[t]
         \/ k \in {"QUERY", "PING", "EXECUTE"} /\ pc'[t] \in {"first", "pong"} /\ req'[t] = req[t]
         \/ k = "CLOSE" /\ pc'[t] = "idle" /\ req'[t] = 0,
         \A u \in Tasks \ {t} : pc'[u] = pc[u] /\ req'[u] = req[u]
  PROVE  Basic'
<1> DEFINE e == [k |-> k, of |-> req[t]]
           n == Len(toServer) + 1
<1>0. OwnStatements /\ UpToIssued /\ CommandsOnce /\ RunsOnce
  BY DEF MySqlInv
<1>1. req[t] \in Ids /\ req[t] # 0 /\ e.k = k /\ e.of = req[t] /\ e \in Requests
  <2>1. pc[t] \in Calling
    BY DEF Calling, Writing
  <2>2. req[t] \in Ids
    BY <2>1, <1>0 DEF OwnStatements
  <2>3. QED BY <2>2, Typed DEF Requests
<1>2. toServer' = Append(toServer, e)
  BY DEF Sent
<1> HIDE DEF e
<1>3. /\ \A i \in DOMAIN toServer : toServer'[i] = toServer[i] /\ i \in DOMAIN toServer' /\ i # n
      /\ toServer'[n] = e /\ n \in DOMAIN toServer'
      /\ \A i \in DOMAIN toServer' : i \in DOMAIN toServer \/ i = n
  BY <1>1, <1>2, Typed, WriteEnd
<1> HIDE DEF n
<1>4. OwnStatements'
  <2>1. \A u \in Tasks : pc'[u] \in Calling => req'[u] \in Ids
    <3>1. pc'[t] \in Calling => req'[t] \in Ids
      BY <1>1 DEF Calling, Reading, Writing, PrepareReads, ResultReads
    <3>2. QED BY <3>1, <1>0 DEF OwnStatements
  <2>2. \A u \in Tasks : pc'[u] \notin Calling => req'[u] = 0
    <3>1. pc'[t] \notin Calling => req'[t] = 0
      BY DEF Calling, Reading, Writing, PrepareReads, ResultReads
    <3>2. QED BY <3>1, <1>0 DEF OwnStatements
  <2>3. \A u \in Tasks : req'[u] # 0 => req'[u] = req[u]
    OBVIOUS
  <2>4. QED BY <2>1, <2>2, <2>3, <1>0 DEF OwnStatements, Ids
<1>5. UpToIssued'
  <2>1. \A u \in Tasks : req'[u] <= issued
    <3>1. 0 <= issued
      BY Typed
    <3>2. QED BY <3>1, <1>0 DEF UpToIssued
  <2>2. \A i \in DOMAIN toServer' : toServer'[i].of <= issued
    BY <1>0, <1>1, <1>3 DEF UpToIssued
  <2>3. QED BY <2>1, <2>2, <1>0 DEF UpToIssued, Ids
<1>6. /\ k \in {"QUERY", "PREPARE", "PING"} =>
            /\ verdict[req[t]] = "none" /\ req[t] \notin prepared
            /\ \A i \in DOMAIN toServer : toServer[i].of # req[t]
      /\ k = "EXECUTE" =>
            /\ req[t] \in Preparable => verdict[req[t]] = "none"
            /\ \A i \in DOMAIN toServer : toServer[i].of = req[t] => toServer[i].k = "PREPARE"
  BY <1>0 DEF RunsOnce
<1>7. CommandsOnce'
  <2>1. ASSUME NEW i \in DOMAIN toServer', NEW j \in DOMAIN toServer', toServer'[i].of = toServer'[j].of,
               \/ toServer'[i].k # "CLOSE" /\ toServer'[i].k = toServer'[j].k
               \/ toServer'[i].k \in {"QUERY", "PING"} /\ toServer'[j].k # "CLOSE"
        PROVE  i = j
    <3>1. CASE i \in DOMAIN toServer /\ j \in DOMAIN toServer
      BY <2>1, <3>1, <1>0, <1>3 DEF CommandsOnce
    <3>2. CASE i \in DOMAIN toServer /\ j = n
      BY <2>1, <3>2, <1>1, <1>3, <1>6 DEF Commands
    <3>3. CASE i = n /\ j \in DOMAIN toServer
      BY <2>1, <3>3, <1>1, <1>3, <1>6 DEF Commands
    <3>4. QED BY <3>1, <3>2, <3>3, <1>3
  <2>2. \A i \in DOMAIN toServer' : toServer'[i].k = "PREPARE" => toServer'[i].of \notin prepared
    BY <1>0, <1>1, <1>3, <1>6 DEF CommandsOnce
  <2>3. QED BY <2>1, <2>2 DEF CommandsOnce
<1>8. Preparable' = Preparable \cup (IF k = "PREPARE" THEN {req[t]} ELSE {})
  <2>1. \A r : r \in Preparable' <=> r \in prepared \/ \E i \in DOMAIN toServer' : toServer'[i].k = "PREPARE" /\ toServer'[i].of = r
    BY DEF Preparable
  <2>2. \A r : r \in Preparable <=> r \in prepared \/ \E i \in DOMAIN toServer : toServer[i].k = "PREPARE" /\ toServer[i].of = r
    BY DEF Preparable
  <2>3. ASSUME NEW r PROVE r \in Preparable' <=> r \in Preparable \/ (k = "PREPARE" /\ r = req[t])
    BY <2>1, <2>2, <1>1, <1>3
  <2>4. QED BY <2>3
<1>9. RunsOnce'
  <2>1. ASSUME NEW i \in DOMAIN toServer',
               \/ toServer'[i].k \in {"QUERY", "PING", "PREPARE"}
               \/ toServer'[i].k = "EXECUTE" /\ toServer'[i].of \in Preparable'
        PROVE  verdict[toServer'[i].of] = "none"
    <3>1. CASE i \in DOMAIN toServer
      <4>1. toServer[i].of \in Preparable' => toServer[i].of \in Preparable \/ (k = "PREPARE" /\ toServer[i].of = req[t])
        BY <1>8
      <4>2. ~(k = "PREPARE" /\ toServer[i].of = req[t])
        BY <3>1, <1>6
      <4>3. QED BY <2>1, <3>1, <4>1, <4>2, <1>0, <1>3 DEF RunsOnce
    <3>2. CASE i = n
      BY <2>1, <3>2, <1>1, <1>3, <1>6, <1>8
    <3>3. QED BY <3>1, <3>2, <1>3
  <2>2. \A u \in Tasks \ {t} : req[u] # req[t]
    BY <1>0, <1>1 DEF OwnStatements
  <2>3. ASSUME NEW u \in Tasks, pc'[u] \in {"waiting", "writing"}
        PROVE  /\ verdict[req'[u]] = "none" /\ req'[u] \notin prepared
               /\ \A i \in DOMAIN toServer' : toServer'[i].of # req'[u]
    <3>1. u # t
      BY <2>3
    <3>2. QED BY <3>1, <2>2, <2>3, <1>0, <1>1, <1>3 DEF RunsOnce
  <2>4. ASSUME NEW u \in Tasks, pc'[u] \in PrepareReads \cup {"executing"}
        PROVE  /\ req'[u] \in Preparable' => verdict[req'[u]] = "none"
               /\ \A i \in DOMAIN toServer' : toServer'[i].of = req'[u] => toServer'[i].k = "PREPARE"
    <3>1. CASE u = t
      <4>1. k = "PREPARE" /\ req'[t] = req[t]
        BY <3>1, <2>4 DEF PrepareReads
      <4>2. QED BY <4>1, <3>1, <1>1, <1>3, <1>6
    <3>2. CASE u # t
      <4>1. pc'[u] = pc[u] /\ req'[u] = req[u] /\ req[u] # req[t]
        BY <3>2, <2>2
      <4>2. req[u] \in Preparable' => req[u] \in Preparable
        BY <4>1, <1>8
      <4>3. QED BY <4>1, <4>2, <2>4, <1>0, <1>1, <1>3 DEF RunsOnce
    <3>3. QED BY <3>1, <3>2
  <2>5. QED BY <2>1, <2>3, <2>4 DEF RunsOnce
<1>10. QED BY <1>4, <1>5, <1>7, <1>9 DEF Basic

LEMMA ServeBasic ==
  ASSUME MySqlInv, Serve
  PROVE  Basic'
<1> DEFINE m == toServer[1]
<1>0. OwnStatements /\ UpToIssued /\ CommandsOnce /\ RunsOnce
  BY DEF MySqlInv
<1>1. PICK ms : Responds(m, ms)
  BY Typed, ServeFacts
<1>2. /\ UNCHANGED <<pc, req, issued>> /\ toServer # <<>> /\ toServer' = Tail(toServer) /\ m.of \in Ids
      /\ Ran(m, ms) \/ Readied(m, ms) \/ Unknown(m, ms) \/ Closed(m, ms)
  BY <1>1 DEF Responds, clientVars
<1>3. /\ 1 \in DOMAIN toServer /\ toServer[1] = m
      /\ \A i \in DOMAIN toServer' :
           toServer'[i] = toServer[i + 1] /\ i + 1 \in DOMAIN toServer /\ i + 1 # 1 /\ i \in Nat
  BY <1>2, Typed, ReadFront
<1>4. m \in Requests /\ m.of <= issued
  BY <1>0, <1>3, Typed DEF UpToIssued
<1> HIDE DEF m
<1>5. OwnStatements'
  BY <1>0, <1>2 DEF OwnStatements, Ids
\* A verdict is given once; a statement is prepared when its Prepare is served.
<1>6. /\ \A r \in Ids \ {m.of} : verdict'[r] = verdict[r] /\ (r \in prepared' <=> r \in prepared)
      /\ verdict'[m.of] # verdict[m.of] =>
            \/ m.k \in {"QUERY", "PING"}
            \/ m.k = "EXECUTE" /\ m.of \in prepared
            \/ m.k = "PREPARE" /\ prepared' = prepared
      /\ m.of \in prepared' /\ m.of \notin prepared => m.k = "PREPARE"
  BY <1>2, Typed DEF Ran, Readied, Unknown, Closed
<1>7. UpToIssued'
  <2>1. \A i \in DOMAIN toServer' : toServer'[i].of <= issued
    BY <1>0, <1>3 DEF UpToIssued
  <2>2. ASSUME NEW r \in Ids, r > issued PROVE verdict'[r] = "none" /\ r \notin prepared'
    <3>1. r # m.of
      BY <2>2, <1>4, <1>2, Typed
    <3>2. QED BY <3>1, <2>2, <1>0, <1>6 DEF UpToIssued
  <2>3. QED BY <2>1, <2>2, <1>0, <1>2 DEF UpToIssued, Ids
<1>8. CommandsOnce'
  <2>1. ASSUME NEW i \in DOMAIN toServer', NEW j \in DOMAIN toServer', toServer'[i].of = toServer'[j].of,
               \/ toServer'[i].k # "CLOSE" /\ toServer'[i].k = toServer'[j].k
               \/ toServer'[i].k \in {"QUERY", "PING"} /\ toServer'[j].k # "CLOSE"
        PROVE  i = j
    <3>1. i + 1 = j + 1
      BY <2>1, <1>0, <1>3 DEF CommandsOnce
    <3>2. QED BY <3>1, <1>3
  <2>2. ASSUME NEW i \in DOMAIN toServer', toServer'[i].k = "PREPARE" PROVE toServer'[i].of \notin prepared'
    <3>1. toServer[i + 1].of \notin prepared /\ toServer[i + 1].of \in Ids
      BY <2>2, <1>0, <1>3, Typed DEF CommandsOnce
    <3>2. CASE toServer[i + 1].of # m.of
      BY <3>1, <3>2, <1>3, <1>6
    <3>3. CASE toServer[i + 1].of = m.of
      <4>1. m.k # "PREPARE"
        BY <2>2, <3>3, <1>0, <1>3 DEF CommandsOnce
      <4>2. QED BY <4>1, <3>1, <3>3, <1>3, <1>6
    <3>4. QED BY <3>2, <3>3
  <2>3. QED BY <2>1, <2>2 DEF CommandsOnce
\* What comes after m about the same statement does not run it again.
<1>9. ASSUME NEW i \in DOMAIN toServer', toServer'[i].of = m.of, verdict'[m.of] # verdict[m.of]
      PROVE  /\ toServer'[i].k \in {"EXECUTE", "CLOSE"}
             /\ toServer'[i].k = "EXECUTE" => m.k = "PREPARE"
  <2>1. toServer'[i] = toServer[i + 1] /\ i + 1 \in DOMAIN toServer /\ i + 1 # 1 /\ toServer[i + 1] \in Requests
    BY <1>3, Typed
  <2>2. toServer'[i].k \in Commands
    BY <2>1 DEF Requests
  <2>3. m.k \in {"QUERY", "PING"} => toServer'[i].k = "CLOSE"
    BY <2>1, <1>0, <1>3, <1>9 DEF CommandsOnce
  <2>4. m.k # "CLOSE" => toServer'[i].k # m.k
    BY <2>1, <1>0, <1>3, <1>9 DEF CommandsOnce
  <2>5. toServer'[i].k \notin {"QUERY", "PING"}
    <3>1. toServer'[i].k \in {"QUERY", "PING"} => m.k = "CLOSE"
      BY <2>1, <1>0, <1>3, <1>9 DEF CommandsOnce
    <3>2. QED BY <3>1, <1>6, <1>9
  <2>6. m.of \in prepared => toServer'[i].k # "PREPARE"
    BY <2>1, <1>0, <1>9 DEF CommandsOnce
  <2>7. QED BY <2>2, <2>3, <2>4, <2>5, <2>6, <1>6, <1>9 DEF Commands
<1>10. \A r : r \in Preparable <=>
          r \in prepared \/ \E i \in DOMAIN toServer : toServer[i].k = "PREPARE" /\ toServer[i].of = r
  BY DEF Preparable
<1>11. \A r : r \in Preparable' <=>
          r \in prepared' \/ \E i \in DOMAIN toServer' : toServer'[i].k = "PREPARE" /\ toServer'[i].of = r
  BY DEF Preparable
<1>12. ASSUME NEW r \in Ids, r \in Preparable' PROVE r \in Preparable
  <2>1. CASE r \in prepared'
    BY <2>1, <1>3, <1>6, <1>10
  <2>2. CASE \E i \in DOMAIN toServer' : toServer'[i].k = "PREPARE" /\ toServer'[i].of = r
    BY <2>2, <1>3, <1>10
  <2>3. QED BY <2>1, <2>2, <1>11, <1>12
<1>13. ASSUME verdict'[m.of] # verdict[m.of], m.k = "PREPARE" PROVE m.of \notin Preparable'
  <2>1. m.of \notin prepared'
    BY <1>0, <1>3, <1>6, <1>13 DEF CommandsOnce
  <2>2. \A i \in DOMAIN toServer' : ~(toServer'[i].k = "PREPARE" /\ toServer'[i].of = m.of)
    BY <1>9, <1>13
  <2>3. QED BY <2>1, <2>2, <1>11
<1>14. RunsOnce'
  <2>1. ASSUME NEW i \in DOMAIN toServer',
               \/ toServer'[i].k \in {"QUERY", "PING", "PREPARE"}
               \/ toServer'[i].k = "EXECUTE" /\ toServer'[i].of \in Preparable'
        PROVE  verdict'[toServer'[i].of] = "none"
    <3>1. toServer'[i] = toServer[i + 1] /\ i + 1 \in DOMAIN toServer /\ toServer'[i].of \in Ids
      BY <1>3, Typed
    <3>2. verdict[toServer'[i].of] = "none"
      BY <2>1, <3>1, <1>0, <1>12 DEF RunsOnce
    <3>3. CASE toServer'[i].of # m.of
      BY <3>1, <3>2, <3>3, <1>6
    <3>4. CASE toServer'[i].of = m.of
      BY <2>1, <3>2, <3>4, <1>9, <1>13
    <3>5. QED BY <3>3, <3>4
  <2>2. ASSUME NEW u \in Tasks, pc[u] \in {"waiting", "writing"}
        PROVE  /\ verdict'[req[u]] = "none" /\ req[u] \notin prepared'
               /\ \A i \in DOMAIN toServer' : toServer'[i].of # req[u]
    <3>1. /\ verdict[req[u]] = "none" /\ req[u] \notin prepared
          /\ \A i \in DOMAIN toServer : toServer[i].of # req[u]
      BY <2>2, <1>0 DEF RunsOnce
    <3>2. req[u] # m.of /\ req[u] \in Ids
      BY <2>2, <3>1, <1>0, <1>3 DEF OwnStatements, Calling, Writing
    <3>3. QED BY <3>1, <3>2, <1>3, <1>6
  <2>3. ASSUME NEW u \in Tasks, pc[u] \in PrepareReads \cup {"executing"}
        PROVE  /\ req[u] \in Preparable' => verdict'[req[u]] = "none"
               /\ \A i \in DOMAIN toServer' : toServer'[i].of = req[u] => toServer'[i].k = "PREPARE"
    <3>1. /\ req[u] \in Preparable => verdict[req[u]] = "none"
          /\ \A i \in DOMAIN toServer : toServer[i].of = req[u] => toServer[i].k = "PREPARE"
      BY <2>3, <1>0 DEF RunsOnce
    <3>2. req[u] \in Ids
      BY <2>3, <1>0 DEF OwnStatements, Calling, Reading, Writing
    <3>3. req[u] \in Preparable' => verdict'[req[u]] = "none"
      <4>1. CASE req[u] # m.of
        BY <4>1, <3>1, <3>2, <1>6, <1>12
      <4>2. CASE req[u] = m.of
        <5>1. m.k = "PREPARE"
          BY <4>2, <3>1, <1>3
        <5>2. QED BY <5>1, <4>2, <3>1, <3>2, <1>12, <1>13
      <4>3. QED BY <4>1, <4>2
    <3>4. QED BY <3>1, <3>3, <1>3
  <2>4. QED BY <2>1, <2>2, <2>3, <1>2 DEF RunsOnce
<1>15. QED BY <1>5, <1>7, <1>8, <1>14 DEF Basic

\* How a read goes on, and what it does to the locals.
LEMMA ReadMoves ==
  ASSUME MySqlInv, NEW t \in Tasks, Read(t)
  PROVE  \/ Fail(t)
         \/ \E res : Finish(t, res) /\ (res.st = "ok" \/ res \in {ErrResult, Spoilt})
         \/ pc[t] \in PrepareReads /\ Goto(t, "executing") /\ stmt' = TRUE
         \/ /\ Goto(t, "p_defs") \/ Goto(t, "p_eof")
            /\ pc[t] \in PrepareReads /\ groups' # 0 /\ stmt' = stmt
         \/ pc[t] \in ResultReads /\ \E phase \in ResultReads : Goto(t, phase)
<1>0. pc[t] \in {"p_defs", "p_eof"} => groups # 0
  BY Typed DEF Locals
<1>1. \A phase \in {"first", "cols", "c_eof", "rows", "pong"} : phase \in ResultReads
  BY DEF ResultReads
<1>2. \A phase \in {"prepare", "p_defs", "p_eof"} : phase \in PrepareReads
  BY DEF PrepareReads
<1>3. ASSUME NEW left, NextGroup(t, left)
      PROVE  \/ Goto(t, "executing") /\ stmt' = TRUE
             \/ Goto(t, "p_defs") /\ groups' # 0 /\ stmt' = stmt
  BY <1>3 DEF NextGroup
<1>4. ASSUME NEW m, ReadPrepare(t, m)
      PROVE  pc[t] \in PrepareReads /\ (\/ Fail(t)
                                        \/ Goto(t, "executing") /\ stmt' = TRUE
                                        \/ Goto(t, "p_defs") /\ groups' # 0 /\ stmt' = stmt
                                        \/ Goto(t, "p_eof") /\ groups' # 0 /\ stmt' = stmt)
  BY <1>4, <1>0, <1>2, <1>3 DEF ReadPrepare
<1>5. ASSUME NEW m, ReadResult(t, m)
      PROVE  \/ \E res : Finish(t, res) /\ (res.st = "ok" \/ res \in {ErrResult, Spoilt})
             \/ pc[t] \in ResultReads /\ \E phase \in ResultReads : Goto(t, phase)
  <2> DEFINE done == [st |-> "ok", from |-> acc \cup {m.of}]
  <2>1. done.st = "ok"
    OBVIOUS
  <2>2. \/ Finish(t, done) \/ Finish(t, ErrResult)
        \/ pc[t] \in ResultReads /\ \E phase \in ResultReads : Goto(t, phase)
    BY <1>5, <1>1 DEF ReadResult
  <2> HIDE DEF done
  <2>3. QED BY <2>1, <2>2
<1>6. ASSUME NEW m, ReadUndecodable(t, m)
      PROVE  Fail(t) \/ Finish(t, Spoilt)
  BY <1>6 DEF ReadUndecodable
<1>7. ASSUME ReadLost(t) \/ ReadEof(t)
      PROVE  \/ Fail(t) \/ Finish(t, ErrResult)
             \/ \E res : Finish(t, res) /\ res.st = "ok"
             \/ pc[t] \in PrepareReads /\ Goto(t, "executing") /\ stmt' = TRUE
  BY <1>7 DEF ReadLost, ReadEof
<1>8. QED BY <1>4, <1>5, <1>6, <1>7 DEF Read, ReadAligned

LEMMA FinishFacts ==
  ASSUME MySqlInv, NEW t \in Tasks, NEW res, Finish(t, res)
  PROVE  Return(t, res) \/ (stmt /\ Goto(t, "releasing") /\ stmt' = stmt /\ kept' = res)
BY DEF Finish

LEMMA BasicStep ==
  ASSUME MySqlInv, [Next]_vars
  PROVE  Basic'
<1>1. ASSUME NEW t \in Tasks, NEW res, Return(t, res), UNCHANGED <<verdict, prepared, toServer>>
      PROVE  Basic'
  <2>1. \A u \in Tasks : \/ pc'[u] = pc[u] /\ req'[u] = req[u]
                         \/ pc'[u] \notin Calling /\ req'[u] = 0
    BY <1>1, ReturnFacts DEF Calling, Reading, Writing, PrepareReads, ResultReads
  <2>2. issued' = issued
    BY <1>1 DEF Return
  <2>3. QED BY <2>1, <2>2, <1>1, QuietBasic
<1>2. ASSUME NEW t \in Tasks, NEW phase, Goto(t, phase), pc[t] \in Calling, phase \in Calling,
             phase \in {"waiting", "writing"} => pc[t] \in {"waiting", "writing"},
             phase \in PrepareReads \cup {"executing"} => pc[t] \in PrepareReads \cup {"executing"},
             UNCHANGED <<verdict, prepared, toServer>>
      PROVE  Basic'
  <2>1. /\ \A u \in Tasks : pc'[u] = IF u = t THEN phase ELSE pc[u]
        /\ req' = req /\ issued' = issued
    BY <1>2, GotoFacts
  <2>2. \A u \in Tasks :
           \/ pc'[u] = pc[u] /\ req'[u] = req[u]
           \/ /\ pc[u] \in Calling /\ pc'[u] \in Calling /\ req'[u] = req[u]
              /\ pc'[u] \in {"waiting", "writing"} => pc[u] \in {"waiting", "writing"}
              /\ pc'[u] \in PrepareReads \cup {"executing"} => pc[u] \in PrepareReads \cup {"executing"}
    BY <2>1, <1>2
  <2>3. QED BY <2>1, <2>2, <1>2, QuietBasic
<1>3. ASSUME NEW t \in Tasks, NEW res, Finish(t, res), pc[t] \in Calling,
             UNCHANGED <<verdict, prepared, toServer>>
      PROVE  Basic'
  <2>1. /\ "releasing" \in Calling /\ "releasing" \notin {"waiting", "writing"}
        /\ "releasing" \notin PrepareReads \cup {"executing"}
    BY DEF Calling, Writing, PrepareReads
  <2>2. QED BY <2>1, <1>1, <1>2, <1>3, FinishFacts
<1>4. ASSUME UNCHANGED <<pc, req, issued, verdict, prepared, toServer>> PROVE Basic'
  BY <1>4, QuietBasic
<1>5. ASSUME NEW t \in Tasks, Acquire(t) PROVE Basic'
  <2>1. Fail(t) \/ Goto(t, "writing")
    BY <1>5 DEF Acquire
  <2>2. /\ UNCHANGED <<verdict, prepared, toServer>> /\ pc[t] \in Calling /\ "writing" \in Calling
        /\ pc[t] = "waiting" /\ "writing" \notin PrepareReads \cup {"executing"}
    BY <1>5 DEF Acquire, serverVars, wireVars, Calling, Writing, PrepareReads
  <2>3. QED BY <2>1, <2>2, <1>1, <1>2 DEF Fail
<1>6. ASSUME NEW t \in Tasks, Read(t) PROVE Basic'
  <2>1. UNCHANGED <<verdict, prepared, toServer>> /\ pc[t] \in Calling
    BY <1>6 DEF Read, serverVars, Calling
  <2>2. /\ PrepareReads \subseteq Calling /\ ResultReads \subseteq Calling /\ "executing" \in Calling
        /\ ResultReads \cap (PrepareReads \cup {"executing", "waiting", "writing"}) = {}
        /\ PrepareReads \cap {"waiting", "writing"} = {}
        /\ "p_defs" \in PrepareReads /\ "p_eof" \in PrepareReads
    BY DEF Calling, Reading, Writing, PrepareReads, ResultReads
  <2>3. \/ \E res : Return(t, res) \/ Finish(t, res)
        \/ pc[t] \in PrepareReads /\ \E phase \in PrepareReads \cup {"executing"} : Goto(t, phase)
        \/ pc[t] \in ResultReads /\ \E phase \in ResultReads : Goto(t, phase)
    BY <1>6, <2>2, ReadMoves DEF Fail
  <2>4. CASE pc[t] \in PrepareReads /\ \E phase \in PrepareReads \cup {"executing"} : Goto(t, phase)
    BY <2>1, <2>2, <2>4, <1>2
  <2>5. CASE pc[t] \in ResultReads /\ \E phase \in ResultReads : Goto(t, phase)
    BY <2>1, <2>2, <2>5, <1>2
  <2>6. QED BY <2>1, <2>3, <2>4, <2>5, <1>1, <1>3
<1>7. ASSUME NEW t \in Tasks, WriteFails(t) \/ Timeout(t) PROVE Basic'
  <2>1. UNCHANGED <<verdict, prepared, toServer>>
    BY <1>7 DEF WriteFails, Timeout, serverVars
  <2>2. \/ \E res : Return(t, res)
        \/ pc[t] = "executing" /\ \E res : Finish(t, res)
    BY <1>7 DEF WriteFails, Timeout, Fail, Released
  <2>3. "executing" \in Calling
    BY DEF Calling, Writing
  <2>4. QED BY <2>1, <2>2, <2>3, <1>1, <1>3
<1>8. ASSUME NEW t \in Tasks, Write(t) PROVE Basic'
  <2>1. PICK k \in Commands : /\ Sent(t, k)
                              /\ \/ k = "PREPARE" /\ pc[t] = "writing" /\ Goto(t, "prepare")
                                 \/ k \in {"QUERY", "PING"} /\ pc[t] = "writing" /\ Goto(t, "first")
                                 \/ k \in {"QUERY", "PING"} /\ pc[t] = "writing" /\ Goto(t, "pong")
                                 \/ k = "EXECUTE" /\ pc[t] = "executing" /\ Goto(t, "first")
    BY <1>8 DEF Write, Commands
  <2>2. UNCHANGED <<verdict, prepared>>
    BY <1>8 DEF Write, serverVars
  <2>3. PICK phase \in {"prepare", "first", "pong"} :
          /\ Goto(t, phase)
          /\ \/ k = "PREPARE" /\ pc[t] = "writing" /\ phase = "prepare"
             \/ k \in {"QUERY", "PING"} /\ pc[t] = "writing" /\ phase \in {"first", "pong"}
             \/ k = "EXECUTE" /\ pc[t] = "executing" /\ phase \in {"first", "pong"}
    BY <2>1
  <2>4. /\ \A u \in Tasks : pc'[u] = IF u = t THEN phase ELSE pc[u]
        /\ req' = req /\ issued' = issued
    BY <2>3, GotoFacts
  <2>5. QED BY <2>1, <2>2, <2>3, <2>4, SendBasic
<1>9. ASSUME NEW t \in Tasks, Release(t) PROVE Basic'
  <2>1. Sent(t, "CLOSE") /\ pc[t] = "releasing" /\ UNCHANGED <<verdict, prepared>>
    BY <1>9 DEF Release, serverVars
  <2>2. PICK res : Return(t, res)
    BY <1>9 DEF Release, Released
  <2>3. /\ \A u \in Tasks : /\ pc'[u] = IF u = t THEN "idle" ELSE pc[u]
                            /\ req'[u] = IF u = t THEN 0 ELSE req[u]
        /\ issued' = issued
    BY <2>2, ReturnFacts
  <2>4. "CLOSE" \in Commands
    BY DEF Commands
  <2>5. QED BY <2>1, <2>3, <2>4, SendBasic
<1>10. ASSUME NEW t \in Tasks, CloseBegin(t) \/ CloseTake(t) \/ CloseEnd(t) PROVE Basic'
  <2>1. /\ UNCHANGED <<req, issued, verdict, prepared, toServer>>
        /\ \A u \in Tasks : \/ pc'[u] = pc[u]
                            \/ pc[u] \in {"idle", "closing", "shutting"} /\ pc'[u] \in {"idle", "closing", "shutting"}
    BY <1>10, Typed DEF CloseBegin, CloseTake, CloseEnd, serverVars, wireVars
  <2>2. \A s \in {"idle", "closing", "shutting"} : s \notin Calling
    BY DEF Calling, Reading, Writing, PrepareReads, ResultReads
  <2>3. \A u \in Tasks : \/ pc'[u] = pc[u] /\ req'[u] = req[u]
                         \/ pc'[u] \notin Calling /\ req'[u] = 0
    BY <2>1, <2>2, Typed DEF OwnStatements
  <2>4. QED BY <2>1, <2>3, QuietBasic
<1>11. ASSUME (\E t \in Tasks : PingClosed(t)) \/ Crash \/ UNCHANGED vars PROVE Basic'
  <2>1. UNCHANGED <<pc, req, issued, verdict, prepared, toServer>>
    BY <1>11 DEF PingClosed, Crash, vars, clientVars, serverVars, wireVars
  <2>2. QED BY <2>1, <1>4
<1>12. QED
  BY <1>5, <1>6, <1>7, <1>8, <1>9, <1>10, <1>11, ExecuteBasic, ServeBasic DEF Next, Poll

-----------------------------------------------------------------------------
(* The locals.                                                             *)

\* Whoever leaves the stream leaves no locals behind.
LEMMA LocalsReturn ==
  ASSUME MySqlInv, NEW t \in Tasks, NEW res, Return(t, res), pc[t] \in OnStream \cup {"waiting"}
  PROVE  Locals'
<1>1. /\ \A u \in Tasks : pc'[u] = IF u = t THEN "idle" ELSE pc[u]
      /\ Holds(t) => ClearLocals
      /\ ~Holds(t) => UNCHANGED localVars
  BY ReturnFacts
<1>2. "idle" \notin OnStream /\ "waiting" \notin OnStream /\ Using \subseteq OnStream
  BY DEF Using, OnStream, Reading, Writing, PrepareReads, ResultReads
<1>3. CASE Holds(t)
  <2>1. \A u \in Tasks : pc'[u] \notin OnStream
    <3>1. \A u \in Tasks : pc[u] \in OnStream => u = t
      BY <1>3, Typed, OneHolder DEF StreamOwner
    <3>2. QED BY <3>1, <1>1, <1>2
  <2>2. groups' = 0 /\ stmt' = FALSE /\ kept' = NoResult /\ acc' = {}
    BY <1>1, <1>3 DEF ClearLocals
  <2>3. QED BY <2>1, <2>2 DEF Locals, NoResult, OnStream, Reading, Writing, PrepareReads
<1>4. CASE ~Holds(t)
  <2>1. pc[t] \notin OnStream
    BY <1>4, Typed DEF StreamOwner
  <2>2. (\A u \in Tasks : pc'[u] \notin Using) => \A u \in Tasks : pc[u] \notin Using
    BY <2>1, <1>1, <1>2
  <2>3. \A u \in Tasks : pc'[u] \in OnStream => pc'[u] = pc[u]
    BY <1>1, <1>2
  <2>4. UNCHANGED <<groups, stmt, kept, acc>>
    BY <1>1, <1>4 DEF localVars
  <2>5. \A s \in PrepareReads \cup {"p_defs", "p_eof", "executing", "releasing"} : s \in OnStream
    BY DEF OnStream, Reading, Writing, PrepareReads
  <2>6. QED BY <2>2, <2>3, <2>4, <2>5, Typed DEF Locals, NoResult
<1>5. QED BY <1>3, <1>4

\* The task on the stream goes on.
LEMMA LocalsGoto ==
  ASSUME MySqlInv, NEW t \in Tasks, NEW phase \in Using, Goto(t, phase), pc[t] \in OnStream,
         phase \in PrepareReads => ~stmt',
         phase \in {"p_defs", "p_eof"} => groups' # 0,
         phase \in {"executing", "releasing"} => stmt',
         phase = "releasing" => kept'.st = "ok" \/ kept' \in {ErrResult, Spoilt}
  PROVE  Locals'
<1>1. \A u \in Tasks : pc'[u] = IF u = t THEN phase ELSE pc[u]
  BY GotoFacts
<1>2. \A u \in Tasks : pc[u] \in OnStream => u = t
  BY OneUser
<1>3. \A s \in PrepareReads \cup {"p_defs", "p_eof", "executing", "releasing"} : s \in OnStream
  BY DEF OnStream, Reading, Writing, PrepareReads
<1>4. \A u \in Tasks : pc'[u] \in OnStream => u = t /\ pc'[u] = phase
  BY <1>1, <1>2
<1>5. ~\A u \in Tasks : pc'[u] \notin Using
  BY <1>1
<1>6. /\ \A u \in Tasks : pc'[u] \in PrepareReads => ~stmt'
      /\ \A u \in Tasks : pc'[u] \in {"p_defs", "p_eof"} => groups' # 0
      /\ \A u \in Tasks : pc'[u] \in {"executing", "releasing"} => stmt'
      /\ \A u \in Tasks : pc'[u] = "releasing" => kept'.st = "ok" \/ kept' \in {ErrResult, Spoilt}
  BY <1>3, <1>4
<1>7. ErrResult' = ErrResult /\ Spoilt' = Spoilt
  BY DEF ErrResult, Spoilt
<1>8. QED BY <1>5, <1>6, <1>7 DEF Locals

LEMMA LocalsSame ==
  ASSUME MySqlInv, UNCHANGED <<groups, stmt, kept, acc>>,
         \A u \in Tasks : pc'[u] = pc[u] \/ (pc[u] \notin Using /\ pc'[u] \notin Using)
  PROVE  Locals'
<1>1. \A s \in PrepareReads \cup {"p_defs", "p_eof", "executing", "releasing"} : s \in Using
  BY DEF Using, OnStream, Reading, Writing, PrepareReads
<1>2. (\A u \in Tasks : pc'[u] \notin Using) => \A u \in Tasks : pc[u] \notin Using
  OBVIOUS
<1>3. \A u \in Tasks : pc'[u] \in Using => pc'[u] = pc[u]
  OBVIOUS
<1>4. QED BY <1>1, <1>2, <1>3, Typed DEF Locals, NoResult, ErrResult, Spoilt

LEMMA LocalsStep ==
  ASSUME MySqlInv, [Next]_vars
  PROVE  Locals'
<1>0. /\ Using \subseteq OnStream /\ PrepareReads \subseteq Using /\ ResultReads \subseteq Using
      /\ "executing" \in Using /\ "releasing" \in Using /\ "writing" \in OnStream /\ "writing" \notin Using
      /\ \A s \in {"prepare", "p_defs", "p_eof"} : s \in PrepareReads
      /\ \A s \in {"first", "pong"} : s \in ResultReads
      /\ ResultReads \cap (PrepareReads \cup {"executing", "releasing"}) = {}
      /\ "executing" \notin PrepareReads /\ "releasing" \notin PrepareReads
      /\ \A s \in {"idle", "waiting", "closing", "shutting"} : s \notin Using
  BY DEF Using, OnStream, Reading, Writing, PrepareReads, ResultReads
<1>1. ASSUME NEW t \in Tasks, NEW res, Finish(t, res), pc[t] \in OnStream,
             res.st = "ok" \/ res \in {ErrResult, Spoilt}
      PROVE  Locals'
  <2>1. CASE Return(t, res)
    BY <1>1, <2>1, LocalsReturn
  <2>2. CASE stmt /\ Goto(t, "releasing") /\ stmt' = stmt /\ kept' = res
    BY <1>0, <1>1, <2>2, LocalsGoto
  <2>3. QED BY <1>1, <2>1, <2>2, FinishFacts
<1>2. ASSUME NEW t \in Tasks, Acquire(t) PROVE Locals'
  <2>1. pc[t] = "waiting"
    BY <1>2 DEF Acquire
  <2>2. CASE Fail(t)
    BY <2>1, <2>2, LocalsReturn DEF Fail
  <2>3. CASE Goto(t, "writing") /\ UNCHANGED localVars
    <3>1. \A u \in Tasks : pc'[u] = pc[u] \/ (pc[u] \notin Using /\ pc'[u] \notin Using)
      BY <2>1, <2>3, <1>0, GotoFacts
    <3>2. QED BY <3>1, <2>3, LocalsSame DEF localVars
  <2>4. QED BY <2>2, <2>3, <1>2 DEF Acquire
<1>3. ASSUME NEW t \in Tasks, Write(t) PROVE Locals'
  <2>1. UNCHANGED <<groups, stmt, kept, acc>> /\ pc[t] \in OnStream
    BY <1>3, <1>0 DEF Write, localVars
  <2>2. CASE pc[t] = "writing" /\ Goto(t, "prepare")
    <3>1. \A u \in Tasks : pc[u] \notin Using
      BY <2>1, <2>2, <1>0, OneUser
    <3>2. ~stmt
      BY <3>1, Typed DEF Locals
    <3>3. "prepare" \in Using /\ "prepare" \notin {"p_defs", "p_eof"} /\ "prepare" \notin {"executing", "releasing"}
      BY <1>0
    <3>4. QED BY <3>2, <3>3, <2>1, <2>2, LocalsGoto
  <2>3. CASE \E phase \in {"first", "pong"} : Goto(t, phase)
    <3>1. PICK phase \in {"first", "pong"} : Goto(t, phase)
      BY <2>3
    <3>2. /\ phase \in Using /\ phase \notin PrepareReads
          /\ phase \notin {"p_defs", "p_eof", "executing", "releasing"}
      BY <1>0
    <3>3. QED BY <3>1, <3>2, <2>1, LocalsGoto
  <2>4. QED BY <2>2, <2>3, <1>3 DEF Write
<1>4. ASSUME NEW t \in Tasks, Release(t) \/ WriteFails(t) \/ Timeout(t) PROVE Locals'
  <2>1. /\ pc[t] \in OnStream \cup {"waiting"}
        /\ \/ \E res : Return(t, res)
           \/ pc[t] \in OnStream /\ Finish(t, ErrResult)
    BY <1>4, <1>0 DEF Release, WriteFails, Timeout, Fail, Released, Calling, OnStream
  <2>2. QED BY <2>1, <1>1, LocalsReturn
<1>5. ASSUME NEW t \in Tasks, Read(t) PROVE Locals'
  <2>1. pc[t] \in OnStream
    BY <1>5 DEF Read, OnStream
  <2>2. CASE Fail(t)
    BY <2>1, <2>2, LocalsReturn DEF Fail
  <2>3. CASE pc[t] \in PrepareReads /\ Goto(t, "executing") /\ stmt' = TRUE
    BY <2>1, <2>3, <1>0, LocalsGoto
  <2>4. CASE /\ Goto(t, "p_defs") \/ Goto(t, "p_eof")
             /\ pc[t] \in PrepareReads /\ groups' # 0 /\ stmt' = stmt
    <3>1. ~stmt
      BY <2>4, Typed DEF Locals
    <3>2. PICK phase \in {"p_defs", "p_eof"} : Goto(t, phase)
      BY <2>4
    <3>3. phase \in Using /\ phase \notin {"executing", "releasing"}
      BY <1>0
    <3>4. QED BY <3>1, <3>2, <3>3, <2>1, <2>4, LocalsGoto
  <2>5. CASE pc[t] \in ResultReads /\ \E phase \in ResultReads : Goto(t, phase)
    <3>1. PICK phase \in ResultReads : Goto(t, phase)
      BY <2>5
    <3>2. phase \in Using /\ phase \notin PrepareReads /\ phase \notin {"p_defs", "p_eof", "executing", "releasing"}
      BY <1>0
    <3>3. QED BY <3>1, <3>2, <2>1, LocalsGoto
  <2>6. QED BY <1>1, <1>5, <2>1, <2>2, <2>3, <2>4, <2>5, ReadMoves
<1>6. ASSUME NEW t \in Tasks, Execute(t) \/ CloseBegin(t) \/ CloseTake(t) \/ CloseEnd(t) PROVE Locals'
  <2>1. \A u \in Tasks : pc'[u] = pc[u] \/ (pc[u] \notin Using /\ pc'[u] \notin Using)
    BY <1>6, <1>0, Typed DEF Execute, CloseBegin, CloseTake, CloseEnd
  <2>2. UNCHANGED <<groups, stmt, kept, acc>>
    BY <1>6 DEF Execute, CloseBegin, CloseTake, CloseEnd, localVars
  <2>3. QED BY <2>1, <2>2, LocalsSame
<1>7. ASSUME (\E t \in Tasks : PingClosed(t)) \/ Serve \/ Crash \/ UNCHANGED vars PROVE Locals'
  <2>1. UNCHANGED <<pc, groups, stmt, kept, acc>>
    BY <1>7 DEF PingClosed, Serve, Crash, vars, clientVars, localVars
  <2>2. QED BY <2>1, LocalsSame
<1>8. QED BY <1>2, <1>3, <1>4, <1>5, <1>6, <1>7 DEF Next, Poll

-----------------------------------------------------------------------------
(* While nothing is left in doubt.                                         *)

AlignedNow == InStep /\ Told /\ InUse

LEMMA AlignedFacts ==
  ASSUME MySqlInv, doubt = {}
  PROVE  InStep /\ Told /\ InUse
BY DEF MySqlInv, Aligned

\* Nobody's place in an answer changes.
LEMMA SameAligned ==
  ASSUME MySqlInv, doubt = {}, UNCHANGED <<groups, stmt, kept, acc, eofs, toServer, toClient, prepared, verdict>>,
         alive' => alive,
         \A u \in Tasks : \/ pc'[u] = pc[u] /\ req'[u] = req[u]
                          \/ pc[u] \notin Using /\ pc'[u] \notin Using
  PROVE  AlignedNow'
<1>0. /\ Reading \subseteq Using /\ "executing" \in Using /\ "releasing" \in Using /\ "prepare" \in Using
      /\ \A s \in {"prepare", "first", "pong"} : s \in Using
  BY DEF Using, OnStream, Reading, Writing, PrepareReads, ResultReads
<1>1. \A u \in Tasks : pc[u] \in Using \/ pc'[u] \in Using => pc'[u] = pc[u] /\ req'[u] = req[u]
  OBVIOUS
<1>2. OnlyCloses => OnlyCloses'
  BY DEF OnlyCloses
<1>3. InStep'
  <2>1. (\A u \in Tasks : pc'[u] \notin Using) => toClient' = <<>> /\ OnlyCloses'
    BY <1>1, <1>2, AlignedFacts DEF InStep
  <2>2. ASSUME NEW u \in Tasks, pc'[u] \in Reading
        PROVE  \/ toClient' = <<>> /\ Asked(u)'
               \/ toClient' \in Awaited(pc[u], req[u])' /\ OnlyCloses'
    <3>1. pc'[u] = pc[u] /\ req'[u] = req[u] /\ pc[u] \in Reading
      BY <1>0, <1>1, <2>2
    <3>2. CASE toClient = <<>> /\ Asked(u)
      BY <3>1, <3>2 DEF Asked, CommandOf
    <3>3. CASE toClient \in Awaited(pc[u], req[u]) /\ OnlyCloses
      <4>1. (Awaited(pc[u], req[u]))' = Awaited(pc[u], req[u])
        BY <3>1 DEF Awaited, PrepareOf, GroupsOf, Group, FirstOf, ColsOf, EofOf, RowsOf, Finals, P, Packet
      <4>2. QED BY <4>1, <3>3, <1>2
    <3>4. QED BY <3>1, <3>2, <3>3, AlignedFacts DEF InStep
  <2>3. \A u \in Tasks : pc'[u] = "executing" => toClient' = <<>> /\ OnlyCloses'
    BY <1>0, <1>1, <1>2, AlignedFacts DEF InStep
  <2>4. \A u \in Tasks : pc'[u] = "releasing" => (kept' = Spoilt' \/ toClient' = <<>>) /\ OnlyCloses'
    BY <1>0, <1>1, <1>2, AlignedFacts DEF InStep, Spoilt
  <2>5. QED BY <2>1, <2>2, <2>3, <2>4 DEF InStep
<1>4. Told'
  <2>1. \A u \in Tasks : pc'[u] \in Using => acc' \subseteq {req'[u]}
    BY <1>1, AlignedFacts DEF Told
  <2>2. \A u \in Tasks : pc'[u] = "releasing" /\ kept'.st = "ok" =>
          kept'.from = {req'[u]} /\ verdict'[req'[u]] = "done"
    BY <1>0, <1>1, AlignedFacts DEF Told
  <2>3. QED BY <2>1, <2>2, AlignedFacts DEF Told
<1>5. InUse'
  <2>1. alive' => \A r \in prepared' :
          \/ \E i \in DOMAIN toServer' : toServer'[i] = [k |-> "CLOSE", of |-> r]
          \/ \E u \in Tasks : req'[u] = r /\ pc'[u] \in Using /\ (stmt' \/ pc'[u] \in PrepareReads)
    BY <1>1, AlignedFacts DEF InUse
  <2>2. \A u \in Tasks :
          pc'[u] = "prepare" /\ toClient' # <<>> /\ toClient'[1].k = "ERR" => req'[u] \notin prepared'
    BY <1>0, <1>1, AlignedFacts DEF InUse
  <2>3. QED BY <2>1, <2>2 DEF InUse
<1>6. QED BY <1>3, <1>4, <1>5 DEF AlignedNow

\* The task on the stream returns, with nothing left to read.
LEMMA EndsAligned ==
  ASSUME MySqlInv, doubt = {}, NEW t \in Tasks, pc[t] \in OnStream, NEW res, Return(t, res),
         toClient' = <<>>, OnlyCloses', UNCHANGED <<prepared, verdict>>, alive' => alive,
         \A i \in DOMAIN toServer : \E j \in DOMAIN toServer' : toServer'[j] = toServer[i],
         alive' /\ req[t] \in prepared /\ (stmt \/ pc[t] \in PrepareReads) =>
            \E j \in DOMAIN toServer' : toServer'[j] = [k |-> "CLOSE", of |-> req[t]]
  PROVE  AlignedNow'
<1>0. /\ Using \subseteq OnStream /\ Reading \subseteq Using
      /\ "executing" \in OnStream /\ "releasing" \in OnStream /\ "prepare" \in OnStream
      /\ "idle" \notin OnStream
  BY DEF Using, OnStream, Reading, Writing, PrepareReads, ResultReads
<1>1. \A u \in Tasks : pc'[u] \notin OnStream
  <2>1. \A u \in Tasks : pc'[u] = IF u = t THEN "idle" ELSE pc[u]
    BY ReturnFacts
  <2>2. QED BY <2>1, <1>0, OneUser
<1>2. InStep'
  BY <1>0, <1>1 DEF InStep
<1>3. Told'
  BY <1>0, <1>1 DEF Told
<1>4. InUse'
  <2>1. ASSUME alive', NEW r \in prepared
        PROVE  \E j \in DOMAIN toServer' : toServer'[j] = [k |-> "CLOSE", of |-> r]
    <3>1. CASE \E i \in DOMAIN toServer : toServer[i] = [k |-> "CLOSE", of |-> r]
      <4>1. PICK i \in DOMAIN toServer : toServer[i] = [k |-> "CLOSE", of |-> r]
        BY <3>1
      <4>2. PICK j \in DOMAIN toServer' : toServer'[j] = toServer[i]
        BY <4>1
      <4>3. QED BY <4>1, <4>2
    <3>2. CASE \E u \in Tasks : req[u] = r /\ pc[u] \in Using /\ (stmt \/ pc[u] \in PrepareReads)
      <4>1. req[t] = r /\ (stmt \/ pc[t] \in PrepareReads)
        BY <3>2, <1>0, OneUser
      <4>2. QED BY <4>1, <2>1
    <3>3. QED BY <3>1, <3>2, <2>1, AlignedFacts DEF InUse
  <2>2. QED BY <2>1, <1>0, <1>1 DEF InUse
<1>5. QED BY <1>2, <1>3, <1>4 DEF AlignedNow

\* The task on the stream goes on; what it reads next is what it waits for.
LEMMA GoesAligned ==
  ASSUME MySqlInv, doubt = {}, NEW t \in Tasks, pc[t] \in OnStream, NEW phase \in Using, Goto(t, phase),
         UNCHANGED <<prepared, verdict, alive>>,
         \A i \in DOMAIN toServer : \E j \in DOMAIN toServer' : toServer'[j] = toServer[i],
         phase \in Reading => \/ toClient' = <<>> /\ Asked(t)'
                              \/ toClient' \in Awaited(phase, req[t])' /\ OnlyCloses',
         phase = "executing" => toClient' = <<>> /\ OnlyCloses',
         phase = "releasing" => (kept' = Spoilt \/ toClient' = <<>>) /\ OnlyCloses',
         acc' \subseteq {req[t]},
         \A i \in DOMAIN toClient' : toClient'[i].k \in {"OK", "END"} => verdict[toClient'[i].of] = "done",
         phase = "releasing" /\ kept'.st = "ok" => kept'.from = {req[t]} /\ verdict[req[t]] = "done",
         stmt \/ pc[t] \in PrepareReads => stmt' \/ phase \in PrepareReads,
         phase = "prepare" => toClient' = <<>>
  PROVE  AlignedNow'
<1>0. /\ Using \subseteq OnStream /\ Reading \subseteq Using /\ PrepareReads \subseteq Using
      /\ "executing" \in OnStream /\ "releasing" \in OnStream /\ "prepare" \in OnStream
  BY DEF Using, OnStream, Reading, Writing, PrepareReads, ResultReads
<1>1. /\ \A u \in Tasks : pc'[u] = IF u = t THEN phase ELSE pc[u]
      /\ req' = req
      /\ \A u \in Tasks : pc[u] \in OnStream => u = t
  BY GotoFacts, OneUser
<1>2. pc'[t] = phase /\ \A u \in Tasks : pc'[u] \in OnStream => u = t
  BY <1>1
<1>3. InStep'
  <2>1. (\A u \in Tasks : pc'[u] \notin Using) => toClient' = <<>> /\ OnlyCloses'
    BY <1>2
  <2>2. ASSUME NEW u \in Tasks, pc'[u] \in Reading
        PROVE  \/ toClient' = <<>> /\ Asked(u)'
               \/ toClient' \in Awaited(pc[u], req[u])' /\ OnlyCloses'
    <3>1. u = t /\ phase \in Reading
      BY <1>0, <1>2, <2>2
    <3>2. Awaited(phase, req[t])' = Awaited(pc[t], req[t])'
      BY <1>2
    <3>3. QED BY <3>1, <3>2
  <2>3. \A u \in Tasks : pc'[u] = "executing" => toClient' = <<>> /\ OnlyCloses'
    BY <1>0, <1>2
  <2>4. \A u \in Tasks : pc'[u] = "releasing" => (kept' = Spoilt' \/ toClient' = <<>>) /\ OnlyCloses'
    BY <1>0, <1>2 DEF Spoilt
  <2>5. QED BY <2>1, <2>2, <2>3, <2>4 DEF InStep
<1>4. Told'
  <2>1. \A u \in Tasks : pc'[u] \in Using => acc' \subseteq {req'[u]}
    BY <1>0, <1>1, <1>2
  <2>2. \A u \in Tasks : pc'[u] = "releasing" /\ kept'.st = "ok" =>
          kept'.from = {req'[u]} /\ verdict'[req'[u]] = "done"
    BY <1>0, <1>1, <1>2
  <2>3. \A i \in DOMAIN toClient' : toClient'[i].k \in {"OK", "END"} => verdict'[toClient'[i].of] = "done"
    OBVIOUS
  <2>4. QED BY <2>1, <2>2, <2>3 DEF Told
<1>5. InUse'
  <2>1. ASSUME alive', NEW r \in prepared'
        PROVE  \/ \E i \in DOMAIN toServer' : toServer'[i] = [k |-> "CLOSE", of |-> r]
               \/ \E u \in Tasks : req'[u] = r /\ pc'[u] \in Using /\ (stmt' \/ pc'[u] \in PrepareReads)
    <3>1. CASE \E i \in DOMAIN toServer : toServer[i] = [k |-> "CLOSE", of |-> r]
      <4>1. PICK i \in DOMAIN toServer : toServer[i] = [k |-> "CLOSE", of |-> r]
        BY <3>1
      <4>2. PICK j \in DOMAIN toServer' : toServer'[j] = toServer[i]
        BY <4>1
      <4>3. QED BY <4>1, <4>2
    <3>2. CASE \E u \in Tasks : req[u] = r /\ pc[u] \in Using /\ (stmt \/ pc[u] \in PrepareReads)
      <4>1. req[t] = r /\ (stmt \/ pc[t] \in PrepareReads)
        BY <3>2, <1>0, <1>1
      <4>2. QED BY <4>1, <1>1, <1>2
    <3>3. alive /\ r \in prepared
      BY <2>1
    <3>4. QED BY <3>1, <3>2, <3>3, AlignedFacts DEF InUse
  <2>2. \A u \in Tasks :
          pc'[u] = "prepare" /\ toClient' # <<>> /\ toClient'[1].k = "ERR" => req'[u] \notin prepared'
    BY <1>0, <1>2
  <2>3. QED BY <2>1, <2>2 DEF InUse
<1>6. QED BY <1>3, <1>4, <1>5 DEF AlignedNow

\* The answers do not change while the negotiated EOF packets do not.
LEMMA AnswersSame ==
  ASSUME eofs' = eofs
  PROVE  \A r : /\ FirstOf(r)' = FirstOf(r) /\ ColsOf(r)' = ColsOf(r)
                /\ EofOf(r)' = EofOf(r) /\ RowsOf(r)' = RowsOf(r)
                /\ PrepareOf(r)' = PrepareOf(r) /\ P("EOF", r)' = P("EOF", r)
                /\ \A n : GroupsOf(r, n)' = GroupsOf(r, n)
<1>1. \A r, n : GroupsOf(r, n)' = GroupsOf(r, n)
  BY DEF GroupsOf, Group, P, Packet
<1>2. \A r : PrepareOf(r)' = PrepareOf(r)
  BY DEF PrepareOf, GroupsOf, Group, P, Packet
<1>3. \A r : FirstOf(r)' = FirstOf(r) /\ ColsOf(r)' = ColsOf(r) /\ EofOf(r)' = EofOf(r) /\ RowsOf(r)' = RowsOf(r)
  BY DEF FirstOf, ColsOf, EofOf, RowsOf, Finals, P, Packet
<1>4. QED BY <1>1, <1>2, <1>3 DEF P, Packet

\* A packet that leaves the stream.
LEMMA TailFacts ==
  ASSUME MySqlInv, doubt = {}, toClient # <<>>, toClient' = Tail(toClient), verdict' = verdict
  PROVE  /\ Head(toClient) = toClient[1] /\ 1 \in DOMAIN toClient
         /\ \A i \in DOMAIN toClient' : toClient'[i].k \in {"OK", "END"} => verdict[toClient'[i].of] = "done"
<1>1. /\ Head(toClient) = toClient[1] /\ 1 \in DOMAIN toClient
      /\ DOMAIN Tail(toClient) = 1..(Len(toClient) - 1)
      /\ \A i \in 1..(Len(toClient) - 1) : Tail(toClient)[i] = toClient[i + 1] /\ i + 1 \in DOMAIN toClient
  BY Typed, ReadFront
<1>2. \A i \in DOMAIN toClient : toClient[i].k \in {"OK", "END"} => verdict[toClient[i].of] = "done"
  BY AlignedFacts DEF Told
<1>3. QED BY <1>1, <1>2

\* A reader that finishes with everything read.
LEMMA FinishAligned ==
  ASSUME MySqlInv, doubt = {}, NEW t \in Tasks, pc[t] \in ResultReads \cup {"executing"},
         NEW res, Finish(t, res),
         UNCHANGED <<toServer, prepared, verdict, alive>>, OnlyCloses', toClient' = <<>>,
         res.st = "ok" => res.from = {req[t]} /\ verdict[req[t]] = "done"
  PROVE  AlignedNow'
<1>0. /\ pc[t] \in OnStream /\ pc[t] \in Using /\ pc[t] \notin PrepareReads
      /\ "releasing" \in Using /\ "releasing" \notin Reading
  BY DEF Using, OnStream, Reading, Writing, PrepareReads, ResultReads
<1>1. \A i \in DOMAIN toServer : \E j \in DOMAIN toServer' : toServer'[j] = toServer[i]
  OBVIOUS
<1>2. \A i \in DOMAIN <<>> : FALSE
  OBVIOUS
<1>3. CASE stmt /\ Goto(t, "releasing") /\ kept' = res /\ UNCHANGED <<groups, stmt, acc>>
  <2>1. acc' \subseteq {req[t]}
    BY <1>0, <1>3, AlignedFacts DEF Told
  <2>2. \A i \in DOMAIN toClient' : toClient'[i].k \in {"OK", "END"} => verdict[toClient'[i].of] = "done"
    BY <1>2
  <2>3. QED BY <1>0, <1>1, <1>3, <2>1, <2>2, GoesAligned
<1>4. CASE ~stmt /\ Return(t, res)
  BY <1>0, <1>1, <1>4, EndsAligned
<1>5. QED BY <1>3, <1>4 DEF Finish

\* com_stmt_prepare reads the packets of its answer one by one.
LEMMA PrepareReadAligned ==
  ASSUME MySqlInv, doubt = {}, NEW t \in Tasks, ReadPrepare(t, Head(toClient)),
         toClient # <<>>, toClient' = Tail(toClient),
         UNCHANGED <<toServer, prepared, verdict, alive>>
  PROVE  AlignedNow'
<1> DEFINE m == Head(toClient)
           r == req[t]
<1>0. /\ "executing" \in Using /\ "executing" \notin Reading /\ "p_defs" \in Using /\ "p_eof" \in Using
      /\ "p_defs" \in PrepareReads /\ "p_eof" \in PrepareReads
  BY DEF Using, OnStream, Reading, Writing, PrepareReads, ResultReads
<1>1. pc[t] \in PrepareReads /\ pc[t] \in OnStream /\ pc[t] \in Reading /\ pc[t] \in Using
  BY DEF ReadPrepare, PrepareReads, OnStream, Reading, Using
<1>2. /\ toClient \in Awaited(pc[t], r) /\ OnlyCloses /\ OnlyCloses'
      /\ r \in Ids /\ ~stmt /\ groups \in 0..2 /\ acc \subseteq {r}
      /\ pc[t] \in {"p_defs", "p_eof"} => groups \in 1..2
  <2>1. toClient \in Awaited(pc[t], r) /\ OnlyCloses
    BY <1>1, AlignedFacts DEF InStep
  <2>2. OnlyCloses'
    BY <2>1 DEF OnlyCloses
  <2>3. r \in Ids
    BY <1>1, OneUser
  <2>4. ~stmt /\ (pc[t] \in {"p_defs", "p_eof"} => groups # 0) /\ groups \in 0..2
    BY <1>1, Typed DEF Locals, Types, RunType
  <2>5. acc \subseteq {r}
    BY <1>1, AlignedFacts DEF Told
  <2>6. QED BY <2>1, <2>2, <2>3, <2>4, <2>5
<1>3. \A i \in DOMAIN toServer : \E j \in DOMAIN toServer' : toServer'[j] = toServer[i]
  OBVIOUS
<1>4. /\ m = toClient[1]
      /\ \A i \in DOMAIN toClient' : toClient'[i].k \in {"OK", "END"} => verdict[toClient'[i].of] = "done"
  BY TailFacts
<1>5. /\ \A k \in {"ERR", "EOF", "DEFS"} : P(k, r).k = k
      /\ \A n \in 0..2 : Packet("PREPARED", r, n).k = "PREPARED" /\ Packet("PREPARED", r, n).n = n
  BY <1>2, PacketFacts DEF P, Packets
<1>6. /\ GroupsOf(r, 0) = <<>>
      /\ \A n \in 1..2 : /\ GroupsOf(r, n) # <<>> /\ Head(GroupsOf(r, n)) = P("DEFS", r)
                         /\ Tail(GroupsOf(r, n)) = IF eofs THEN <<P("EOF", r)>> \o GroupsOf(r, n - 1)
                                                           ELSE GroupsOf(r, n - 1)
      /\ \A n \in 1..2 : Tail(<<P("EOF", r)>> \o GroupsOf(r, n - 1)) = GroupsOf(r, n - 1)
      /\ \A s \in PrepareOf(r) : \/ Head(s) = P("ERR", r) /\ Tail(s) = <<>>
                                 \/ \E n \in 0..2 : /\ Head(s) = Packet("PREPARED", r, n)
                                                    /\ Tail(s) = GroupsOf(r, n)
  BY <1>2, PreparePackets
<1>7. /\ pc[t] = "prepare" => toClient \in PrepareOf(r)
      /\ pc[t] = "p_defs" => toClient = GroupsOf(r, groups)
      /\ pc[t] = "p_eof" => eofs /\ toClient = <<P("EOF", r)>> \o GroupsOf(r, groups - 1)
  BY <1>2 DEF Awaited
\* The definitions that are left are those the loop still counts.
<1>8. ASSUME NEW left \in 0..2, NextGroup(t, left), UNCHANGED <<kept, acc>>, toClient' = GroupsOf(r, left)
      PROVE  AlignedNow'
  <2>1. CASE left = 0
    <3>1. Goto(t, "executing") /\ stmt' = TRUE /\ toClient' = <<>>
      BY <1>6, <1>8, <2>1 DEF NextGroup
    <3>2. QED BY <3>1, <1>0, <1>1, <1>2, <1>3, <1>4, <1>8, GoesAligned
  <2>2. CASE left # 0
    <3>1. Goto(t, "p_defs") /\ groups' = left /\ stmt' = stmt
      BY <1>8, <2>2 DEF NextGroup
    <3>2. eofs' = eofs /\ req' = req
      BY <3>1, GotoFacts
    <3>3. GroupsOf(r, left)' = GroupsOf(r, left)
      BY <3>2 DEF GroupsOf, Group, P, Packet
    <3>4. toClient' \in Awaited("p_defs", r)'
      BY <3>1, <3>3, <1>8 DEF Awaited
    <3>5. QED BY <3>1, <3>4, <1>0, <1>1, <1>2, <1>3, <1>4, <1>8, GoesAligned
  <2>3. QED BY <2>1, <2>2
<1>9. CASE pc[t] = "prepare" /\ m.k = "ERR" /\ Fail(t)
  <2>1. toClient' = <<>>
    BY <1>5, <1>6, <1>7, <1>9
  <2>2. r \notin prepared
    BY <1>4, <1>9, AlignedFacts DEF InUse
  <2>3. QED BY <2>1, <2>2, <1>1, <1>2, <1>3, <1>9, EndsAligned DEF Fail
<1>10. CASE pc[t] = "prepare" /\ m.k = "PREPARED" /\ NextGroup(t, m.n) /\ UNCHANGED <<kept, acc>>
  <2>1. PICK n \in 0..2 : m = Packet("PREPARED", r, n) /\ Tail(toClient) = GroupsOf(r, n)
    <3>1. m # P("ERR", r)
      BY <1>5, <1>10
    <3>2. QED BY <3>1, <1>6, <1>7, <1>10
  <2>2. m.n = n
    BY <2>1, <1>5
  <2>3. QED BY <2>1, <2>2, <1>8, <1>10
<1>11. CASE /\ pc[t] = "p_defs" /\ m.k = "DEFS"
            /\ IF eofs THEN Goto(t, "p_eof") /\ UNCHANGED <<stmt, groups>> ELSE NextGroup(t, groups - 1)
            /\ UNCHANGED <<kept, acc>>
  <2>1. groups \in 1..2 /\ groups - 1 \in 0..2
    BY <1>2, <1>11
  <2>2. toClient' = IF eofs THEN <<P("EOF", r)>> \o GroupsOf(r, groups - 1) ELSE GroupsOf(r, groups - 1)
    BY <2>1, <1>6, <1>7, <1>11
  <2>3. CASE ~eofs
    <3>1. NextGroup(t, groups - 1) /\ toClient' = GroupsOf(r, groups - 1) /\ UNCHANGED <<kept, acc>>
      BY <2>2, <2>3, <1>11
    <3>2. QED BY <3>1, <2>1, <1>8
  <2>4. CASE eofs
    <3>1. Goto(t, "p_eof") /\ UNCHANGED <<stmt, groups, kept, acc>>
      BY <2>4, <1>11
    <3>2. eofs' = eofs /\ req' = req
      BY <3>1, GotoFacts
    <3>3. GroupsOf(r, groups - 1)' = GroupsOf(r, groups - 1) /\ P("EOF", r)' = P("EOF", r)
      BY <3>1, <3>2 DEF GroupsOf, Group, P, Packet
    <3>4. toClient' \in Awaited("p_eof", r)'
      BY <2>2, <2>4, <3>1, <3>2, <3>3 DEF Awaited
    <3>5. QED BY <3>1, <3>4, <1>0, <1>1, <1>2, <1>3, <1>4, GoesAligned
  <2>5. QED BY <2>3, <2>4
<1>12. CASE pc[t] = "p_eof" /\ m.k = "EOF" /\ NextGroup(t, groups - 1) /\ UNCHANGED <<kept, acc>>
  <2>1. groups \in 1..2 /\ groups - 1 \in 0..2
    BY <1>2, <1>12
  <2>2. toClient' = GroupsOf(r, groups - 1)
    BY <2>1, <1>6, <1>7, <1>12
  <2>3. QED BY <2>1, <2>2, <1>8, <1>12
<1>13. QED BY <1>9, <1>10, <1>11, <1>12 DEF ReadPrepare

\* com_query, com_stmt_execute and ping read theirs.
LEMMA ResultReadAligned ==
  ASSUME MySqlInv, doubt = {}, NEW t \in Tasks, ReadResult(t, Head(toClient)),
         toClient # <<>>, toClient' = Tail(toClient),
         UNCHANGED <<toServer, prepared, verdict, alive>>
  PROVE  AlignedNow'
<1> DEFINE m == Head(toClient)
           r == req[t]
           done == [st |-> "ok", from |-> acc \cup {m.of}]
<1>0. /\ \A s \in ResultReads : s \in Using /\ s \in Reading /\ s \notin PrepareReads
      /\ \A s \in {"cols", "c_eof", "rows"} : s \in ResultReads
      /\ \A s \in ResultReads : s # "executing" /\ s # "releasing" /\ s # "prepare"
  BY DEF Using, OnStream, Reading, Writing, PrepareReads, ResultReads
<1>1. pc[t] \in ResultReads /\ pc[t] \in OnStream /\ pc[t] \in Reading /\ pc[t] \in Using
  BY DEF ReadResult, ResultReads, OnStream, Reading, Using
<1>2. toClient \in Awaited(pc[t], r) /\ OnlyCloses /\ OnlyCloses' /\ r \in Ids /\ acc \subseteq {r}
  <2>1. toClient \in Awaited(pc[t], r) /\ OnlyCloses
    BY <1>1, AlignedFacts DEF InStep
  <2>2. OnlyCloses'
    BY <2>1 DEF OnlyCloses
  <2>3. r \in Ids
    BY <1>1, OneUser
  <2>4. acc \subseteq {r}
    BY <1>1, AlignedFacts DEF Told
  <2>5. QED BY <2>1, <2>2, <2>3, <2>4
<1>3. \A i \in DOMAIN toServer : \E j \in DOMAIN toServer' : toServer'[j] = toServer[i]
  OBVIOUS
<1>4. /\ m = toClient[1] /\ 1 \in DOMAIN toClient
      /\ \A i \in DOMAIN toClient' : toClient'[i].k \in {"OK", "END"} => verdict[toClient'[i].of] = "done"
  BY TailFacts
<1>5. \A k \in {"OK", "ERR", "COUNT", "EOF", "DEFS", "ROW", "END"} : P(k, r).k = k /\ P(k, r).of = r
  BY <1>2, PacketFacts DEF P, Packets, About
<1>6. /\ pc[t] = "first" => /\ toClient \in FirstOf(r)
                            /\ \/ m \in {P("OK", r), P("ERR", r)} /\ Tail(toClient) = <<>>
                               \/ m = P("COUNT", r) /\ Tail(toClient) \in ColsOf(r)
      /\ pc[t] = "pong" => m = P("OK", r) /\ Tail(toClient) = <<>>
      /\ pc[t] = "cols" => /\ m = P("DEFS", r)
                           /\ Tail(toClient) \in IF eofs THEN EofOf(r) ELSE RowsOf(r)
      /\ pc[t] = "c_eof" => m = P("EOF", r) /\ Tail(toClient) \in RowsOf(r)
      /\ pc[t] = "rows" => \/ m \in {P("END", r), P("ERR", r)} /\ Tail(toClient) = <<>>
                           \/ m = P("ROW", r) /\ Tail(toClient) \in RowsOf(r)
  <2>1. pc[t] = "first" => toClient \in FirstOf(r)
    BY <1>2 DEF Awaited
  <2>2. pc[t] = "pong" => toClient = <<P("OK", r)>>
    BY <1>2 DEF Awaited
  <2>3. pc[t] = "cols" => toClient \in ColsOf(r)
    BY <1>2 DEF Awaited
  <2>4. pc[t] = "c_eof" => toClient \in EofOf(r)
    BY <1>2 DEF Awaited
  <2>5. pc[t] = "rows" => toClient \in RowsOf(r)
    BY <1>2 DEF Awaited
  <2>6. Tail(<<P("OK", r)>>) = <<>> /\ Head(<<P("OK", r)>>) = P("OK", r)
    OBVIOUS
  <2>7. QED BY <2>1, <2>2, <2>3, <2>4, <2>5, <2>6, <1>2, AnswerPackets
<1>7. m.of = r
  BY <1>1, <1>5, <1>6 DEF ResultReads
<1>8. ASSUME NEW phase \in {"cols", "c_eof", "rows"}, Goto(t, phase), UNCHANGED <<groups, stmt, kept>>,
             acc' \in {acc, acc \cup {r}},
             toClient' \in CASE phase = "cols"  -> ColsOf(r)
                             [] phase = "c_eof" -> IF eofs THEN EofOf(r) ELSE {}
                             [] OTHER           -> RowsOf(r)
      PROVE  AlignedNow'
  <2>1. eofs' = eofs /\ req' = req
    BY <1>8, GotoFacts
  <2>2. FirstOf(r)' = FirstOf(r) /\ ColsOf(r)' = ColsOf(r) /\ EofOf(r)' = EofOf(r) /\ RowsOf(r)' = RowsOf(r)
    BY <2>1 DEF FirstOf, ColsOf, EofOf, RowsOf, Finals, P, Packet
  <2>3. toClient' \in Awaited(phase, r)'
    BY <1>8, <2>1, <2>2 DEF Awaited
  <2>4. acc' \subseteq {r}
    BY <1>2, <1>8
  <2>5. QED BY <1>0, <1>1, <1>2, <1>3, <1>4, <1>8, <2>3, <2>4, GoesAligned
\* A good end: what the result holds is of this statement, and it has run.
<1>9. ASSUME m.k \in {"OK", "END"}, Finish(t, done), toClient' = <<>> PROVE AlignedNow'
  <2>1. verdict[r] = "done"
    BY <1>4, <1>7, <1>9, AlignedFacts DEF Told
  <2>2. done.from = {r}
    BY <1>2, <1>7
  <2> HIDE DEF done
  <2>3. QED BY <2>1, <2>2, <1>1, <1>2, <1>9, FinishAligned
<1>10. ASSUME Finish(t, ErrResult), toClient' = <<>> PROVE AlignedNow'
  <2>1. ErrResult.st # "ok"
    BY DEF ErrResult
  <2>2. QED BY <2>1, <1>1, <1>2, <1>10, FinishAligned
<1>11. CASE pc[t] \in {"first", "pong"} /\ m.k = "OK" /\ Finish(t, done)
  <2>1. toClient' = <<>>
    BY <1>5, <1>6, <1>11
  <2>2. QED BY <2>1, <1>9, <1>11
<1>12. CASE pc[t] \in {"first", "pong", "rows"} /\ m.k = "ERR" /\ Finish(t, ErrResult)
  <2>1. toClient' = <<>>
    BY <1>5, <1>6, <1>12
  <2>2. QED BY <2>1, <1>10, <1>12
<1>13. CASE /\ pc[t] = "first" /\ m.k = "COUNT" /\ Goto(t, "cols") /\ acc' = acc \cup {m.of}
            /\ UNCHANGED <<groups, stmt, kept>>
  <2>1. toClient' \in ColsOf(r)
    BY <1>5, <1>6, <1>13
  <2>2. QED BY <2>1, <1>7, <1>8, <1>13
<1>14. CASE /\ pc[t] = "cols" /\ m.k = "DEFS"
            /\ Goto(t, IF eofs THEN "c_eof" ELSE "rows") /\ acc' = acc \cup {m.of}
            /\ UNCHANGED <<groups, stmt, kept>>
  <2>1. toClient' \in IF eofs THEN EofOf(r) ELSE RowsOf(r)
    BY <1>6, <1>14
  <2>2. CASE eofs
    <3>1. Goto(t, "c_eof") /\ toClient' \in EofOf(r)
      BY <2>1, <2>2, <1>14
    <3>2. QED BY <3>1, <2>2, <1>7, <1>8, <1>14
  <2>3. CASE ~eofs
    <3>1. Goto(t, "rows") /\ toClient' \in RowsOf(r)
      BY <2>1, <2>3, <1>14
    <3>2. QED BY <3>1, <1>7, <1>8, <1>14
  <2>4. QED BY <2>2, <2>3
<1>15. CASE pc[t] = "c_eof" /\ m.k = "EOF" /\ Goto(t, "rows") /\ UNCHANGED localVars
  <2>1. toClient' \in RowsOf(r)
    BY <1>6, <1>15
  <2>2. QED BY <2>1, <1>8, <1>15 DEF localVars
<1>16. CASE /\ pc[t] = "rows" /\ m.k = "ROW" /\ acc' = acc \cup {m.of}
            /\ Goto(t, "rows") /\ UNCHANGED <<groups, stmt, kept>>
  <2>1. toClient' \in RowsOf(r)
    BY <1>5, <1>6, <1>16
  <2>2. QED BY <2>1, <1>7, <1>8, <1>16
<1>17. CASE pc[t] = "rows" /\ m.k = "END" /\ Finish(t, done)
  <2>1. toClient' = <<>>
    BY <1>5, <1>6, <1>17
  <2>2. QED BY <2>1, <1>9, <1>17
<1>18. QED BY <1>11, <1>12, <1>13, <1>14, <1>15, <1>16, <1>17 DEF ReadResult

\* A row that does not parse leaves the stream in doubt, at the latest when
\* the statement is closed.
LEMMA ReadKeepsAligned ==
  ASSUME MySqlInv, doubt = {}, doubt' = {}, NEW t \in Tasks, Read(t)
  PROVE  AlignedNow'
<1>0. UNCHANGED <<toServer, alive, prepared, verdict>> /\ pc[t] \in Reading
  BY DEF Read, serverVars
<1>1. pc[t] \in OnStream /\ pc[t] \in Using /\ Reading = PrepareReads \cup ResultReads
  BY <1>0 DEF OnStream, Using, Reading, Writing, PrepareReads, ResultReads
<1>2. ~ReadLost(t)
  BY DEF ReadLost
<1>3. CASE ReadEof(t)
  <2>1. ~alive /\ toClient' = <<>> /\ OnlyCloses'
    BY <1>0, <1>3 DEF ReadEof, OnlyCloses
  <2>2. \A i \in DOMAIN toServer : \E j \in DOMAIN toServer' : toServer'[j] = toServer[i]
    BY <1>0
  <2>3. CASE Fail(t)
    BY <2>1, <2>2, <2>3, <1>0, <1>1, EndsAligned DEF Fail
  <2>4. CASE pc[t] \in ResultReads /\ Finish(t, ErrResult)
    <3>1. ErrResult.st # "ok"
      BY DEF ErrResult
    <3>2. QED BY <3>1, <2>1, <2>4, <1>0, FinishAligned
  <2>5. QED BY <2>3, <2>4, <1>0, <1>1, <1>3 DEF ReadEof
<1>4. CASE ReadAligned(t)
  <2>1. CASE /\ ReadPrepare(t, Head(toClient)) \/ ReadResult(t, Head(toClient))
             /\ toClient' = Tail(toClient)
    BY <2>1, <1>0, <1>4, PrepareReadAligned, ResultReadAligned DEF ReadAligned
  <2>2. CASE ReadUndecodable(t, Head(toClient))
    <3>1. doubt \cup {"decode"} # {}
      OBVIOUS
    <3>2. /\ pc[t] \in {"cols", "rows"} /\ stmt /\ Finish(t, Spoilt) /\ toClient' = toClient
      BY <2>2, <3>1 DEF ReadUndecodable
    <3>3. Goto(t, "releasing") /\ kept' = Spoilt /\ UNCHANGED <<groups, stmt, acc>>
      BY <3>2 DEF Finish
    <3>4. OnlyCloses /\ OnlyCloses'
      <4>1. toClient # <<>>
        BY <1>4 DEF ReadAligned
      <4>2. OnlyCloses
        BY <4>1, <1>0, AlignedFacts DEF InStep
      <4>3. QED BY <4>2, <1>0 DEF OnlyCloses
    <3>5. /\ "releasing" \in Using /\ "releasing" \notin Reading
      BY DEF Using, OnStream, Reading, Writing, PrepareReads, ResultReads
    <3>6. acc' \subseteq {req[t]}
      BY <1>1, <3>3, AlignedFacts DEF Told
    <3>7. \A i \in DOMAIN toClient' : toClient'[i].k \in {"OK", "END"} => verdict[toClient'[i].of] = "done"
      BY <3>2, AlignedFacts DEF Told
    <3>8. kept'.st # "ok"
      BY <3>3 DEF Spoilt
    <3>9. \A i \in DOMAIN toServer : \E j \in DOMAIN toServer' : toServer'[j] = toServer[i]
      BY <1>0
    <3>10. QED BY <3>3, <3>4, <3>5, <3>6, <3>7, <3>8, <3>9, <3>2, <1>0, <1>1, GoesAligned
  <2>3. QED BY <2>1, <2>2, <1>4 DEF ReadAligned
<1>5. QED BY <1>2, <1>3, <1>4 DEF Read

\* A command goes to a server that owes nothing.
LEMMA WriteAligned ==
  ASSUME MySqlInv, doubt = {}, NEW t \in Tasks, Write(t)
  PROVE  AlignedNow'
<1>0. /\ \A s \in {"prepare", "first", "pong"} : s \in Using /\ s \in Reading /\ s # "executing" /\ s # "releasing"
      /\ "prepare" \in PrepareReads
      /\ "writing" \in OnStream /\ "executing" \in OnStream /\ "executing" \in Using
      /\ Using \subseteq OnStream /\ "writing" \notin Using
      /\ "writing" \notin PrepareReads /\ "executing" \notin PrepareReads
  BY DEF Using, OnStream, Reading, Writing, PrepareReads, ResultReads
<1>1. UNCHANGED <<toClient, prepared, verdict, alive, groups, stmt, kept, acc>>
  BY DEF Write, serverVars, localVars
<1>2. PICK k \in Commands, phase \in {"prepare", "first", "pong"} :
        /\ Sent(t, k) /\ Goto(t, phase)
        /\ \/ k = "PREPARE" /\ phase = "prepare" /\ pc[t] = "writing"
           \/ k = "QUERY" /\ phase = "first" /\ pc[t] = "writing"
           \/ k = "PING" /\ phase = "pong" /\ pc[t] = "writing"
           \/ k = "EXECUTE" /\ phase = "first" /\ pc[t] = "executing"
  BY DEF Write, Commands
<1>3. pc[t] \in OnStream
  BY <1>0, <1>2
<1>4. toClient = <<>> /\ OnlyCloses /\ acc \subseteq {req[t]}
  <2>1. CASE pc[t] = "executing"
    BY <2>1, <1>0, AlignedFacts DEF InStep, Told
  <2>2. CASE pc[t] = "writing"
    <3>1. \A u \in Tasks : pc[u] \notin Using
      BY <2>2, <1>0, OneUser
    <3>2. QED BY <3>1, Typed, AlignedFacts DEF InStep, Locals
  <2>3. QED BY <2>1, <2>2, <1>2
<1>5. pc[t] = "executing" => stmt
  BY Typed DEF Locals
<1>6. pc[t] = "writing" => ~stmt
  <2>1. pc[t] = "writing" => \A u \in Tasks : pc[u] \notin Using
    BY <1>0, OneUser
  <2>2. QED BY <2>1, Typed DEF Locals
<1>7. CommandOf(phase)' = k
  BY <1>1, <1>2, <1>5, <1>6 DEF CommandOf
<1> DEFINE e == [k |-> k, of |-> req[t]]
           n == Len(toServer) + 1
<1>8. toServer' = Append(toServer, e) /\ e \in Requests
  <2>1. pc[t] \in Calling
    BY <1>2 DEF Calling, Writing
  <2>2. QED BY <2>1, <1>2, Typed, SentTypes
<1>9. req' = req /\ pc'[t] = phase
  BY <1>2, GotoFacts
<1>10. e = [k |-> CommandOf(phase)', of |-> req'[t]]
  BY <1>7, <1>9
<1> HIDE DEF e, n
<1>11. /\ \A i \in DOMAIN toServer : toServer'[i] = toServer[i] /\ i \in DOMAIN toServer' /\ i < n
       /\ toServer'[n] = e /\ Len(toServer') = n /\ toServer' # <<>>
       /\ \A i \in DOMAIN toServer' : i < n => i \in DOMAIN toServer
  <2>1. /\ Len(toServer) \in Nat /\ DOMAIN toServer = 1..Len(toServer)
        /\ toServer' # <<>> /\ Len(toServer') = Len(toServer) + 1
        /\ DOMAIN toServer' = 1..(Len(toServer) + 1)
        /\ \A i \in 1..Len(toServer) : toServer'[i] = toServer[i]
        /\ toServer'[Len(toServer) + 1] = e
    BY <1>8, Typed, WriteEnd
  <2>2. QED BY <2>1 DEF n
<1>12. Asked(t)'
  <2>1. alive' => \A i \in DOMAIN toServer' : i < Len(toServer') => toServer'[i].k = "CLOSE"
    BY <1>1, <1>4, <1>11 DEF OnlyCloses
  <2>2. toServer'[Len(toServer')] = [k |-> CommandOf(pc[t])', of |-> req'[t]]
    BY <1>9, <1>10, <1>11
  <2>3. QED BY <2>1, <2>2, <1>9, <1>11 DEF Asked
<1>13. \A i \in DOMAIN toServer : \E j \in DOMAIN toServer' : toServer'[j] = toServer[i]
  BY <1>11
<1>14. \A i \in DOMAIN toClient' : FALSE
  BY <1>1, <1>4
<1>15. stmt \/ pc[t] \in PrepareReads => stmt' \/ phase \in PrepareReads
  BY <1>0, <1>1, <1>2
<1>16. phase \in Using /\ phase \in Reading /\ phase # "executing" /\ phase # "releasing"
  BY <1>0
<1>17. toClient' = <<>> /\ acc' \subseteq {req[t]} /\ Goto(t, phase)
  BY <1>1, <1>2, <1>4
<1>18. QED BY <1>1, <1>3, <1>12, <1>13, <1>14, <1>15, <1>16, <1>17, GoesAligned

\* Only a final packet of an answer says that the statement has run.
LEMMA ReadiedFacts ==
  ASSUME NEW m, m.of \in Ids, NEW ms, Readied(m, ms)
  PROVE  /\ ms \in PrepareOf(m.of) /\ ms # <<>> /\ ms[1].k = "PREPARED"
         /\ \A i \in DOMAIN ms : ms[i].k \notin {"OK", "END"}
<1> DEFINE r == m.of
<1>1. PICK n \in 0..2 : ms = <<Packet("PREPARED", r, n)>> \o GroupsOf(r, n)
  BY DEF Readied
<1>2. ms \in PrepareOf(r)
  BY <1>1 DEF PrepareOf
<1>3. Packet("PREPARED", r, n) \in Dull(r) /\ Packet("PREPARED", r, n) \in About(r)
  BY PacketFacts DEF Packets, Dull
<1>4. ms = <<Packet("PREPARED", r, n)>> \o (IF n > 0 THEN Defs(r) ELSE <<>>) \o (IF n > 1 THEN Defs(r) ELSE <<>>)
  BY <1>1, ServedPrepare
<1>5. /\ <<Packet("PREPARED", r, n)>> \in Seq(Dull(r)) /\ <<>> \in Seq(Dull(r)) /\ Defs(r) \in Seq(Dull(r))
  <2>1. <<Packet("PREPARED", r, n)>> \in Seq(Dull(r)) /\ <<>> \in Seq(Dull(r))
    BY <1>3
  <2>2. QED BY <2>1, DefsFacts
<1>6. ms \in Seq(Dull(r))
  <2>1. ASSUME NEW a \in Seq(Dull(r)), NEW b \in Seq(Dull(r)), NEW c \in Seq(Dull(r))
        PROVE  (a \o b) \o c \in Seq(Dull(r))
    OBVIOUS
  <2>2. /\ (IF n > 0 THEN Defs(r) ELSE <<>>) \in Seq(Dull(r))
        /\ (IF n > 1 THEN Defs(r) ELSE <<>>) \in Seq(Dull(r))
    BY <1>5
  <2>3. QED BY <2>1, <2>2, <1>4, <1>5
<1>7. \A i \in DOMAIN ms : ms[i].k \notin {"OK", "END"}
  <2>1. ASSUME NEW S, NEW s \in Seq(S) PROVE \A i \in DOMAIN s : s[i] \in S
    OBVIOUS
  <2>2. \A i \in DOMAIN ms : ms[i] \in Dull(r)
    BY <2>1, <1>6
  <2>3. QED BY <2>2 DEF Dull
<1>8. ms # <<>> /\ ms[1].k = "PREPARED"
  <2>1. ms # <<>> /\ ms[1] = Packet("PREPARED", r, n)
    <3>1. GroupsOf(r, n) \in Seq(About(r))
      BY PreparePackets
    <3>2. QED BY <3>1, <1>1, <1>3, Prepended
  <2>2. Packet("PREPARED", r, n).k = "PREPARED"
    BY DEF Packet
  <2>3. QED BY <2>1, <2>2
<1>9. QED BY <1>2, <1>7, <1>8

\* The server closes a statement; whoever waits goes on waiting.
LEMMA ClosedAligned ==
  ASSUME MySqlInv, doubt = {}, NEW ms, Responds(toServer[1], ms), toServer[1].k = "CLOSE"
  PROVE  AlignedNow'
<1> DEFINE m == toServer[1]
<1>1. /\ UNCHANGED <<pc, req, eofs, groups, stmt, kept, acc, alive, verdict>>
      /\ toServer # <<>> /\ toServer' = Tail(toServer) /\ m.of \in Ids
      /\ prepared' = prepared \ {m.of} /\ toClient' = toClient
  <2>1. /\ UNCHANGED <<clientVars, localVars, alive, doubt>> /\ toServer # <<>> /\ toServer' = Tail(toServer)
        /\ m.of \in Ids /\ toClient' = toClient \o ms
        /\ Ran(m, ms) \/ Readied(m, ms) \/ Unknown(m, ms) \/ Closed(m, ms)
    BY DEF Responds
  <2>2. Closed(m, ms)
    BY <2>1 DEF Ran, Readied, Unknown
  <2>3. toClient \o <<>> = toClient
    BY Typed, ConcatEmptySeq
  <2>4. QED BY <2>1, <2>2, <2>3 DEF Closed, clientVars, localVars
<1>2. /\ Len(toServer) \in Nat /\ DOMAIN toServer = 1..Len(toServer)
      /\ Len(toServer') = Len(toServer) - 1 /\ DOMAIN toServer' = 1..(Len(toServer) - 1)
      /\ \A i \in 1..(Len(toServer) - 1) : toServer'[i] = toServer[i + 1] /\ i + 1 \in DOMAIN toServer
      /\ toServer' = <<>> <=> Len(toServer) = 1
      /\ Len(toServer) >= 1
  BY <1>1, Typed, ReadFront, LastRead
<1>3. OnlyCloses => OnlyCloses'
  BY <1>1, <1>2 DEF OnlyCloses
<1>4. InStep'
  <2>1. ASSUME NEW u \in Tasks, pc[u] \in Reading
        PROVE  \/ toClient' = <<>> /\ Asked(u)'
               \/ toClient' \in Awaited(pc[u], req[u])' /\ OnlyCloses'
    <3>1. CASE toClient = <<>> /\ Asked(u)
      <4>1. alive => Len(toServer) # 1
        <5>1. ASSUME alive, Len(toServer) = 1 PROVE FALSE
          <6>1. toServer[1].k = CommandOf(pc[u]) /\ pc[u] \in {"prepare", "first", "pong"}
            BY <3>1, <5>1 DEF Asked
          <6>2. QED BY <6>1 DEF CommandOf
        <5>2. QED BY <5>1
      <4>2. alive => /\ toServer' # <<>>
                     /\ toServer'[Len(toServer')] = [k |-> CommandOf(pc[u]), of |-> req[u]]
                     /\ \A i \in DOMAIN toServer' : i < Len(toServer') => toServer'[i].k = "CLOSE"
        <5> SUFFICES ASSUME alive
                     PROVE  /\ toServer' # <<>>
                            /\ toServer'[Len(toServer')] = [k |-> CommandOf(pc[u]), of |-> req[u]]
                            /\ \A i \in DOMAIN toServer' : i < Len(toServer') => toServer'[i].k = "CLOSE"
          OBVIOUS
        <5>1. /\ toServer[Len(toServer)] = [k |-> CommandOf(pc[u]), of |-> req[u]]
              /\ \A i \in DOMAIN toServer : i < Len(toServer) => toServer[i].k = "CLOSE"
          BY <3>1 DEF Asked
        <5>2. /\ Len(toServer') \in 1..(Len(toServer) - 1) /\ Len(toServer') + 1 = Len(toServer)
          BY <4>1, <1>2
        <5>3. toServer'[Len(toServer')] = toServer[Len(toServer)]
          BY <5>2, <1>2
        <5>4. \A i \in 1..(Len(toServer) - 1) : i < Len(toServer') => i + 1 < Len(toServer)
          BY <1>2
        <5>5. QED BY <4>1, <5>1, <5>3, <5>4, <1>2
      <4>3. CommandOf(pc[u])' = CommandOf(pc[u])
        BY <1>1 DEF CommandOf
      <4>4. Asked(u)'
        BY <4>2, <4>3, <3>1, <1>1 DEF Asked
      <4>5. QED BY <4>4, <3>1, <1>1
    <3>2. CASE toClient \in Awaited(pc[u], req[u]) /\ OnlyCloses
      <4>1. Awaited(pc[u], req[u])' = Awaited(pc[u], req[u])
        BY <1>1 DEF Awaited, PrepareOf, GroupsOf, Group, FirstOf, ColsOf, EofOf, RowsOf, Finals, P, Packet
      <4>2. QED BY <4>1, <3>2, <1>1, <1>3
    <3>3. QED BY <2>1, <3>1, <3>2, AlignedFacts DEF InStep
  <2>2. /\ (\A t \in Tasks : pc[t] \notin Using) => toClient' = <<>> /\ OnlyCloses'
        /\ \A t \in Tasks : pc[t] = "executing" => toClient' = <<>> /\ OnlyCloses'
        /\ \A t \in Tasks : pc[t] = "releasing" => (kept = Spoilt \/ toClient' = <<>>) /\ OnlyCloses'
    BY <1>1, <1>3, AlignedFacts DEF InStep
  <2>3. QED BY <2>1, <2>2, <1>1 DEF InStep, Spoilt
<1>5. Told'
  BY <1>1, AlignedFacts DEF Told
<1>6. InUse'
  <2>1. ASSUME alive', NEW r \in prepared'
        PROVE  \/ \E i \in DOMAIN toServer' : toServer'[i] = [k |-> "CLOSE", of |-> r]
               \/ \E t \in Tasks : req[t] = r /\ pc[t] \in Using /\ (stmt \/ pc[t] \in PrepareReads)
    <3>1. CASE \E i \in DOMAIN toServer : toServer[i] = [k |-> "CLOSE", of |-> r]
      <4>1. PICK i \in DOMAIN toServer : toServer[i] = [k |-> "CLOSE", of |-> r]
        BY <3>1
      <4>2. i # 1
        BY <4>1, <2>1, <1>1
      <4>3. i - 1 \in 1..(Len(toServer) - 1) /\ (i - 1) + 1 = i
        BY <4>2, <1>2
      <4>4. toServer'[i - 1] = toServer[i]
        BY <4>3, <1>2
      <4>5. QED BY <4>1, <4>3, <4>4, <1>2
    <3>2. QED BY <3>1, <2>1, <1>1, AlignedFacts DEF InUse
  <2>2. QED BY <2>1, <1>1, AlignedFacts DEF InUse
<1>7. QED BY <1>4, <1>5, <1>6 DEF AlignedNow

\* The command the reader waits for is served: the answer is one it knows.
LEMMA ServeAligned ==
  ASSUME MySqlInv, doubt = {}, Serve
  PROVE  AlignedNow'
<1> DEFINE m == toServer[1]
<1>1. PICK ms : Responds(m, ms)
  BY Typed, ServeFacts
<1>2. /\ UNCHANGED <<pc, req, eofs, groups, stmt, kept, acc, alive>> /\ alive
      /\ toServer # <<>> /\ toServer' = Tail(toServer) /\ m.of \in Ids
      /\ ms \in Seq(About(m.of)) /\ toClient' = toClient \o ms
      /\ Ran(m, ms) \/ Readied(m, ms) \/ Unknown(m, ms) \/ Closed(m, ms)
  BY <1>1 DEF Responds, clientVars, localVars
<1>3. /\ Len(toServer) \in Nat /\ Len(toServer) >= 1 /\ 1 \in DOMAIN toServer
      /\ toServer' = <<>> <=> Len(toServer) = 1
  BY <1>2, Typed, ReadFront, LastRead
<1>4. CASE m.k = "CLOSE"
  BY <1>1, <1>4, ClosedAligned
<1>5. CASE m.k # "CLOSE"
  <2>1. ~OnlyCloses
    BY <1>2, <1>3, <1>5 DEF OnlyCloses
  <2>2. PICK t \in Tasks : pc[t] \in Reading /\ toClient = <<>> /\ Asked(t)
    <3>1. Using = Reading \cup {"executing", "releasing"}
      BY DEF Using, OnStream, Reading, Writing, PrepareReads, ResultReads
    <3>2. QED BY <2>1, <3>1, AlignedFacts DEF InStep
  <2>3. /\ toServer[Len(toServer)] = [k |-> CommandOf(pc[t]), of |-> req[t]]
        /\ \A i \in DOMAIN toServer : i < Len(toServer) => toServer[i].k = "CLOSE"
        /\ pc[t] \in {"prepare", "first", "pong"}
    BY <2>2, <1>2 DEF Asked
  <2>4. Len(toServer) = 1
    <3>1. Len(toServer) = 1 \/ 1 < Len(toServer)
      BY <1>3
    <3>2. 1 < Len(toServer) => toServer[1].k = "CLOSE"
      BY <2>3, <1>3
    <3>3. QED BY <3>1, <3>2, <1>5
  <2>5. m.k = CommandOf(pc[t]) /\ m.of = req[t] /\ toServer' = <<>>
    BY <2>3, <2>4, <1>3
  <2>6. toClient' = ms
    <3>1. <<>> \o ms = ms
      BY <1>2, ConcatEmptySeq
    <3>2. QED BY <3>1, <2>2, <1>2
  <2> DEFINE r == req[t]
  <2> HIDE DEF m
  <2>7. ~Closed(m, ms)
    BY <1>5 DEF Closed
  <2>8. \A i \in DOMAIN toServer' : FALSE
    BY <2>5
  <2>9. \A u \in Tasks : pc[u] \in OnStream => u = t
    BY <2>2, OneUser DEF OnStream
  <2>10. ms \in Awaited(pc[t], r)
    <3>1. Readied(m, ms) => m.k = "PREPARE" /\ ms \in PrepareOf(r)
      BY <1>2, <2>5, ReadiedFacts DEF Readied
    <3>2. Unknown(m, ms) => m.k = "EXECUTE" /\ ms = <<P("ERR", r)>>
      BY <2>5 DEF Unknown
    <3>3. Ran(m, ms) => \/ m.k \in {"QUERY", "EXECUTE"} /\ ms \in FirstOf(r)
                        \/ m.k = "PING" /\ ms = <<P("OK", r)>>
                        \/ m.k = "PREPARE" /\ ms = <<P("ERR", r)>>
      BY <2>5 DEF Ran
    <3>4. <<P("ERR", r)>> \in FirstOf(r) /\ <<P("ERR", r)>> \in PrepareOf(r)
      BY DEF FirstOf, PrepareOf
    <3>5. CASE pc[t] = "prepare"
      <4>1. m.k = "PREPARE"
        BY <2>5, <3>5 DEF CommandOf
      <4>2. ms \in PrepareOf(r)
        BY <4>1, <3>1, <3>2, <3>3, <3>4, <1>2, <2>7
      <4>3. QED BY <4>2, <3>5 DEF Awaited
    <3>6. CASE pc[t] = "first"
      <4>1. m.k \in {"QUERY", "EXECUTE"}
        BY <2>5, <3>6 DEF CommandOf
      <4>2. ms \in FirstOf(r)
        BY <4>1, <3>1, <3>2, <3>3, <3>4, <1>2, <2>7
      <4>3. QED BY <4>2, <3>6 DEF Awaited
    <3>7. CASE pc[t] = "pong"
      <4>1. m.k = "PING"
        BY <2>5, <3>7 DEF CommandOf
      <4>2. ms = <<P("OK", r)>>
        BY <4>1, <3>1, <3>2, <3>3, <1>2, <2>7
      <4>3. QED BY <4>2, <3>7 DEF Awaited
    <3>8. QED BY <3>5, <3>6, <3>7, <2>3
  <2>11. Awaited(pc[t], r)' = Awaited(pc[t], r)
    BY <1>2 DEF Awaited, PrepareOf, GroupsOf, Group, FirstOf, ColsOf, EofOf, RowsOf, Finals, P, Packet
  <2>12. InStep'
    <3>1. OnlyCloses'
      BY <2>8 DEF OnlyCloses
    <3>2. /\ Using \subseteq OnStream /\ Reading \subseteq OnStream /\ pc[t] \in Using
          /\ "executing" \in OnStream /\ "releasing" \in OnStream
          /\ pc[t] # "executing" /\ pc[t] # "releasing"
      BY <2>2, <2>3 DEF Using, OnStream, Reading, Writing, PrepareReads, ResultReads
    <3>3. \A u \in Tasks : pc'[u] \in OnStream => u = t
      BY <1>2, <2>9
    <3>4. toClient' \in Awaited(pc[t], r)'
      BY <2>6, <2>10, <2>11
    <3>5. ASSUME NEW u \in Tasks, pc'[u] \in Reading
          PROVE  toClient' \in Awaited(pc[u], req[u])' /\ OnlyCloses'
      <4>1. u = t
        BY <3>2, <3>3, <3>5
      <4>2. QED BY <4>1, <3>1, <3>4
    <3>6. ~\A u \in Tasks : pc'[u] \notin Using
      BY <3>2, <1>2
    <3>7. \A u \in Tasks : pc'[u] # "executing" /\ pc'[u] # "releasing"
      BY <3>2, <3>3, <1>2
    <3>8. QED BY <3>5, <3>6, <3>7 DEF InStep
  <2>13. Told'
    <3>1. \A u \in Tasks : pc'[u] \in Using => acc' \subseteq {req'[u]}
      BY <1>2, AlignedFacts DEF Told
    <3>2. \A u \in Tasks : pc'[u] # "releasing"
      <4>1. "releasing" \in OnStream /\ pc[t] # "releasing"
        BY <2>3 DEF OnStream, Writing
      <4>2. QED BY <4>1, <1>2, <2>9
    <3>3. \A i \in DOMAIN ms : ms[i].of = r
      BY <1>2, <2>5, AboutFacts
    <3>4. ASSUME NEW i \in DOMAIN ms, ms[i].k \in {"OK", "END"} PROVE verdict'[r] = "done"
      <4>1. CASE Ran(m, ms)
        <5>1. PICK v \in {"done", "failed"} :
                /\ verdict' = [verdict EXCEPT ![m.of] = v]
                /\ v = "failed" => \A j \in DOMAIN ms : ms[j].k \notin {"OK", "END"}
          BY <4>1 DEF Ran
        <5>2. v = "done"
          BY <5>1, <3>4
        <5>3. QED BY <5>1, <5>2, <2>5, <1>2, Typed
      <4>2. CASE Readied(m, ms)
        BY <4>2, <3>4, <1>2, ReadiedFacts
      <4>3. CASE Unknown(m, ms)
        <5>1. \A j \in DOMAIN <<P("ERR", m.of)>> : <<P("ERR", m.of)>>[j] = P("ERR", m.of)
          OBVIOUS
        <5>2. P("ERR", m.of).k = "ERR"
          BY DEF P, Packet
        <5>3. QED BY <5>1, <5>2, <4>3, <3>4 DEF Unknown
      <4>4. QED BY <4>1, <4>2, <4>3, <1>2, <2>7
    <3>5. QED BY <3>1, <3>2, <3>3, <3>4, <2>6 DEF Told
  <2>14. InUse'
    <3>1. \A i \in DOMAIN toServer : toServer[i].k # "CLOSE"
      <4>1. \A i \in DOMAIN toServer : i = 1
        BY <2>4, Typed
      <4>2. QED BY <4>1, <1>5 DEF m
    <3>2. ASSUME NEW q \in prepared
          PROVE  \E u \in Tasks : req[u] = q /\ pc[u] \in Using /\ (stmt \/ pc[u] \in PrepareReads)
      <4>1. ~\E i \in DOMAIN toServer : toServer[i] = [k |-> "CLOSE", of |-> q]
        BY <3>1
      <4>2. QED BY <4>1, <1>2, AlignedFacts DEF InUse
    <3>3. ASSUME NEW q \in prepared', q \notin prepared
          PROVE  req[t] = q /\ pc[t] \in Using /\ pc[t] \in PrepareReads
      <4>1. m.k = "PREPARE" /\ q = m.of
        BY <3>3, <1>2, <2>7 DEF Ran, Readied, Unknown
      <4>2. pc[t] = "prepare"
        BY <4>1, <2>3, <2>5 DEF CommandOf
      <4>3. QED BY <4>1, <4>2, <2>5 DEF Using, OnStream, Reading, Writing, PrepareReads
    <3>4. ASSUME NEW u \in Tasks, pc[u] = "prepare", toClient'[1].k = "ERR"
          PROVE  req[u] \notin prepared'
      <4>1. u = t
        BY <3>4, <2>9 DEF OnStream, Reading, PrepareReads
      <4>2. m.k = "PREPARE"
        BY <4>1, <3>4, <2>5 DEF CommandOf
      <4>3. m.of \notin prepared
        BY <4>2, <1>3 DEF m, MySqlInv, CommandsOnce
      <4>4. ~Readied(m, ms)
        BY <3>4, <2>6, <1>2, ReadiedFacts
      <4>5. QED BY <4>1, <4>2, <4>3, <4>4, <2>5, <2>7, <1>2 DEF Ran, Unknown
    <3>5. QED BY <3>2, <3>3, <3>4, <1>2 DEF InUse
  <2>15. QED BY <2>12, <2>13, <2>14 DEF AlignedNow
<1>6. QED BY <1>4, <1>5

\* The statement is closed behind whatever its call returned.
LEMMA ReleaseAligned ==
  ASSUME MySqlInv, doubt = {}, doubt' = {}, NEW t \in Tasks, Release(t) \/ WriteFails(t)
  PROVE  AlignedNow'
<1>0. /\ "writing" \in OnStream /\ "executing" \in OnStream /\ "releasing" \in OnStream
      /\ Using \subseteq OnStream /\ "writing" \notin Using /\ "idle" \notin Using
  BY DEF Using, OnStream, Reading, Writing, PrepareReads, ResultReads
<1>1. UNCHANGED <<prepared, verdict, alive>>
  BY DEF Release, WriteFails, serverVars
<1>2. doubt \cup {"decode"} # {}
  OBVIOUS
<1>3. ASSUME pc[t] = "releasing", Released(t)
      PROVE  Return(t, kept) /\ toClient' = <<>> /\ OnlyCloses /\ pc[t] \in OnStream
  <2>1. Return(t, kept) /\ toClient' = toClient /\ kept # Spoilt
    BY <1>2, <1>3 DEF Released
  <2>2. QED BY <1>0, <1>3, <2>1, AlignedFacts DEF InStep
<1>4. CASE Release(t)
  <2>1. pc[t] = "releasing" /\ Released(t) /\ Sent(t, "CLOSE")
    BY <1>4 DEF Release
  <2> DEFINE e == [k |-> "CLOSE", of |-> req[t]]
  <2>2. toServer' = Append(toServer, e) /\ e \in Requests /\ e.k = "CLOSE"
    <3>1. pc[t] \in Calling /\ "CLOSE" \in Commands
      BY <2>1 DEF Calling, Writing, Commands
    <3>2. QED BY <3>1, <2>1, Typed, SentTypes
  <2>3. e = [k |-> "CLOSE", of |-> req[t]]
    OBVIOUS
  <2> HIDE DEF e
  <2>4. /\ \A i \in DOMAIN toServer : toServer'[i] = toServer[i] /\ i \in DOMAIN toServer'
        /\ toServer'[Len(toServer) + 1] = e /\ Len(toServer) + 1 \in DOMAIN toServer'
        /\ \A i \in DOMAIN toServer' : i \in DOMAIN toServer \/ i = Len(toServer) + 1
    BY <2>2, Typed, WriteEnd
  <2>5. Return(t, kept) /\ toClient' = <<>> /\ OnlyCloses /\ pc[t] \in OnStream
    BY <1>3, <2>1
  <2>6. OnlyCloses'
    BY <1>1, <2>2, <2>4, <2>5 DEF OnlyCloses
  <2>7. /\ \A i \in DOMAIN toServer : \E j \in DOMAIN toServer' : toServer'[j] = toServer[i]
        /\ \E j \in DOMAIN toServer' : toServer'[j] = [k |-> "CLOSE", of |-> req[t]]
    BY <2>3, <2>4
  <2>8. QED BY <1>1, <2>5, <2>6, <2>7, EndsAligned
<1>5. CASE WriteFails(t)
  <2>1. ~alive /\ toServer' = toServer
    BY <1>5 DEF WriteFails
  <2>2. /\ OnlyCloses'
        /\ \A i \in DOMAIN toServer : \E j \in DOMAIN toServer' : toServer'[j] = toServer[i]
    BY <1>1, <2>1 DEF OnlyCloses
  <2>3. CASE pc[t] = "writing" /\ Fail(t) /\ UNCHANGED <<toClient, doubt>>
    <3>1. \A u \in Tasks : pc[u] \notin Using
      BY <2>3, <1>0, OneUser
    <3>2. toClient' = <<>>
      BY <2>3, <3>1, AlignedFacts DEF InStep
    <3>3. QED BY <3>2, <2>1, <2>2, <2>3, <1>0, <1>1, EndsAligned DEF Fail
  <2>4. CASE pc[t] = "executing" /\ Finish(t, ErrResult) /\ UNCHANGED <<toClient, doubt>>
    <3>1. toClient' = <<>>
      BY <2>4, AlignedFacts DEF InStep
    <3>2. ErrResult.st # "ok"
      BY DEF ErrResult
    <3>3. QED BY <3>1, <3>2, <2>1, <2>2, <2>4, <1>1, FinishAligned
  <2>5. CASE pc[t] = "releasing" /\ Released(t)
    <3>1. Return(t, kept) /\ toClient' = <<>> /\ pc[t] \in OnStream
      BY <1>3, <2>5
    <3>2. QED BY <3>1, <2>1, <2>2, <1>1, EndsAligned
  <2>6. QED BY <2>3, <2>4, <2>5, <1>5 DEF WriteFails
<1>6. QED BY <1>4, <1>5

\* A holder that has not written yet leaves the stream as it found it.
LEMMA UnusedReturns ==
  ASSUME MySqlInv, NEW t \in Tasks, pc[t] \in {"waiting", "writing"}, NEW res, Return(t, res)
  PROVE  /\ UNCHANGED <<groups, stmt, kept, acc, eofs>>
         /\ \A u \in Tasks : \/ pc'[u] = pc[u] /\ req'[u] = req[u]
                             \/ pc[u] \notin Using /\ pc'[u] \notin Using
<1>0. /\ Using \subseteq OnStream /\ "waiting" \notin Using /\ "writing" \notin Using /\ "idle" \notin Using
  BY DEF Using, OnStream, Reading, Writing, PrepareReads, ResultReads
<1>1. /\ \A u \in Tasks : /\ pc'[u] = IF u = t THEN "idle" ELSE pc[u]
                          /\ req'[u] = IF u = t THEN 0 ELSE req[u]
      /\ eofs' = eofs
      /\ Holds(t) => ClearLocals
      /\ ~Holds(t) => UNCHANGED localVars
  BY ReturnFacts
<1>2. Holds(t) => \A u \in Tasks : pc[u] \notin Using
  BY <1>0, Typed, OneHolder DEF StreamOwner
<1>3. Holds(t) => UNCHANGED <<groups, stmt, kept, acc>>
  BY <1>1, <1>2, Typed DEF Locals, ClearLocals
<1>4. QED BY <1>0, <1>1, <1>3 DEF localVars

LEMMA AlignedStep ==
  ASSUME MySqlInv, [Next]_vars
  PROVE  Aligned'
<1> SUFFICES ASSUME doubt' = {} PROVE AlignedNow'
  BY DEF Aligned, AlignedNow
<1>0. /\ \A s \in {"idle", "waiting", "writing", "closing", "shutting"} : s \notin Using
      /\ doubt \cup {"decode"} # {} /\ doubt \cup {"timeout"} # {} /\ doubt \cup {"cut"} # {}
  BY DEF Using, OnStream, Reading, Writing, PrepareReads, ResultReads
<1>1. doubt = {}
  <2>1. \/ doubt' = doubt \/ \E d : doubt' = doubt \cup {d}
    BY DEF Next, Poll, Execute, PingClosed, CloseBegin, CloseTake, CloseEnd, Acquire, Write, Release,
           Released, Read, ReadAligned, ReadUndecodable, ReadLost, ReadEof, Timeout, WriteFails,
           Serve, Crash, vars
  <2>2. QED BY <2>1
<1>2. ASSUME NEW t \in Tasks, Timeout(t) PROVE AlignedNow'
  <2>1. /\ pc[t] \in {"waiting", "writing"} /\ Fail(t)
        /\ UNCHANGED <<toClient, toServer, prepared, verdict, alive>>
    BY <1>0, <1>2 DEF Timeout, serverVars
  <2>2. QED BY <2>1, <1>1, UnusedReturns, SameAligned DEF Fail
<1>3. ASSUME NEW t \in Tasks, Acquire(t) PROVE AlignedNow'
  <2>1. pc[t] = "waiting" /\ UNCHANGED <<toClient, toServer, prepared, verdict, alive>>
    BY <1>3 DEF Acquire, serverVars, wireVars
  <2>2. CASE Fail(t)
    BY <2>1, <2>2, <1>1, UnusedReturns, SameAligned DEF Fail
  <2>3. CASE Goto(t, "writing") /\ UNCHANGED localVars
    <3>1. /\ eofs' = eofs
          /\ \A u \in Tasks : \/ pc'[u] = pc[u] /\ req'[u] = req[u]
                              \/ pc[u] \notin Using /\ pc'[u] \notin Using
      BY <2>1, <2>3, <1>0, GotoFacts
    <3>2. QED BY <3>1, <2>1, <2>3, <1>1, SameAligned DEF localVars
  <2>4. QED BY <2>2, <2>3, <1>3 DEF Acquire
<1>4. ASSUME NEW t \in Tasks, Execute(t) \/ CloseBegin(t) \/ CloseTake(t) \/ CloseEnd(t) PROVE AlignedNow'
  <2>1. UNCHANGED <<groups, stmt, kept, acc, eofs, toServer, toClient, prepared, verdict, alive>>
    BY <1>4 DEF Execute, CloseBegin, CloseTake, CloseEnd, localVars, serverVars, wireVars
  <2>2. \A u \in Tasks : \/ pc'[u] = pc[u] /\ req'[u] = req[u]
                         \/ pc[u] \notin Using /\ pc'[u] \notin Using
    BY <1>4, <1>0, Typed DEF Execute, CloseBegin, CloseTake, CloseEnd
  <2>3. QED BY <2>1, <2>2, <1>1, SameAligned
<1>5. ASSUME (\E t \in Tasks : PingClosed(t)) \/ Crash \/ UNCHANGED vars PROVE AlignedNow'
  <2>1. /\ UNCHANGED <<pc, req, groups, stmt, kept, acc, eofs, toServer, toClient, prepared, verdict>>
        /\ alive' => alive
    BY <1>5 DEF PingClosed, Crash, vars, clientVars, localVars, serverVars, wireVars
  <2>2. QED BY <2>1, <1>1, SameAligned
<1>6. QED
  BY <1>1, <1>2, <1>3, <1>4, <1>5, WriteAligned, ReleaseAligned, ReadKeepsAligned, ServeAligned
  DEF Next, Poll

-----------------------------------------------------------------------------
(* The theorems.                                                           *)

LEMMA MySqlInit == Init => MySqlInv
<1> SUFFICES ASSUME Init PROVE MySqlInv
  OBVIOUS
<1>0. /\ pc = [t \in Tasks |-> "idle"] /\ req = [t \in Tasks |-> 0] /\ result = [t \in Tasks |-> NoResult]
      /\ issued = 0 /\ queue = <<>> /\ stream = "open" /\ connected = TRUE /\ eofs \in BOOLEAN
      /\ groups = 0 /\ stmt = FALSE /\ kept = NoResult /\ acc = {}
      /\ toServer = <<>> /\ toClient = <<>> /\ alive = TRUE /\ prepared = {}
      /\ verdict = [r \in Ids |-> "none"] /\ doubt = {}
  BY DEF Init
<1>1. /\ \A s \in {"idle"} : s \notin OnStream /\ s \notin Using /\ s \notin Calling
      /\ PrepareReads \subseteq OnStream /\ Reading \subseteq OnStream
      /\ \A s \in {"prepare", "p_defs", "p_eof", "executing", "releasing", "writing"} : s \in OnStream
      /\ DOMAIN <<>> = {}
  BY DEF Using, OnStream, Calling, Reading, Writing, PrepareReads, ResultReads
<1>2. <<>> \in Seq(Tasks) /\ <<>> \in Seq(Requests) /\ <<>> \in Seq(Replies)
  OBVIOUS
<1>3. MutexType /\ StreamOwner
  BY <1>0, <1>1, <1>2 DEF MutexType, StreamOwner, Once, Queues, Phases
<1>4. 0 \in 0..MaxReq /\ 0 \in 0..2 /\ MaxReq \in Nat
  BY MySqlAssumption
<1>5. TypeOK
  BY <1>0, <1>2, <1>3, <1>4, TypeParts, ResultTypes
  DEF Types, CallerType, RunType, WireType, ServerType, DoubtType
<1>6. OwnStatements
  BY <1>0, <1>1 DEF OwnStatements
<1>7. UpToIssued
  BY <1>0, <1>1, <1>4 DEF UpToIssued
<1>8. CommandsOnce /\ RunsOnce
  BY <1>0, <1>1 DEF CommandsOnce, RunsOnce, OnStream, Calling, PrepareReads
<1>9. Locals
  BY <1>0, <1>1 DEF Locals
<1>10. InStep /\ Told /\ InUse
  BY <1>0, <1>1 DEF InStep, Told, InUse, OnlyCloses
<1>11. QED BY <1>3, <1>5, <1>6, <1>7, <1>8, <1>9, <1>10 DEF MySqlInv, Aligned

\* The inductive invariant: one user of the stream, each call with a statement
\* of its own, each command sent and run once, and, until a call is cut short or
\* a packet does not decode, a stream that holds exactly what the reader expects.
THEOREM MySqlInvariant == Spec => []MySqlInv
<1>1. ASSUME MySqlInv, [Next]_vars PROVE MySqlInv'
  <2>1. MutexType' /\ StreamOwner'
    BY <1>1, Typed, OwnerStep
  <2>2. Types'
    BY <1>1, Typed, TypesStep
  <2>3. TypeOK'
    BY <2>1, <2>2, TypePartsNext
  <2>4. QED BY <2>1, <2>3, <1>1, BasicStep, LocalsStep, AlignedStep DEF MySqlInv, Basic
<1>2. QED BY <1>1, MySqlInit, PTL DEF Spec

\* The invariant of types alone, for the clones of any number of tasks.
THEOREM MySqlTypeOK == Spec => []TypeOK
<1>1. MySqlInv => TypeOK
  BY DEF MySqlInv
<1>2. QED BY <1>1, MySqlInvariant, PTL

\* Whatever the server answered, errors included, a call that returns has read its
\* answer to the last packet, and the packet a reader takes is one its loop knows.
THEOREM MySqlLockstep == Spec => []Lockstep
<1>1. ASSUME MySqlInv PROVE Lockstep
  <2> SUFFICES ASSUME doubt = {}
               PROVE  /\ ~Busy => /\ toClient = <<>>
                                  /\ alive => \A i \in DOMAIN toServer : toServer[i].k = "CLOSE"
                      /\ \A t \in Tasks : pc[t] \in Reading /\ toClient # <<>> =>
                           Head(toClient).k \in
                             CASE pc[t] = "prepare" -> {"PREPARED", "ERR"}
                               [] pc[t] \in {"p_defs", "cols"} -> {"DEFS"}
                               [] pc[t] \in {"p_eof", "c_eof"} -> {"EOF"}
                               [] pc[t] = "first" -> {"OK", "ERR", "COUNT"}
                               [] pc[t] = "pong"  -> {"OK", "ERR"}
                               [] pc[t] = "rows"  -> {"ROW", "END", "ERR"}
    BY DEF Lockstep
  <2>1. ~Busy => \A t \in Tasks : pc[t] \notin Using
    BY DEF Busy, Using, OnStream
  <2>2. ~Busy => toClient = <<>> /\ OnlyCloses
    BY <1>1, <2>1, AlignedFacts DEF InStep
  <2>3. ASSUME NEW t \in Tasks, pc[t] \in Reading, toClient # <<>>
        PROVE  Head(toClient).k \in
                 CASE pc[t] = "prepare" -> {"PREPARED", "ERR"}
                   [] pc[t] \in {"p_defs", "cols"} -> {"DEFS"}
                   [] pc[t] \in {"p_eof", "c_eof"} -> {"EOF"}
                   [] pc[t] = "first" -> {"OK", "ERR", "COUNT"}
                   [] pc[t] = "pong"  -> {"OK", "ERR"}
                   [] pc[t] = "rows"  -> {"ROW", "END", "ERR"}
    <3> DEFINE r == req[t]
               h == Head(toClient)
    <3>1. r \in Ids
      BY <1>1, <2>3, OneUser DEF OnStream
    <3>2. toClient \in Awaited(pc[t], r)
      BY <1>1, <2>3, AlignedFacts DEF InStep
    <3>3. /\ \A k \in {"OK", "ERR", "COUNT", "EOF", "DEFS", "ROW", "END"} : P(k, r).k = k
          /\ \A n \in 0..2 : Packet("PREPARED", r, n).k = "PREPARED"
      BY DEF P, Packet
    <3>4. groups \in 0..2 /\ (pc[t] \in {"p_defs", "p_eof"} => groups \in 1..2)
      BY <1>1, Typed DEF Types, RunType, Locals
    <3>5. CASE pc[t] = "prepare"
      <4>1. toClient \in PrepareOf(r)
        BY <3>2, <3>5 DEF Awaited
      <4>2. h = P("ERR", r) \/ \E n \in 0..2 : h = Packet("PREPARED", r, n)
        BY <4>1, <3>1, PreparePackets
      <4>3. QED BY <4>2, <3>3, <3>5
    <3>6. CASE pc[t] = "p_defs"
      <4>1. toClient = GroupsOf(r, groups)
        BY <3>2, <3>6 DEF Awaited
      <4>2. h = P("DEFS", r)
        BY <4>1, <3>1, <3>4, <3>6, PreparePackets
      <4>3. QED BY <4>2, <3>3, <3>6
    <3>7. CASE pc[t] = "p_eof"
      <4>1. toClient = <<P("EOF", r)>> \o GroupsOf(r, groups - 1)
        BY <3>2, <3>7 DEF Awaited
      <4>2. \A n \in 1..2 : Head(<<P("EOF", r)>> \o GroupsOf(r, n - 1)) = P("EOF", r)
        BY <3>1, PreparePackets
      <4>3. h = P("EOF", r)
        BY <4>1, <4>2, <3>4, <3>7
      <4>4. QED BY <4>3, <3>3, <3>7
    <3>8. CASE pc[t] = "first"
      <4>1. toClient \in FirstOf(r)
        BY <3>2, <3>8 DEF Awaited
      <4>2. h \in {P("OK", r), P("ERR", r), P("COUNT", r)}
        BY <4>1, <3>1, AnswerPackets
      <4>3. QED BY <4>2, <3>3, <3>8
    <3>9. CASE pc[t] = "pong"
      <4>1. toClient = <<P("OK", r)>>
        BY <3>2, <3>9 DEF Awaited
      <4>2. QED BY <4>1, <3>3, <3>9
    <3>10. CASE pc[t] = "cols"
      <4>1. toClient \in ColsOf(r)
        BY <3>2, <3>10 DEF Awaited
      <4>2. h = P("DEFS", r)
        BY <4>1, <3>1, AnswerPackets
      <4>3. QED BY <4>2, <3>3, <3>10
    <3>11. CASE pc[t] = "c_eof"
      <4>1. toClient \in EofOf(r)
        BY <3>2, <3>11 DEF Awaited
      <4>2. h = P("EOF", r)
        BY <4>1, <3>1, AnswerPackets
      <4>3. QED BY <4>2, <3>3, <3>11
    <3>12. CASE pc[t] = "rows"
      <4>1. toClient \in RowsOf(r)
        BY <3>2, <3>12 DEF Awaited
      <4>2. h \in {P("END", r), P("ERR", r), P("ROW", r)}
        BY <4>1, <3>1, AnswerPackets
      <4>3. QED BY <4>2, <3>3, <3>12
    <3>13. QED
      BY <2>3, <3>5, <3>6, <3>7, <3>8, <3>9, <3>10, <3>11, <3>12 DEF Reading, PrepareReads, ResultReads
  <2>4. QED BY <2>2, <2>3 DEF OnlyCloses
<1>2. QED BY <1>1, MySqlInvariant, PTL

\* As long as no call was cut short and every packet decoded, a statement the
\* server keeps prepared is in use or its close is under way: none leaks.
THEOREM MySqlStatementsClosed == Spec => []StatementsClosed
<1>1. ASSUME MySqlInv PROVE StatementsClosed
  <2>1. \A t \in Tasks : pc[t] \in Using => Holds(t)
    BY <1>1, OneUser DEF Using
  <2>2. QED BY <1>1, <2>1, AlignedFacts DEF StatementsClosed, InUse
<1>2. QED BY <1>1, MySqlInvariant, PTL

-----------------------------------------------------------------------------
(* MySqlConnection implements DbSession: every step is a step of a session, *)
(* or leaves it alone.                                                     *)

Steps == [Session!Next]_(Session!vars)

LEMMA SameSession ==
  ASSUME UNCHANGED <<req, issued, verdict, result, stream, doubt>>
  PROVE  Steps
BY DEF Steps, Session!vars

\* A call returns an error, or an answer that is its own while nothing is in doubt.
Good(t, res) == /\ \E from \in SUBSET (0..MaxReq) : res = [st |-> "ok", from |-> from]
                /\ doubt = {} => res.from = {req[t]} /\ verdict[req[t]] = "done"

LEMMA ErrIsSession ==
  ASSUME NEW t \in Tasks, Fail(t), req[t] # 0, verdict' = verdict, doubt \subseteq doubt'
  PROVE  Steps
<1>1. /\ result' = [result EXCEPT ![t] = [st |-> "err", from |-> {}]]
      /\ req' = [req EXCEPT ![t] = 0] /\ UNCHANGED <<issued, stream>>
  BY DEF Fail, Return, ErrResult
<1>2. (doubt = {})' = (doubt = {}) \/ (doubt = {})' = FALSE
  <2>1. doubt' = {} => doubt = {}
    OBVIOUS
  <2>2. QED BY <2>1
<1>3. Session!ReturnErr(t)
  BY <1>1, <1>2 DEF Session!ReturnErr
<1>4. QED BY <1>3 DEF Steps, Session!Next

LEMMA OkIsSession ==
  ASSUME NEW t \in Tasks, NEW res, Return(t, res), Good(t, res), req[t] # 0, stream = "open",
         verdict' = verdict, doubt' = doubt
  PROVE  Steps
<1>1. PICK from \in SUBSET (0..MaxReq) : res = [st |-> "ok", from |-> from]
  BY DEF Good
<1>2. /\ result' = [result EXCEPT ![t] = [st |-> "ok", from |-> from]]
      /\ req' = [req EXCEPT ![t] = 0] /\ UNCHANGED <<issued, stream>>
  BY <1>1 DEF Return
<1>3. doubt = {} => from = {req[t]} /\ verdict[req[t]] = "done"
  BY <1>1 DEF Good
<1>4. Session!ReturnOk(t)
  BY <1>2, <1>3 DEF Session!ReturnOk
<1>5. QED BY <1>4 DEF Steps, Session!Next

\* A call with a statement to close first does not return yet.
LEMMA FinishIsSession ==
  ASSUME NEW t \in Tasks, NEW res, Finish(t, res), req[t] # 0, stream = "open",
         stmt \/ res = ErrResult \/ Good(t, res), verdict' = verdict, doubt' = doubt
  PROVE  Steps
<1>1. CASE Goto(t, "releasing")
  BY <1>1, SameSession DEF Goto
<1>2. CASE ~stmt /\ Return(t, res)
  BY <1>2, ErrIsSession, OkIsSession DEF Fail
<1>3. QED BY <1>1, <1>2 DEF Finish

LEMMA ReleasedIsSession ==
  ASSUME MySqlInv, NEW t \in Tasks, pc[t] = "releasing", Released(t), verdict' = verdict
  PROVE  Steps
<1>0. pc[t] \in OnStream /\ pc[t] \in Using
  BY DEF OnStream, Using, Writing
<1>1. req[t] # 0 /\ stream = "open"
  BY <1>0, OneUser, Typed DEF StreamOwner
<1>2. CASE kept = Spoilt
  <2>1. Fail(t) /\ doubt \subseteq doubt'
    BY <1>2 DEF Released, Fail
  <2>2. QED BY <2>1, <1>1, ErrIsSession
<1>3. CASE kept # Spoilt
  <2>1. Return(t, kept) /\ doubt' = doubt
    BY <1>3 DEF Released
  <2>2. kept.st = "ok" \/ kept = ErrResult
    BY <1>3, Typed DEF Locals
  <2>3. CASE kept = ErrResult
    BY <2>1, <2>3, <1>1, ErrIsSession DEF Fail
  <2>4. CASE kept.st = "ok"
    <3>1. kept \in Results
      BY Typed DEF Types, RunType
    <3>2. kept = [st |-> "ok", from |-> kept.from] /\ kept.from \in SUBSET (0..MaxReq)
      BY <2>4, <3>1 DEF Results
    <3>3. doubt = {} => kept.from = {req[t]} /\ verdict[req[t]] = "done"
      BY <2>4, <1>0, AlignedFacts DEF Told
    <3>4. Good(t, kept)
      BY <3>2, <3>3 DEF Good
    <3>5. QED BY <3>4, <2>1, <1>1, OkIsSession
  <2>5. QED BY <2>2, <2>3, <2>4
<1>4. QED BY <1>2, <1>3

\* An answer read in step is about the caller's statement, which has run.
LEMMA OwnAnswer ==
  ASSUME MySqlInv, NEW t \in Tasks, pc[t] \in ResultReads, doubt = {}, toClient # <<>>,
         Head(toClient).k \in {"OK", "END"}
  PROVE  acc \cup {Head(toClient).of} = {req[t]} /\ verdict[req[t]] = "done"
<1> DEFINE r == req[t]
           m == Head(toClient)
<1>1. pc[t] \in Reading /\ pc[t] \in OnStream /\ pc[t] \in Using
  BY DEF Reading, OnStream, Using, Writing, PrepareReads, ResultReads
<1>2. toClient \in Awaited(pc[t], r) /\ r \in Ids /\ acc \subseteq {r}
  BY <1>1, AlignedFacts, OneUser DEF InStep, Told
<1>3. m = toClient[1] /\ 1 \in DOMAIN toClient
  BY Typed, ReadFront
<1>4. \A S \in {FirstOf(r), ColsOf(r), EofOf(r), RowsOf(r)} : \A s \in S : s \in Seq(About(r))
  BY <1>2, AnswerPackets
<1>5. toClient \in Seq(About(r))
  <2>1. <<P("OK", r)>> \in Seq(About(r))
    <3>1. P("OK", r) \in About(r)
      BY <1>2, PacketFacts DEF P, Packets
    <3>2. QED BY <3>1
  <2>2. QED BY <1>2, <1>4, <2>1 DEF Awaited, ResultReads
<1>6. m.of = r
  BY <1>2, <1>3, <1>5, AboutFacts
<1>7. verdict[r] = "done"
  BY <1>3, <1>6, AlignedFacts DEF Told
<1>8. QED BY <1>2, <1>6, <1>7

LEMMA ReadIsSession ==
  ASSUME MySqlInv, NEW t \in Tasks, Read(t)
  PROVE  Steps
<1>0. verdict' = verdict /\ pc[t] \in Reading /\ req[t] # 0 /\ stream = "open" /\ req[t] \in Ids
  <2>1. verdict' = verdict /\ pc[t] \in Reading
    BY DEF Read, serverVars
  <2>2. pc[t] \in OnStream
    BY <2>1 DEF OnStream
  <2>3. QED BY <2>1, <2>2, OneUser, Typed DEF StreamOwner
<1>1. ASSUME Fail(t), doubt \subseteq doubt' PROVE Steps
  BY <1>0, <1>1, ErrIsSession
<1>2. ASSUME NEW phase, Goto(t, phase), doubt' = doubt PROVE Steps
  BY <1>0, <1>2, SameSession DEF Goto
<1>3. ASSUME NEW res, Finish(t, res), stmt \/ res = ErrResult \/ Good(t, res), doubt' = doubt PROVE Steps
  BY <1>0, <1>3, FinishIsSession
<1>4. acc \in SUBSET (0..MaxReq) /\ 0 \in 0..MaxReq
  BY Typed, ResultTypes DEF Types, RunType
<1>5. CASE ReadAligned(t)
  <2> DEFINE m == Head(toClient)
             done == [st |-> "ok", from |-> acc \cup {m.of}]
  <2>1. doubt = {} /\ toClient # <<>> /\ m.of \in 0..MaxReq
    BY <1>5, FrontTypes, ResultTypes, Typed DEF ReadAligned
  <2>2. CASE ReadPrepare(t, m) /\ UNCHANGED doubt
    <3>1. Fail(t) \/ \E phase : Goto(t, phase)
      BY <2>2 DEF ReadPrepare, NextGroup
    <3>2. QED BY <3>1, <2>2, <1>1, <1>2
  <2>3. CASE ReadResult(t, m) /\ UNCHANGED doubt
    <3>1. \/ pc[t] \in ResultReads /\ m.k \in {"OK", "END"} /\ Finish(t, done)
          \/ Finish(t, ErrResult)
          \/ \E phase : Goto(t, phase)
      BY <2>3 DEF ReadResult, ResultReads
    <3>2. pc[t] \in ResultReads /\ m.k \in {"OK", "END"} => Good(t, done)
      <4>1. acc \cup {m.of} \in SUBSET (0..MaxReq)
        BY <1>4, <2>1
      <4>2. done.from = acc \cup {m.of}
        OBVIOUS
      <4>3. QED BY <4>1, <4>2, <2>1, OwnAnswer DEF Good
    <3> HIDE DEF done
    <3>3. QED BY <3>1, <3>2, <2>3, <1>2, <1>3
  <2>4. CASE ReadUndecodable(t, m)
    <3>1. \/ Fail(t) /\ doubt \subseteq doubt'
          \/ stmt /\ Finish(t, Spoilt) /\ doubt' = doubt
      BY <2>4 DEF ReadUndecodable
    <3>2. QED BY <3>1, <1>1, <1>3
  <2>5. QED BY <1>5, <2>2, <2>3, <2>4 DEF ReadAligned
<1>6. CASE ReadLost(t)
  <2> DEFINE res == [st |-> "ok", from |-> acc \cup {0}]
  <2>1. doubt # {} /\ doubt' = doubt
    BY <1>6 DEF ReadLost
  <2>2. Good(t, res)
    <3>1. acc \cup {0} \in SUBSET (0..MaxReq)
      BY <1>4
    <3>2. QED BY <3>1, <2>1 DEF Good
  <2>3. Fail(t) \/ Goto(t, "executing") \/ Finish(t, ErrResult) \/ Finish(t, res)
    BY <1>6 DEF ReadLost
  <2> HIDE DEF res
  <2>4. QED BY <2>1, <2>2, <2>3, <1>1, <1>2, <1>3
<1>7. CASE ReadEof(t)
  <2>1. (Fail(t) \/ Finish(t, ErrResult)) /\ doubt' = doubt
    BY <1>7 DEF ReadEof
  <2>2. QED BY <2>1, <1>1, <1>3
<1>8. QED BY <1>5, <1>6, <1>7 DEF Read

LEMMA ServeIsSession ==
  ASSUME MySqlInv, Serve
  PROVE  Steps
<1> DEFINE m == toServer[1]
<1>1. PICK ms : Responds(m, ms)
  BY Typed, ServeFacts
<1>2. /\ UNCHANGED <<req, issued, result, stream, doubt>> /\ toServer # <<>> /\ m.of \in Ids
      /\ Ran(m, ms) \/ Readied(m, ms) \/ Unknown(m, ms) \/ Closed(m, ms)
  BY <1>1 DEF Responds, clientVars
<1>3. CASE verdict' = verdict
  BY <1>2, <1>3, SameSession
<1>4. CASE Ran(m, ms)
  <2>1. 1 \in DOMAIN toServer /\ toServer[1] = m
    BY <1>2, Typed, ReadFront
  <2>2. m.of <= issued
    BY <2>1 DEF MySqlInv, UpToIssued
  <2>3. m.k = "EXECUTE" /\ m.of \in prepared => m.of \in Preparable
    BY DEF Preparable
  <2>4. verdict[m.of] = "none"
    BY <2>1, <2>3, <1>4 DEF Ran, MySqlInv, RunsOnce
  <2>5. \E v \in {"done", "failed"} : verdict' = [verdict EXCEPT ![m.of] = v]
    BY <1>4 DEF Ran
  <2> HIDE DEF m
  <2>6. Session!Run(m.of)
    BY <2>2, <2>4, <2>5, <1>2 DEF Session!Run
  <2>7. QED BY <2>6, <1>2 DEF Steps, Session!Next, Session!Ids, Ids
<1>5. QED BY <1>2, <1>3, <1>4 DEF Readied, Unknown, Closed

LEMMA StepIsSession ==
  ASSUME MySqlInv, [Next]_vars
  PROVE  Steps
<1>0. /\ \A t \in Tasks : pc[t] = "idle" => req[t] = 0
      /\ \A t \in Tasks : pc[t] \in Calling => req[t] # 0
      /\ \A t \in Tasks : pc[t] \in OnStream => stream = "open"
  <2>1. "idle" \notin Calling
    BY DEF Calling, Reading, Writing, PrepareReads, ResultReads
  <2>2. QED BY <2>1, Typed DEF OwnStatements, StreamOwner
<1>1. ASSUME NEW t \in Tasks, Execute(t) PROVE Steps
  <2>1. Session!Begin(t)
    BY <1>0, <1>1 DEF Execute, serverVars, Session!Begin, Session!NoResult, NoResult
  <2>2. QED BY <2>1 DEF Steps, Session!Next
<1>2. ASSUME NEW t \in Tasks, PingClosed(t) PROVE Steps
  <2>1. stream # "open"
    BY <1>2, Typed DEF PingClosed, StreamOwner
  <2>2. Session!Refuse(t)
    BY <2>1, <1>0, <1>2 DEF PingClosed, serverVars, ErrResult, Session!Refuse
  <2>3. QED BY <2>2 DEF Steps, Session!Next
<1>3. ASSUME NEW t \in Tasks, pc[t] \in Calling, Fail(t), UNCHANGED serverVars, doubt \subseteq doubt'
      PROVE  Steps
  BY <1>0, <1>3, ErrIsSession DEF serverVars
<1>4. ASSUME NEW t \in Tasks, NEW phase, Goto(t, phase), UNCHANGED <<serverVars, doubt>> PROVE Steps
  BY <1>4, SameSession DEF Goto, serverVars
<1>5. ASSUME NEW t \in Tasks, Acquire(t) \/ Write(t) PROVE Steps
  BY <1>3, <1>4, <1>5 DEF Acquire, Write, Calling
<1>6. ASSUME NEW t \in Tasks, Timeout(t) PROVE Steps
  <2>1. pc[t] \in Calling /\ Fail(t) /\ UNCHANGED serverVars /\ doubt \subseteq doubt'
    BY <1>6 DEF Timeout
  <2>2. QED BY <2>1, <1>3
<1>7. ASSUME NEW t \in Tasks, WriteFails(t) \/ Release(t) PROVE Steps
  <2>1. UNCHANGED serverVars /\ verdict' = verdict
    BY <1>7 DEF WriteFails, Release, serverVars
  <2>2. "writing" \in Calling /\ "executing" \in Calling /\ "executing" \in OnStream
    BY DEF Calling, OnStream, Writing
  <2>3. CASE pc[t] = "writing" /\ Fail(t) /\ UNCHANGED doubt
    BY <2>1, <2>2, <2>3, <1>3
  <2>4. CASE pc[t] = "executing" /\ Finish(t, ErrResult) /\ UNCHANGED doubt
    BY <2>1, <2>2, <2>4, <1>0, FinishIsSession
  <2>5. CASE pc[t] = "releasing" /\ Released(t)
    BY <2>1, <2>5, ReleasedIsSession
  <2>6. QED BY <2>3, <2>4, <2>5, <1>7 DEF WriteFails, Release
<1>8. ASSUME NEW t \in Tasks, CloseBegin(t) \/ CloseEnd(t) PROVE Steps
  BY <1>8, SameSession DEF CloseBegin, CloseEnd, serverVars
<1>9. ASSUME NEW t \in Tasks, CloseTake(t) PROVE Steps
  <2>1. stream' = "none" /\ UNCHANGED <<req, result, issued, verdict, doubt>>
    BY <1>9 DEF CloseTake, serverVars
  <2>2. CASE stream = "open"
    <3>1. Session!Close
      BY <2>1, <2>2 DEF Session!Close
    <3>2. QED BY <3>1 DEF Steps, Session!Next
  <2>3. CASE stream # "open"
    BY <2>1, <2>3 DEF Steps, Session!vars
  <2>4. QED BY <2>2, <2>3
<1>10. ASSUME Crash \/ UNCHANGED vars PROVE Steps
  BY <1>10, SameSession DEF Crash, vars, clientVars, serverVars
<1>11. QED
  BY <1>1, <1>2, <1>5, <1>6, <1>7, <1>8, <1>9, <1>10, ReadIsSession, ServeIsSession DEF Next, Poll

\* The MySQL connection is the session its users are promised, as PostgreSQL's is:
\* a statement runs at most once, an answer is the caller's own until a call was
\* cut short or a packet did not decode, and a closed session answers nothing.
THEOREM MySqlIsSession == Spec => IsSession
<1>1. Init => Session!Init
  BY DEF Init, Session!Init, Session!NoResult, NoResult, Session!Ids, Ids
<1>2. MySqlInv /\ [Next]_vars => [Session!Next]_(Session!vars)
  BY StepIsSession DEF Steps
<1>3. QED BY MySqlInvariant, <1>1, <1>2, PTL DEF Spec, IsSession, Session!Spec
=============================================================================
