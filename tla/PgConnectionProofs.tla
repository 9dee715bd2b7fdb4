------------------------ MODULE PgConnectionProofs ------------------------
(***************************************************************************)
(* Theorems of PgConnection for every set of tasks and every bound: the    *)
(* ownership of the stream and type correctness; then what the connection  *)
(* promises its callers: it implements DbSession, an Ok answer is put      *)
(* together from one statement, and a stream that was left in doubt never  *)
(* recovers.                                                               *)
(***************************************************************************)
EXTENDS PgConnection, SequenceLemmas

-----------------------------------------------------------------------------
(* Leaving the mutex's queue.                                              *)

\* The part of StreamOwner that is about the queue alone.
NoDuplicates == Once(queue)
Queued(t)    == Queues(queue, t)

\* Who leaves was in the queue once; the others keep their order, and the guard.
LEMMA LeaveFacts ==
  ASSUME queue \in Seq(Tasks), NoDuplicates, NEW t \in Tasks, Leave(t)
  PROVE  /\ queue' \in Seq(Tasks)
         /\ NoDuplicates'
         /\ \A u \in Tasks : Queued(u)' <=> (u # t /\ Queued(u))
         /\ \A u \in Tasks : u # t /\ Holds(u) => Holds(u)'
<1>1. PICK i \in DOMAIN queue : queue[i] = t /\ queue' = RemoveAt(queue, i)
  BY DEF Leave
<1>2. /\ RemoveAt(queue, i) \in Seq(Tasks)
      /\ Once(RemoveAt(queue, i))
      /\ \A u : Queues(RemoveAt(queue, i), u) <=> (u # queue[i] /\ Queues(queue, u))
      /\ queue[1] # queue[i] => RemoveAt(queue, i) # <<>> /\ Head(RemoveAt(queue, i)) = queue[1]
  BY <1>1, LeaveQueue DEF NoDuplicates
<1>3. \A u \in Tasks : Holds(u) => queue[1] = u
  BY DEF Holds
<1>4. QED BY <1>1, <1>2, <1>3 DEF NoDuplicates, Queued, Holds

\* Joining at the end disturbs nobody.
LEMMA AppendFacts ==
  ASSUME queue \in Seq(Tasks), NoDuplicates, NEW t \in Tasks, ~Queued(t),
         queue' = Append(queue, t)
  PROVE  /\ queue' \in Seq(Tasks)
         /\ NoDuplicates'
         /\ \A u \in Tasks : Queued(u)' <=> (u = t \/ Queued(u))
         /\ \A u \in Tasks : Holds(u) => Holds(u)'
<1>1. /\ Append(queue, t) \in Seq(Tasks)
      /\ Once(Append(queue, t))
      /\ \A u : Queues(Append(queue, t), u) <=> (u = t \/ Queues(queue, u))
      /\ queue # <<>> => Append(queue, t) # <<>> /\ Head(Append(queue, t)) = queue[1]
  BY JoinQueue DEF NoDuplicates, Queued
<1>2. \A u \in Tasks : Holds(u) => queue[1] = u
  BY DEF Holds
<1>3. QED BY <1>1, <1>2 DEF NoDuplicates, Queued, Holds

-----------------------------------------------------------------------------
(* Ownership of the stream.                                                *)

\* The inductive invariant: the types the ownership argument reads, and
\* StreamOwner with its queue part named.
MutexType ==
  /\ pc \in [Tasks -> Phases]
  /\ queue \in Seq(Tasks)

LEMMA StreamOwnerParts ==
  StreamOwner <=>
    /\ NoDuplicates
    /\ \A t \in Tasks : pc[t] # "idle" <=> Queued(t)
    /\ \A t \in Tasks : pc[t] \in OnStream \cup {"shutting"} => Holds(t)
    /\ \A t \in Tasks : pc[t] \in OnStream => stream = "open"
    /\ \A t \in Tasks : pc[t] = "shutting" => stream = "none"
    /\ ~connected => stream = "none"
BY DEF StreamOwner, NoDuplicates, Queued, Once, Queues

LEMMA OneHolder ==
  ASSUME MutexType, NEW t \in Tasks, NEW u \in Tasks, Holds(t), Holds(u)
  PROVE  t = u
BY DEF Holds

\* A task that returns leaves the queue and goes idle; nothing else moves.
LEMMA ReturnKeeps ==
  ASSUME MutexType, StreamOwner, NEW t \in Tasks,
         pc' = [pc EXCEPT ![t] = "idle"], Leave(t), stream' = stream,
         (connected' = connected) \/ (stream = "none" /\ connected' = FALSE)
  PROVE  MutexType' /\ StreamOwner'
<1>1. NoDuplicates
  BY StreamOwnerParts
<1>2. /\ queue' \in Seq(Tasks)
      /\ NoDuplicates'
      /\ \A u \in Tasks : Queued(u)' <=> (u # t /\ Queued(u))
      /\ \A u \in Tasks : u # t /\ Holds(u) => Holds(u)'
  BY <1>1, LeaveFacts DEF MutexType
<1>3. MutexType'
  BY <1>2 DEF MutexType, Phases
<1>4. ASSUME NEW u \in Tasks
      PROVE  /\ pc'[u] # "idle" <=> Queued(u)'
             /\ pc'[u] \in OnStream \cup {"shutting"} => Holds(u)'
             /\ pc'[u] \in OnStream => stream' = "open"
             /\ pc'[u] = "shutting" => stream' = "none"
  <2>1. CASE u = t
    BY <2>1, <1>2 DEF MutexType, OnStream
  <2>2. CASE u # t
    <3>1. pc'[u] = pc[u]
      BY <2>2 DEF MutexType
    <3>2. QED BY <3>1, <2>2, <1>2, StreamOwnerParts
  <2>3. QED BY <2>1, <2>2
<1>5. (~connected)' => stream' = "none"
  BY StreamOwnerParts
<1>6. QED
  <2>1. \A u \in Tasks : pc'[u] # "idle" <=> Queued(u)'
    BY <1>4
  <2>2. QED BY <1>2, <1>3, <1>4, <1>5, <2>1 DEF StreamOwner, NoDuplicates, Queued, Once, Queues

\* The holder moves on to another use of the stream.
LEMMA GotoKeeps ==
  ASSUME MutexType, StreamOwner, NEW t \in Tasks, NEW phase \in OnStream,
         Holds(t), pc[t] # "idle", stream = "open",
         pc' = [pc EXCEPT ![t] = phase], UNCHANGED <<queue, stream, connected>>
  PROVE  MutexType' /\ StreamOwner'
<1>1. MutexType'
  BY DEF MutexType, Phases, OnStream, Calling
<1>2. ASSUME NEW u \in Tasks
      PROVE  /\ pc'[u] # "idle" <=> pc[u] # "idle"
             /\ pc'[u] \in OnStream \cup {"shutting"} => Holds(u)
             /\ pc'[u] \in OnStream => stream = "open"
             /\ pc'[u] = "shutting" => stream = "none"
  <2>1. CASE u = t
    BY <2>1 DEF MutexType, OnStream
  <2>2. CASE u # t
    BY <2>2 DEF MutexType, StreamOwner
  <2>3. QED BY <2>1, <2>2
<1>3. \A u \in Tasks : Holds(u)' <=> Holds(u)
  BY DEF Holds
<1>4. QED BY <1>1, <1>2, <1>3 DEF StreamOwner

\* A task joins the queue.
LEMMA JoinKeeps ==
  ASSUME MutexType, StreamOwner, NEW t \in Tasks, NEW phase \in {"waiting", "closing"},
         pc[t] = "idle", pc' = [pc EXCEPT ![t] = phase], queue' = Append(queue, t),
         UNCHANGED <<stream, connected>>
  PROVE  MutexType' /\ StreamOwner'
<1>1. NoDuplicates /\ ~Queued(t)
  BY StreamOwnerParts
<1>2. /\ queue' \in Seq(Tasks)
      /\ NoDuplicates'
      /\ \A u \in Tasks : Queued(u)' <=> (u = t \/ Queued(u))
      /\ \A u \in Tasks : Holds(u) => Holds(u)'
  BY <1>1, AppendFacts DEF MutexType
<1>3. MutexType'
  BY <1>2 DEF MutexType, Phases, Calling
<1>4. ASSUME NEW u \in Tasks
      PROVE  /\ pc'[u] # "idle" <=> Queued(u)'
             /\ pc'[u] \in OnStream \cup {"shutting"} => Holds(u)'
             /\ pc'[u] \in OnStream => stream' = "open"
             /\ pc'[u] = "shutting" => stream' = "none"
  <2>1. CASE u = t
    BY <2>1, <1>2 DEF MutexType, OnStream
  <2>2. CASE u # t
    <3>1. pc'[u] = pc[u]
      BY <2>2 DEF MutexType
    <3>2. QED BY <3>1, <2>2, <1>2, StreamOwnerParts
  <2>3. QED BY <2>1, <2>2
<1>5. QED
  <2>1. \A u \in Tasks : pc'[u] # "idle" <=> Queued(u)'
    BY <1>4
  <2>2. QED BY <1>2, <1>3, <1>4, <2>1, StreamOwnerParts DEF StreamOwner, NoDuplicates, Queued, Once, Queues

LEMMA SameKeeps ==
  ASSUME MutexType, StreamOwner, UNCHANGED <<pc, queue, stream, connected>>
  PROVE  MutexType' /\ StreamOwner'
BY DEF MutexType, StreamOwner, Holds


\* Acquire and CloseTake are the two steps that check the guard.
LEMMA StepKeeps ==
  ASSUME MutexType, StreamOwner, [Next]_vars
  PROVE  MutexType' /\ StreamOwner'
<1>1. ASSUME NEW t \in Tasks, Fail(t)
      PROVE  MutexType' /\ StreamOwner'
  BY <1>1, ReturnKeeps DEF Fail, Return
<1>2. ASSUME NEW t \in Tasks, Execute(t)
      PROVE  MutexType' /\ StreamOwner'
  <2>1. /\ pc[t] = "idle" /\ pc' = [pc EXCEPT ![t] = "waiting"]
        /\ queue' = Append(queue, t) /\ UNCHANGED <<stream, connected>>
    BY <1>2 DEF Execute
  <2>2. QED BY <2>1, JoinKeeps
<1>3. ASSUME NEW t \in Tasks, PingClosed(t)
      PROVE  MutexType' /\ StreamOwner'
  BY <1>3, SameKeeps DEF PingClosed
<1>4. ASSUME NEW t \in Tasks, Acquire(t)
      PROVE  MutexType' /\ StreamOwner'
  <2>1. CASE Fail(t)
    BY <2>1, <1>1
  <2>2. CASE stream = "open" /\ Goto(t, "writing")
    <3>1. Holds(t) /\ pc[t] # "idle" /\ "writing" \in OnStream
      BY <1>4 DEF Acquire, OnStream
    <3>2. pc' = [pc EXCEPT ![t] = "writing"] /\ UNCHANGED <<queue, stream, connected>>
      BY <2>2 DEF Goto
    <3>3. QED BY <3>1, <3>2, <2>2, GotoKeeps
  <2>3. QED BY <2>1, <2>2, <1>4 DEF Acquire
<1>5. ASSUME NEW t \in Tasks, NEW phase \in {"syncing", "reading"},
             pc[t] \in OnStream, Goto(t, phase)
      PROVE  MutexType' /\ StreamOwner'
  <2>1. Holds(t) /\ pc[t] # "idle" /\ stream = "open" /\ phase \in OnStream
    BY <1>5 DEF OnStream, StreamOwner
  <2>2. pc' = [pc EXCEPT ![t] = phase] /\ UNCHANGED <<queue, stream, connected>>
    BY <1>5 DEF Goto
  <2>3. QED BY <2>1, <2>2, GotoKeeps
<1>6. ASSUME NEW t \in Tasks, Write(t) \/ WriteSync(t)
      PROVE  MutexType' /\ StreamOwner'
  <2>1. pc[t] \in OnStream
    BY <1>6 DEF Write, WriteSync, OnStream
  <2>2. Goto(t, "syncing") \/ Goto(t, "reading")
    BY <1>6 DEF Write, WriteSync
  <2>3. QED BY <2>1, <2>2, <1>5
<1>7. ASSUME NEW t \in Tasks, WriteFails(t) \/ Timeout(t) \/ TimeoutInWrite(t)
      PROVE  MutexType' /\ StreamOwner'
  BY <1>7, <1>1 DEF WriteFails, Timeout, TimeoutInWrite
<1>8. ASSUME NEW t \in Tasks, Read(t)
      PROVE  MutexType' /\ StreamOwner'
  <2>1. \/ UNCHANGED clientVars
        \/ Fail(t)
        \/ \E from : Return(t, "ok", from)
    BY <1>8 DEF Read, ReadAligned, ReadTorn, ReadEof
  <2>2. CASE UNCHANGED clientVars
    BY <2>2, SameKeeps DEF clientVars
  <2>3. CASE \E from : Return(t, "ok", from)
    BY <2>3, ReturnKeeps DEF Return
  <2>4. QED BY <2>1, <2>2, <2>3, <1>1
<1>9. ASSUME NEW t \in Tasks, CloseBegin(t)
      PROVE  MutexType' /\ StreamOwner'
  <2>1. /\ pc[t] = "idle" /\ pc' = [pc EXCEPT ![t] = "closing"]
        /\ queue' = Append(queue, t) /\ UNCHANGED <<stream, connected>>
    BY <1>9 DEF CloseBegin
  <2>2. QED BY <2>1, JoinKeeps
<1>10. ASSUME NEW t \in Tasks, CloseTake(t)
       PROVE  MutexType' /\ StreamOwner'
  <2>1. /\ pc[t] = "closing" /\ Holds(t) /\ stream' = "none"
        /\ pc' = [pc EXCEPT ![t] = "shutting"] /\ UNCHANGED <<queue, connected>>
    BY <1>10 DEF CloseTake
  <2>2. MutexType'
    BY <2>1 DEF MutexType, Phases
  <2>3. ASSUME NEW u \in Tasks
        PROVE  /\ pc'[u] # "idle" <=> pc[u] # "idle"
               /\ pc'[u] \in OnStream \cup {"shutting"} => Holds(u)
               /\ pc'[u] \notin OnStream
    <3>1. CASE u = t
      BY <3>1, <2>1 DEF MutexType, OnStream
    <3>2. CASE u # t
      <4>1. pc'[u] = pc[u]
        BY <3>2, <2>1 DEF MutexType
      <4>2. ~Holds(u)
        BY <3>2, <2>1, OneHolder
      <4>3. QED BY <4>1, <4>2 DEF StreamOwner
    <3>3. QED BY <3>1, <3>2
  <2>4. \A u \in Tasks : Holds(u)' <=> Holds(u)
    BY <2>1 DEF Holds
  <2>5. QED BY <2>1, <2>2, <2>3, <2>4 DEF StreamOwner
<1>11. ASSUME NEW t \in Tasks, CloseEnd(t)
       PROVE  MutexType' /\ StreamOwner'
  <2>1. /\ pc[t] = "shutting" /\ connected' = FALSE /\ stream' = stream
        /\ pc' = [pc EXCEPT ![t] = "idle"] /\ Leave(t)
    BY <1>11 DEF CloseEnd
  <2>2. stream = "none"
    BY <2>1 DEF StreamOwner
  <2>3. QED BY <2>1, <2>2, ReturnKeeps
<1>12. CASE Serve \/ ServeCut \/ ServeHalf \/ Crash \/ UNCHANGED vars
  BY <1>12, SameKeeps DEF Serve, ServeCut, ServeHalf, Crash, vars, clientVars
<1>13. QED
  BY <1>2, <1>3, <1>4, <1>6, <1>7, <1>8, <1>9, <1>10, <1>11, <1>12 DEF Next, Poll

\* At every moment at most one task uses the stream, it is the holder of the
\* mutex, and the stream is still there: timeouts, pings, a dead backend and a
\* concurrent close included, for any number of tasks and statements.
THEOREM StreamIsOwned == Spec => []StreamOwner
<1>1. Init => MutexType /\ StreamOwner
  BY DEF Init, MutexType, StreamOwner, Phases, OnStream
<1>2. MutexType /\ StreamOwner /\ [Next]_vars => (MutexType /\ StreamOwner)'
  BY StepKeeps
<1>3. QED BY <1>1, <1>2, PTL DEF Spec

-----------------------------------------------------------------------------
(* Type correctness.                                                       *)

\* A call has its statement until it returns: what it writes names a statement.
CallsHaveIds == \A t \in Tasks : pc[t] \in Calling => req[t] \in Ids

CallerType ==
  /\ req \in [Tasks -> 0..MaxReq]
  /\ result \in [Tasks -> Results]
  /\ issued \in 0..MaxReq
  /\ stream \in {"open", "none"}
  /\ connected \in BOOLEAN

RunType == cols \in BOOLEAN /\ acc \subseteq 0..MaxReq

WireType ==
  /\ toServer \in Seq(Requests)
  /\ toClient \in Seq(Replies)
  /\ torn \in BOOLEAN

ServerType ==
  /\ alive \in BOOLEAN
  /\ skipping \in BOOLEAN
  /\ verdict \in [Ids -> {"none", "done", "failed"}]

FaultType == faults \subseteq Faults

Types == CallerType /\ RunType /\ WireType /\ ServerType /\ FaultType /\ CallsHaveIds

LEMMA TypeParts == MutexType /\ Types => TypeOK
BY DEF MutexType, Types, CallerType, RunType, WireType, ServerType, FaultType, TypeOK

LEMMA ReturnTypes ==
  ASSUME MutexType, Types, NEW t \in Tasks, NEW st \in {"ok", "err"},
         NEW from \in SUBSET (0..MaxReq), Return(t, st, from)
  PROVE  CallerType' /\ RunType' /\ CallsHaveIds'
<1>1. [st |-> st, from |-> from] \in Results
  BY DEF Results
<1>2. 0 \in 0..MaxReq
  BY PgAssumption
<1>3. CallerType'
  BY <1>1, <1>2 DEF Return, Types, CallerType
<1>4. RunType'
  <2>1. UNCHANGED runVars \/ (cols' = FALSE /\ acc' = {})
    BY DEF Return
  <2>2. QED BY <2>1 DEF Types, RunType, runVars
<1>5. CallsHaveIds'
  <2> SUFFICES ASSUME NEW u \in Tasks, pc'[u] \in Calling PROVE req'[u] \in Ids
    BY DEF CallsHaveIds, Ids
  <2>1. u # t
    BY DEF Return, MutexType, Calling
  <2>2. pc'[u] = pc[u] /\ req'[u] = req[u]
    BY <2>1 DEF Return, MutexType, Types, CallerType
  <2>3. QED BY <2>2 DEF Types, CallsHaveIds
<1>6. QED BY <1>3, <1>4, <1>5

LEMMA FailTypes ==
  ASSUME MutexType, Types, NEW t \in Tasks, Fail(t)
  PROVE  CallerType' /\ RunType' /\ CallsHaveIds'
<1>1. {} \in SUBSET (0..MaxReq)
  OBVIOUS
<1>2. QED BY <1>1, ReturnTypes DEF Fail

LEMMA GotoTypes ==
  ASSUME MutexType, Types, NEW t \in Tasks, NEW phase \in Phases,
         pc[t] \in Calling, Goto(t, phase)
  PROVE  CallerType' /\ CallsHaveIds'
<1>1. CallerType'
  BY DEF Goto, Types, CallerType
<1>2. CallsHaveIds'
  BY DEF Goto, Types, CallsHaveIds, MutexType, Ids
<1>3. QED BY <1>1, <1>2

\* What the callers do not touch keeps its type with it.
LEMMA SameCallers ==
  ASSUME Types, UNCHANGED clientVars
  PROVE  CallerType' /\ CallsHaveIds'
BY DEF Types, CallerType, CallsHaveIds, Ids, clientVars

LEMMA SameRest ==
  ASSUME Types
  PROVE  /\ UNCHANGED runVars => RunType'
         /\ UNCHANGED wireVars => WireType'
         /\ UNCHANGED serverVars => ServerType'
         /\ UNCHANGED faults => FaultType'
BY DEF Types, RunType, WireType, ServerType, FaultType, runVars, wireVars, serverVars, Ids

\* A request that a running call writes is well formed.
LEMMA WriteTypes ==
  ASSUME Types, NEW t \in Tasks, pc[t] \in Calling, NEW k \in {"Q", "P", "S", "cut", "half"},
         toServer' = Append(toServer, [k |-> k, of |-> req[t]]),
         UNCHANGED <<toClient, torn>>
  PROVE  WireType'
<1>1. [k |-> k, of |-> req[t]] \in Requests
  BY DEF Types, CallsHaveIds, Requests
<1>2. toServer \in Seq(Requests) /\ toClient \in Seq(Replies) /\ torn \in BOOLEAN
  BY DEF Types, WireType
<1>3. Append(toServer, [k |-> k, of |-> req[t]]) \in Seq(Requests)
  BY <1>1, <1>2
<1>4. toServer' \in Seq(Requests)
  BY <1>3
<1>5. QED BY <1>2, <1>4 DEF WireType, Requests, Replies, Ids

LEMMA ReadTypes ==
  ASSUME MutexType, Types, NEW t \in Tasks, Read(t)
  PROVE  Types'
<1>1. ServerType'
  BY SameRest DEF Read
<1>2. toServer \in Seq(Requests) /\ toClient \in Seq(Replies) /\ torn \in BOOLEAN
  BY DEF Types, WireType
<1>3. /\ toServer' = toServer /\ torn' = torn
      /\ toClient' = toClient \/ (toClient # <<>> /\ toClient' = Tail(toClient))
  BY DEF Read, ReadAligned, ReadTorn, ReadEof
<1>4. toClient # <<>> => Tail(toClient) \in Seq(Replies) /\ Head(toClient) \in Replies
  BY <1>2
<1>5. WireType'
  <2>1. toClient' \in Seq(Replies)
    BY <1>2, <1>3, <1>4
  <2>2. QED BY <1>2, <1>3, <2>1 DEF WireType, Requests, Replies, Ids
<1>6. FaultType'
  <2>1. faults' = faults \/ faults' = faults \cup {"error"}
    BY DEF Read, ReadAligned, ReadTorn, ReadEof
  <2>2. QED BY <2>1 DEF Types, FaultType, Faults
<1>7. CallerType' /\ RunType' /\ CallsHaveIds'
  <2>0. acc \subseteq 0..MaxReq /\ cols \in BOOLEAN /\ 0 \in 0..MaxReq
    BY PgAssumption DEF Types, RunType
  <2>1. CASE Fail(t)
    BY <2>1, FailTypes
  <2>2. CASE ReadAligned(t)
    <3>1. Head(toClient) \in Replies
      BY <2>2, <1>4 DEF ReadAligned
    <3>2. Head(toClient).of \in 0..MaxReq
      BY <3>1, PgAssumption DEF Replies, Ids
    <3>3. acc \cup {Head(toClient).of} \in SUBSET (0..MaxReq)
      BY <2>0, <3>2
    <3>4. CASE Return(t, "ok", acc \cup {Head(toClient).of})
      BY <3>3, <3>4, ReturnTypes
    <3>5. CASE /\ UNCHANGED clientVars
               /\ acc' = acc \cup {Head(toClient).of}
               /\ cols' \in {TRUE, cols}
      <4>1. RunType'
        BY <3>3, <3>5, <2>0 DEF RunType
      <4>2. QED BY <4>1, <3>5, SameCallers
    <3>6. QED BY <2>1, <2>2, <3>4, <3>5 DEF ReadAligned, Keep
  <2>3. CASE ReadTorn(t)
    <3>1. acc \cup {0} \in SUBSET (0..MaxReq)
      BY <2>0
    <3>2. CASE Return(t, "ok", acc \cup {0})
      BY <3>1, <3>2, ReturnTypes
    <3>3. CASE acc' = acc \cup {0} /\ cols' \in BOOLEAN /\ UNCHANGED clientVars
      <4>1. RunType'
        BY <3>1, <3>3 DEF RunType
      <4>2. QED BY <4>1, <3>3, SameCallers
    <3>4. QED BY <2>1, <2>3, <3>2, <3>3 DEF ReadTorn
  <2>4. CASE ReadEof(t)
    BY <2>1, <2>4 DEF ReadEof
  <2>5. QED BY <2>2, <2>3, <2>4 DEF Read
<1>8. QED BY <1>1, <1>5, <1>6, <1>7 DEF Types

\* What the backend sends is well formed, and about a statement it was sent.
LEMMA ServeTypes ==
  ASSUME Types, Serve
  PROVE  Types'
<1> DEFINE m == Head(toServer)
<1>0. toServer \in Seq(Requests) /\ toClient \in Seq(Replies) /\ torn \in BOOLEAN
  BY DEF Types, WireType
<1>1. toServer # <<>> /\ toServer' = Tail(toServer) /\ torn' = torn
  BY DEF Serve
<1>2. m \in Requests /\ toServer' \in Seq(Requests)
  <2>1. ASSUME NEW S, NEW q \in Seq(S), q # <<>> PROVE Head(q) \in S /\ Tail(q) \in Seq(S)
    BY <2>1
  <2>2. QED BY <1>0, <1>1, <2>1
<1>3. m.of \in Ids
  BY <1>2 DEF Requests
<1>4. ASSUME NEW ms \in Seq(Replies), Deliver(ms)
      PROVE  toClient' \in Seq(Replies)
  <2>1. toClient \o ms \in Seq(Replies)
    BY <1>0
  <2>2. QED BY <1>0, <1>4, <2>1 DEF Deliver
<1>5. ASSUME NEW r \in Ids, NEW k \in {"T", "D", "C", "E", "Z"}
      PROVE  Msg(k, r) \in Replies
  BY DEF Msg, Replies
<1>6. /\ Rows(m.of) \in Seq(Replies) /\ Command(m.of) \in Seq(Replies)
      /\ Refusal(m.of) \in Seq(Replies) /\ RowsThenError(m.of) \in Seq(Replies)
      /\ <<>> \in Seq(Replies) /\ <<Msg("Z", m.of)>> \in Seq(Replies)
  <2> HIDE DEF m
  <2>1. /\ Msg("T", m.of) \in Replies /\ Msg("D", m.of) \in Replies /\ Msg("C", m.of) \in Replies
        /\ Msg("E", m.of) \in Replies /\ Msg("Z", m.of) \in Replies
    BY <1>3, <1>5
  <2>2. QED BY <2>1 DEF Rows, Command, Refusal, RowsThenError
<1>7. toClient' \in Seq(Replies) /\ verdict' \in [Ids -> {"none", "done", "failed"}]
  <2> DEFINE ready == IF m.k = "Q" THEN <<Msg("Z", m.of)>> ELSE <<>>
  <2>0. verdict \in [Ids -> {"none", "done", "failed"}]
    BY DEF Types, ServerType
  <2>1. CASE UNCHANGED <<toClient, verdict>>
    BY <2>1, <2>0, <1>0
  <2>2. ASSUME NEW body \in {Rows(m.of), Command(m.of), Refusal(m.of), RowsThenError(m.of)},
               NEW v \in {"done", "failed"}, Ran(m.of, body \o ready, v)
        PROVE  toClient' \in Seq(Replies) /\ verdict' \in [Ids -> {"none", "done", "failed"}]
    <3>1. body \in Seq(Replies) /\ ready \in Seq(Replies)
      BY <1>6
    <3>2. body \o ready \in Seq(Replies)
      BY <3>1
    <3>3. Deliver(body \o ready) /\ verdict' = [verdict EXCEPT ![m.of] = v]
      BY <2>2 DEF Ran
    <3>4. toClient' \in Seq(Replies)
      BY <3>2, <3>3, <1>4
    <3>5. QED BY <3>3, <3>4, <2>0
  <2>3. CASE Deliver(<<Msg("Z", m.of)>>) /\ UNCHANGED verdict
    BY <2>3, <2>0, <1>4, <1>6
  <2>4. \/ UNCHANGED <<toClient, verdict>>
        \/ \E body \in {Rows(m.of), Command(m.of)} : Ran(m.of, body \o ready, "done")
        \/ \E body \in {Refusal(m.of), RowsThenError(m.of)} : Ran(m.of, body \o ready, "failed")
        \/ Deliver(<<Msg("Z", m.of)>>) /\ UNCHANGED verdict
    BY DEF Serve
  <2>5. QED BY <2>1, <2>2, <2>3, <2>4
<1>8. WireType'
  BY <1>0, <1>1, <1>2, <1>7 DEF WireType, Requests, Replies, Ids
<1>9. ServerType'
  <2>1. skipping' \in BOOLEAN /\ alive' = alive
    BY DEF Serve, Types, ServerType
  <2>2. QED BY <2>1, <1>7 DEF Types, ServerType, Ids
<1>10. UNCHANGED <<clientVars, runVars, faults>>
  BY DEF Serve
<1>11. QED BY <1>8, <1>9, <1>10, SameCallers, SameRest DEF Types

\* What is left of a request that was taken in part is one.
LEMMA TakenTypes ==
  ASSUME Types, ServeCut \/ ServeHalf
  PROVE  Types'
<1> DEFINE m == Head(toServer)
           half == [k |-> "half", of |-> m.of]
<1>1. /\ UNCHANGED <<clientVars, runVars, torn, faults>> /\ alive' \in BOOLEAN
      /\ toServer # <<>>
  <2>1. CASE ServeCut
    BY <2>1 DEF ServeCut, Types, ServerType
  <2>2. CASE ServeHalf
    <3>1. toServer # <<>>
      <4>1. Len(<< >>) = 0
        OBVIOUS
      <4>2. QED BY <4>1, <2>2 DEF ServeHalf
    <3>2. QED BY <3>1, <2>2 DEF ServeHalf, Types, ServerType
  <2>3. QED BY <2>1, <2>2
<1>2. toServer \in Seq(Requests) /\ toClient \in Seq(Replies) /\ torn \in BOOLEAN
  BY DEF Types, WireType
<1>3. m \in Requests /\ m.of \in Ids /\ half \in Requests /\ Tail(toServer) \in Seq(Requests)
  <2>1. m \in Requests /\ Tail(toServer) \in Seq(Requests)
    BY <1>1, <1>2
  <2>2. QED BY <2>1 DEF Requests
<1> HIDE DEF m, half
<1>4. Tail(toServer) # <<>> => Tail(Tail(toServer)) \in Seq(Requests)
  BY <1>3
<1>14. ASSUME NEW e \in Requests, NEW q \in Seq(Requests) PROVE << e >> \o q \in Seq(Requests)
  <2>1. << e >> \in Seq(Requests)
    OBVIOUS
  <2>2. QED BY <2>1, Joined
<1>5. toServer' \in Seq(Requests)
  <2>1. CASE ServeCut
    <3>1. toServer' \in {Tail(toServer), <<half>> \o Tail(toServer)}
          \/ (Tail(toServer) # <<>> /\ toServer' = <<half>> \o Tail(Tail(toServer)))
      BY <2>1 DEF ServeCut, m, half
    <3>2. QED BY <3>1, <1>3, <1>4, <1>14
  <2>2. CASE ServeHalf
    <3>1. Tail(toServer) # <<>>
      <4>1. Len(toServer) > 1
        BY <2>2 DEF ServeHalf
      <4>2. Len(Tail(toServer)) = Len(toServer) - 1 /\ Len(toServer) \in Nat
        BY <1>1, <1>2
      <4>3. Len(<< >>) = 0
        OBVIOUS
      <4>4. \A n \in Nat : n > 1 => n - 1 # 0
        OBVIOUS
      <4>5. Len(Tail(toServer)) # 0
        BY <4>1, <4>2, <4>4, Zenon
      <4>6. QED BY <4>3, <4>5, Zenon
    <3>2. toServer' \in {Tail(Tail(toServer)), <<m>> \o Tail(Tail(toServer))}
      BY <2>2 DEF ServeHalf, m
    <3>3. QED BY <3>1, <3>2, <1>3, <1>4, <1>14
  <2>3. QED BY <2>1, <2>2
<1>6. ASSUME NEW ms \in Seq(Replies), Deliver(ms) PROVE toClient' \in Seq(Replies)
  BY <1>2, <1>6 DEF Deliver
<1>7. \A k \in {"T", "D", "C", "E", "Z"} : Msg(k, m.of) \in Replies
  BY <1>3 DEF Msg, Replies
<1>8. /\ Rows(m.of) \in Seq(Replies) /\ Command(m.of) \in Seq(Replies)
      /\ Refusal(m.of) \in Seq(Replies) /\ << Msg("T", m.of) >> \in Seq(Replies)
      /\ << Msg("E", m.of), Msg("Z", m.of) >> \in Seq(Replies)
  BY <1>7 DEF Rows, Command, Refusal
<1>9. /\ toClient' = toClient \/ \E ms \in Seq(Replies) : Deliver(ms)
      /\ skipping' \in {skipping, TRUE}
      /\ verdict' = verdict \/ \E v \in {"done", "failed"} : verdict' = [verdict EXCEPT ![m.of] = v]
  <2>1. CASE ServeCut
    <3>1. \/ UNCHANGED <<toClient, skipping, verdict>>
          \/ Deliver(<< Msg("T", m.of) >>) /\ UNCHANGED <<skipping, verdict>>
          \/ Ran(m.of, Refusal(m.of), "failed") /\ skipping' = TRUE
          \/ (\E body \in {Rows(m.of), Command(m.of)} : Ran(m.of, body, "done")) /\ UNCHANGED skipping
      BY <2>1 DEF ServeCut, m
    <3>2. QED BY <3>1, <1>8 DEF Ran
  <2>2. CASE ServeHalf
    <3>1. /\ verdict' = verdict
          /\ \/ UNCHANGED <<toClient, skipping>>
             \/ Deliver(Refusal(m.of)) /\ skipping' \in {skipping, TRUE}
             \/ Deliver(<< Msg("E", m.of), Msg("Z", m.of) >>) /\ UNCHANGED skipping
      BY <2>2 DEF ServeHalf, m
    <3>2. QED BY <3>1, <1>8
  <2>3. QED BY <2>1, <2>2
<1>10. WireType'
  BY <1>1, <1>2, <1>5, <1>6, <1>9 DEF WireType, Requests, Replies, Ids
<1>11. ServerType'
  BY <1>1, <1>3, <1>9 DEF Types, ServerType, Ids
<1>12. QED BY <1>1, <1>10, <1>11, SameCallers, SameRest DEF Types

LEMMA TypesStep ==
  ASSUME MutexType, Types, [Next]_vars
  PROVE  Types'
<1>1. ASSUME NEW t \in Tasks, Execute(t)
      PROVE  Types'
  <2>1. issued + 1 \in Ids /\ issued + 1 \in 0..MaxReq /\ NoResult \in Results
    <3>1. 0 \in 0..MaxReq
      BY PgAssumption
    <3>2. QED BY <1>1, PgAssumption DEF Execute, Types, CallerType, Ids, NoResult, Results
  <2>2. CallerType'
    BY <1>1, <2>1 DEF Execute, Types, CallerType, Results
  <2>3. CallsHaveIds'
    BY <1>1, <2>1 DEF Execute, Types, CallerType, CallsHaveIds, MutexType, Ids
  <2>4. UNCHANGED <<runVars, wireVars, serverVars, faults>>
    BY <1>1 DEF Execute
  <2>5. QED BY <2>2, <2>3, <2>4, SameRest DEF Types
<1>2. ASSUME NEW t \in Tasks, PingClosed(t)
      PROVE  Types'
  <2>1. [st |-> "err", from |-> {}] \in Results
    BY DEF Results
  <2>2. CallerType' /\ CallsHaveIds'
    BY <1>2, <2>1 DEF PingClosed, Types, CallerType, CallsHaveIds, Results, Ids
  <2>3. UNCHANGED <<runVars, wireVars, serverVars, faults>>
    BY <1>2 DEF PingClosed
  <2>4. QED BY <2>2, <2>3, SameRest DEF Types
<1>3. ASSUME NEW t \in Tasks, Acquire(t)
      PROVE  Types'
  <2>1. UNCHANGED <<serverVars, wireVars, faults>>
    BY <1>3 DEF Acquire
  <2>2. CallerType' /\ RunType' /\ CallsHaveIds'
    <3>1. CASE Fail(t)
      BY <3>1, FailTypes
    <3>2. CASE Goto(t, "writing") /\ UNCHANGED runVars
      <4>1. pc[t] \in Calling /\ "writing" \in Phases
        BY <1>3 DEF Acquire, Calling, Phases
      <4>2. QED BY <3>2, <4>1, GotoTypes, SameRest
    <3>3. QED BY <1>3, <3>1, <3>2 DEF Acquire
  <2>3. QED BY <2>1, <2>2, SameRest DEF Types
<1>4. ASSUME NEW t \in Tasks, Write(t) \/ WriteSync(t)
      PROVE  Types'
  <2>1. pc[t] \in Calling /\ {"syncing", "reading"} \subseteq Phases
    BY <1>4 DEF Write, WriteSync, Calling, Phases
  <2>2. /\ Goto(t, "syncing") \/ Goto(t, "reading")
        /\ \E k \in {"Q", "P", "S"} : toServer' = Append(toServer, [k |-> k, of |-> req[t]])
        /\ UNCHANGED <<toClient, torn, runVars, serverVars, faults>>
    BY <1>4 DEF Write, WriteSync
  <2>3. CallerType' /\ CallsHaveIds'
    BY <2>1, <2>2, GotoTypes
  <2>4. WireType'
    BY <2>1, <2>2, WriteTypes
  <2>5. QED BY <2>2, <2>3, <2>4, SameRest DEF Types
<1>5. ASSUME NEW t \in Tasks, WriteFails(t) \/ Timeout(t)
      PROVE  Types'
  <2>1. Fail(t)
    BY <1>5 DEF WriteFails, Timeout
  <2>2. FaultType'
    <3>1. faults' \subseteq faults \cup {"cut", "timeout", "torn"}
      BY <1>5 DEF WriteFails, Timeout
    <3>2. QED BY <3>1 DEF Types, FaultType, Faults
  <2>3. WireType'
    <3>1. /\ toServer' = toServer
          /\ toClient' \in {toClient, <<>>}
          /\ torn' \in {torn, TRUE}
      BY <1>5 DEF WriteFails, Timeout, wireVars
    <3>2. toServer \in Seq(Requests) /\ toClient \in Seq(Replies) /\ torn \in BOOLEAN
      BY DEF Types, WireType
    <3>3. toClient' \in Seq(Replies)
      <4>1. toClient' = toClient \/ toClient' = <<>>
        BY <3>1
      <4>2. <<>> \in Seq(Replies)
        OBVIOUS
      <4>3. QED BY <4>1, <4>2, <3>2
    <3>4. QED BY <3>1, <3>2, <3>3 DEF WireType, Requests, Replies, Ids
  <2>4. UNCHANGED serverVars
    BY <1>5 DEF WriteFails, Timeout
  <2>5. QED BY <2>1, <2>2, <2>3, <2>4, FailTypes, SameRest DEF Types
<1>10. ASSUME NEW t \in Tasks, TimeoutInWrite(t)
       PROVE  Types'
  <2>1. pc[t] \in Calling /\ Fail(t) /\ UNCHANGED serverVars
    BY <1>10 DEF TimeoutInWrite, Calling
  <2>2. FaultType'
    BY <1>10 DEF TimeoutInWrite, Types, FaultType, Faults
  <2>3. WireType'
    <3>1. PICK k \in {"cut", "half"} : toServer' = Append(toServer, [k |-> k, of |-> req[t]])
      BY <1>10 DEF TimeoutInWrite
    <3>2. UNCHANGED <<toClient, torn>>
      BY <1>10 DEF TimeoutInWrite
    <3>3. QED BY <2>1, <3>1, <3>2, WriteTypes
  <2>4. QED BY <2>1, <2>2, <2>3, FailTypes, SameRest DEF Types
<1>6. ASSUME NEW t \in Tasks, CloseBegin(t) \/ CloseTake(t) \/ CloseEnd(t)
      PROVE  Types'
  <2>1. /\ \E phase \in {"closing", "shutting", "idle"} : pc' = [pc EXCEPT ![t] = phase]
        /\ UNCHANGED <<req, result, issued>>
        /\ stream' \in {stream, "none"} /\ connected' \in {connected, FALSE}
        /\ UNCHANGED <<runVars, serverVars, wireVars, faults>>
    BY <1>6 DEF CloseBegin, CloseTake, CloseEnd
  <2>2. CallerType'
    BY <2>1 DEF Types, CallerType, Results
  <2>3. CallsHaveIds'
    BY <2>1 DEF Types, CallsHaveIds, MutexType, Calling, Ids
  <2>4. QED BY <2>1, <2>2, <2>3, SameRest DEF Types
<1>7. CASE Crash
  <2>1. UNCHANGED <<clientVars, runVars, wireVars, faults>>
    BY <1>7 DEF Crash
  <2>2. ServerType'
    BY <1>7 DEF Crash, Types, ServerType, Ids
  <2>3. QED BY <2>1, <2>2, SameCallers, SameRest DEF Types
<1>8. CASE UNCHANGED vars
  <2>1. UNCHANGED <<clientVars, runVars, wireVars, serverVars, faults>>
    BY <1>8 DEF vars
  <2>2. QED BY <2>1, SameCallers, SameRest DEF Types
<1>9. QED
  BY <1>1, <1>2, <1>3, <1>4, <1>5, <1>6, <1>7, <1>8, <1>10,
     ReadTypes, ServeTypes, TakenTypes DEF Next, Poll

\* Every variable keeps its type: a call in flight always has its statement, so
\* nothing malformed is written or read, for any number of tasks and statements.
THEOREM PgTypeOK == Spec => []TypeOK
<1> DEFINE PgInv == MutexType /\ StreamOwner /\ Types
<1>1. Init => PgInv
  <2> SUFFICES ASSUME Init PROVE PgInv
    OBVIOUS
  <2>1. MutexType /\ StreamOwner
    BY DEF Init, MutexType, StreamOwner, Phases, OnStream
  <2>2. 0 \in 0..MaxReq /\ NoResult \in Results
    BY PgAssumption DEF NoResult, Results
  <2>3. CallerType /\ CallsHaveIds
    BY <2>2 DEF Init, CallerType, CallsHaveIds, Calling
  <2>4. RunType /\ WireType /\ ServerType /\ FaultType
    <3>1. /\ cols = FALSE /\ acc = {} /\ toServer = <<>> /\ toClient = <<>> /\ torn = FALSE
          /\ alive = TRUE /\ skipping = FALSE /\ faults = {}
      BY DEF Init
    <3>2. verdict \in [Ids -> {"none", "done", "failed"}]
      BY DEF Init
    <3>3. RunType /\ FaultType
      BY <3>1 DEF RunType, FaultType
    <3>4. WireType
      <4>1. \A S : <<>> \in Seq(S)
        OBVIOUS
      <4>2. QED BY <3>1, <4>1 DEF WireType
    <3>5. QED BY <3>1, <3>2, <3>3, <3>4 DEF ServerType
  <2>5. QED BY <2>1, <2>3, <2>4 DEF Types
<1>2. PgInv /\ [Next]_vars => PgInv'
  BY StepKeeps, TypesStep
<1>3. PgInv => TypeOK
  BY TypeParts
<1>4. QED BY <1>1, <1>2, <1>3, PTL DEF Spec


-----------------------------------------------------------------------------
(* The inductive invariant, one part per argument.                         *)

Sent(t) == pc[t] \in {"syncing", "reading"}     \* its request is on the wire
Own(r)  == \E t \in Tasks : Sent(t) /\ req[t] = r

\* A call has a statement of its own, and no other task has it.
OwnStatements ==
  /\ \A t \in Tasks : pc[t] \notin Calling => req[t] = 0
  /\ \A t, u \in Tasks : req[t] # 0 /\ req[t] = req[u] => t = u

\* Nothing is on the wire, or has run, that was not issued.
UpToIssued ==
  /\ \A t \in Tasks : req[t] <= issued
  /\ \A r \in Ids : r > issued => verdict[r] = "none"
  /\ \A i \in DOMAIN toServer : toServer[i].of <= issued
  /\ \A i \in DOMAIN toClient : toClient[i].of <= issued

\* A statement is written once, and has not run while it is on its way.
WrittenOnce ==
  /\ \A i, j \in DOMAIN toServer :
       toServer[i].k \notin {"S", "half"} /\ toServer[j].k \notin {"S", "half"} /\ toServer[i].of = toServer[j].of => i = j
  /\ \A i \in DOMAIN toServer : toServer[i].k \notin {"S", "half"} => verdict[toServer[i].of] = "none"
  /\ \A t \in Tasks : pc[t] \in {"waiting", "writing"} =>
       /\ verdict[req[t]] = "none"
       /\ \A i \in DOMAIN toServer : toServer[i].of # req[t]
       /\ \A i \in DOMAIN toClient : toClient[i].of # req[t]

\* The locals of a run are the reader's, and lost boundaries are on record.
LocalsOwned ==
  /\ acc # {} => \E t \in Tasks : pc[t] = "reading"
  /\ torn => "torn" \in faults
  /\ \A i \in DOMAIN toServer : toServer[i].k \in {"cut", "half"} => "cut" \in faults

\* The answer to r has been begun, and its Sync is still to come.
Open(r) == \/ toServer # <<>> /\ toServer[1] = [k |-> "S", of |-> r]
           \/ toServer = <<>> /\ \E t \in Tasks : pc[t] = "syncing" /\ req[t] = r

\* Unless a pipeline was cut or a read torn, the stream is a sequence of whole
\* answers, each ended by its own ReadyForQuery.
SyncFollows ==
  \A i \in DOMAIN toServer : toServer[i].k = "P" =>
    \/ i < Len(toServer) /\ toServer[i + 1] = [k |-> "S", of |-> toServer[i].of]
    \/ i = Len(toServer) /\ \E t \in Tasks : pc[t] = "syncing" /\ req[t] = toServer[i].of

OneAfterTheOther ==
  /\ \A i \in DOMAIN toClient :
       i < Len(toClient) /\ toClient[i].k # "Z" => toClient[i + 1].of = toClient[i].of
  /\ toClient # <<>> /\ toClient[Len(toClient)].k # "Z" => Open(toClient[Len(toClient)].of)

RunIsOfOne ==
  acc # {} => \E r \in Ids : /\ acc = {r}
                             /\ toClient # <<>> => toClient[1].of = r
                             /\ toClient = <<>> => Open(r)

SkipsToSync == skipping => \E r \in Ids : Open(r)

AnswerComes ==
  \A t \in Tasks : pc[t] = "reading" =>
    \/ \E i \in DOMAIN toClient : toClient[i] = [k |-> "Z", of |-> req[t]]
    \/ \E i \in DOMAIN toServer : toServer[i].of = req[t] /\ toServer[i].k \in {"Q", "S"}

WholeGroups == SyncFollows /\ OneAfterTheOther /\ RunIsOfOne /\ SkipsToSync /\ AnswerComes

\* While no call has left anything behind, all that is on the wire is the
\* holder's, and tells what became of its statement.
AllOwn == /\ \A i \in DOMAIN toClient : Own(toClient[i].of)
          /\ \A r \in acc : Own(r)

ReadyIsLast ==
  \A i \in DOMAIN toClient : toClient[i].k = "Z" =>
    /\ i = Len(toClient)
    /\ \A t \in Tasks : pc[t] # "syncing"
    /\ alive => toServer = <<>>

RequestsOwn ==
  alive => /\ \A i \in DOMAIN toServer : Own(toServer[i].of)
           /\ \A i \in DOMAIN toServer : toServer[i].k # "P" => i = Len(toServer)
           /\ \A t \in Tasks : pc[t] = "syncing" => \A i \in DOMAIN toServer : toServer[i].k = "P"
           /\ skipping => \E t \in Tasks : Sent(t) /\ verdict[req[t]] = "failed"

VerdictTold ==
  \A t \in Tasks : Sent(t) =>
    /\ verdict[req[t]] = "none" => /\ toClient = <<>>
                                   /\ alive => toServer # <<>> /\ toServer[1].k # "S"
    /\ verdict[req[t]] = "failed" =>
         \E i \in DOMAIN toClient : /\ toClient[i].k = "E"
                                    /\ \A j \in DOMAIN toClient : toClient[j].k = "Z" => j > i

CleanStream == AllOwn /\ ReadyIsLast /\ RequestsOwn /\ VerdictTold

\* After an error or a timeout an older answer is always in front.
StaleInFront ==
  /\ toClient # <<>> => \A t \in Tasks : Sent(t) => toClient[1].of # req[t]
  /\ toClient = <<>> /\ alive => /\ toServer # <<>>
                                 /\ \A t \in Tasks : Sent(t) => toServer[1].of # req[t]
  /\ \A t \in Tasks : Sent(t) => req[t] \notin acc

Guarded == /\ faults \cap {"cut", "torn"} = {} => WholeGroups
           /\ faults = {} => CleanStream
           /\ faults # {} /\ faults \subseteq {"error", "timeout"} => StaleInFront

SessionInv == /\ MutexType /\ StreamOwner /\ Types
              /\ OwnStatements /\ UpToIssued /\ WrittenOnce /\ LocalsOwned
              /\ Guarded /\ WholeAnswer
-----------------------------------------------------------------------------
(* What the invariant says of the task that uses the stream.               *)

LEMMA Typed ==
  ASSUME SessionInv
  PROVE  /\ pc \in [Tasks -> Phases] /\ req \in [Tasks -> 0..MaxReq] /\ issued \in Nat
         /\ result \in [Tasks -> Results]
         /\ toServer \in Seq(Requests) /\ toClient \in Seq(Replies)
         /\ verdict \in [Ids -> {"none", "done", "failed"}]
         /\ faults \subseteq Faults /\ MaxReq \in Nat
         /\ \A t \in Tasks : pc[t] \in Calling => req[t] \in Ids
BY PgAssumption DEF SessionInv, MutexType, Types, CallerType, WireType, ServerType, FaultType, CallsHaveIds

LEMMA TypedMessages ==
  ASSUME SessionInv
  PROVE  /\ \A i \in DOMAIN toServer : toServer[i] \in Requests /\ toServer[i].of \in Ids
         /\ \A i \in DOMAIN toClient : toClient[i] \in Replies /\ toClient[i].of \in Ids
         /\ \A r \in Ids : r \in Nat
<1>1. ASSUME NEW S, NEW q \in Seq(S) PROVE \A i \in DOMAIN q : q[i] \in S
  OBVIOUS
<1>2. \A i \in DOMAIN toServer : toServer[i] \in Requests
  BY Typed, <1>1
<1>3. \A i \in DOMAIN toClient : toClient[i] \in Replies
  BY Typed, <1>1
<1>4. QED BY <1>2, <1>3 DEF Requests, Replies, Ids

LEMMA OneSender ==
  ASSUME SessionInv, NEW t \in Tasks, pc[t] \in OnStream \cup {"shutting"}
  PROVE  /\ Holds(t)
         /\ \A u \in Tasks : pc[u] \in OnStream \/ Holds(u) => u = t
<1>1. MutexType /\ StreamOwner
  BY DEF SessionInv
<1>2. Holds(t)
  BY <1>1 DEF StreamOwner
<1>3. \A u \in Tasks : Holds(u) => u = t
  BY <1>1, <1>2, OneHolder
<1>4. QED BY <1>1, <1>2, <1>3 DEF StreamOwner

LEMMA ReturnFacts ==
  ASSUME SessionInv, NEW t \in Tasks, NEW st, NEW from, Return(t, st, from)
  PROVE  /\ \A u \in Tasks :
              /\ pc'[u] = IF u = t THEN "idle" ELSE pc[u]
              /\ req'[u] = IF u = t THEN 0 ELSE req[u]
         /\ result' = [result EXCEPT ![t] = [st |-> st, from |-> from]]
         /\ UNCHANGED <<issued, stream, connected>>
         /\ acc' = {} \/ acc' = acc
         /\ pc[t] \in OnStream => acc' = {} /\ \A u \in Tasks : ~Sent(u)'
<1>1. /\ \A u \in Tasks :
           /\ pc'[u] = IF u = t THEN "idle" ELSE pc[u]
           /\ req'[u] = IF u = t THEN 0 ELSE req[u]
      /\ acc' = {} \/ acc' = acc
      /\ Holds(t) => acc' = {}
      /\ result' = [result EXCEPT ![t] = [st |-> st, from |-> from]]
      /\ UNCHANGED <<issued, stream, connected>>
  BY Typed DEF Return, runVars
<1>2. ASSUME pc[t] \in OnStream PROVE acc' = {} /\ \A u \in Tasks : ~Sent(u)'
  <2>1. Holds(t) /\ \A u \in Tasks : pc[u] \in OnStream => u = t
    BY <1>2, OneSender
  <2>2. QED BY <1>1, <2>1 DEF Sent, OnStream
<1>3. QED BY <1>1, <1>2

-----------------------------------------------------------------------------
(* The parts that hold whatever was left in the stream.                    *)

Basic == OwnStatements /\ UpToIssued /\ WrittenOnce

\* Calls go on or end, messages are read or lost; nothing is written or run.
LEMMA QuietBasic ==
  ASSUME SessionInv,
         \A u \in Tasks :
           \/ pc'[u] = pc[u] /\ req'[u] = req[u]
           \/ pc'[u] \notin Calling /\ req'[u] = 0
           \/ /\ pc[u] \in Calling /\ pc'[u] \in Calling /\ req'[u] = req[u]
              /\ pc'[u] \in {"waiting", "writing"} => pc[u] \in {"waiting", "writing"},
         UNCHANGED <<issued, verdict, toServer>>,
         \A i \in DOMAIN toClient' : \E j \in DOMAIN toClient : toClient'[i] = toClient[j]
  PROVE  Basic'
<1>0. OwnStatements /\ UpToIssued /\ WrittenOnce
  BY DEF SessionInv
<1>1. OwnStatements'
  <2>1. \A t \in Tasks : req'[t] # 0 => req'[t] = req[t] /\ pc[t] \in Calling
    BY <1>0 DEF OwnStatements
  <2>2. \A t \in Tasks : pc'[t] \notin Calling => req'[t] = 0
    BY <1>0 DEF OwnStatements
  <2>3. QED BY <2>1, <2>2, <1>0 DEF OwnStatements
<1>2. UpToIssued'
  <2>1. \A t \in Tasks : req'[t] <= issued
    BY <1>0, Typed DEF UpToIssued
  <2>2. \A i \in DOMAIN toClient' : toClient'[i].of <= issued
    BY <1>0 DEF UpToIssued
  <2>3. \A r \in Ids : r > issued => verdict'[r] = "none"
    BY <1>0 DEF UpToIssued
  <2>4. \A i \in DOMAIN toServer' : toServer'[i].of <= issued
    BY <1>0 DEF UpToIssued
  <2>5. QED BY <2>1, <2>2, <2>3, <2>4 DEF UpToIssued, Ids
<1>3. WrittenOnce'
  <2>1. ASSUME NEW t \in Tasks, pc'[t] \in {"waiting", "writing"}
        PROVE  /\ verdict'[req'[t]] = "none"
               /\ \A i \in DOMAIN toServer' : toServer'[i].of # req'[t]
               /\ \A i \in DOMAIN toClient' : toClient'[i].of # req'[t]
    <3>1. pc[t] \in {"waiting", "writing"} /\ req'[t] = req[t]
      BY <2>1 DEF Calling
    <3>2. QED BY <3>1, <1>0 DEF WrittenOnce
  <2>2. /\ \A i, j \in DOMAIN toServer' :
             toServer'[i].k \notin {"S", "half"} /\ toServer'[j].k \notin {"S", "half"} /\ toServer'[i].of = toServer'[j].of => i = j
        /\ \A i \in DOMAIN toServer' : toServer'[i].k \notin {"S", "half"} => verdict'[toServer'[i].of] = "none"
    BY <1>0 DEF WrittenOnce
  <2>3. QED BY <2>1, <2>2 DEF WrittenOnce
<1>4. QED BY <1>1, <1>2, <1>3 DEF Basic

LEMMA ExecuteBasic ==
  ASSUME SessionInv, NEW t \in Tasks, Execute(t)
  PROVE  Basic'
<1>0. OwnStatements /\ UpToIssued /\ WrittenOnce
  BY DEF SessionInv
<1>1. /\ pc[t] = "idle" /\ issued < MaxReq /\ issued' = issued + 1
      /\ \A u \in Tasks :
           /\ pc'[u] = IF u = t THEN "waiting" ELSE pc[u]
           /\ req'[u] = IF u = t THEN issued + 1 ELSE req[u]
      /\ UNCHANGED <<verdict, toServer, toClient>>
  BY Typed DEF Execute, serverVars, wireVars
<1>2. issued \in Nat /\ issued + 1 \in Ids /\ issued + 1 > issued /\ ~(issued + 1 <= issued)
  BY Typed, <1>1 DEF Ids
<1>3. OwnStatements'
  <2>1. \A u \in Tasks : req[u] # issued + 1
    BY <1>0, <1>2 DEF UpToIssued
  <2>2. QED BY <2>1, <1>0, <1>1, <1>2 DEF OwnStatements, Calling
<1>4. UpToIssued'
  <2>1. \A u \in Tasks : req'[u] <= issued + 1
    BY <1>0, <1>1, <1>2, Typed DEF UpToIssued
  <2>2. \A i \in DOMAIN toServer : toServer[i].of <= issued + 1
    <3> SUFFICES ASSUME NEW i \in DOMAIN toServer PROVE toServer[i].of <= issued + 1
      OBVIOUS
    <3>1. toServer[i].of \in Nat /\ toServer[i].of <= issued
      BY <1>0, TypedMessages DEF UpToIssued
    <3>2. QED BY <3>1, <1>2
  <2>3. \A i \in DOMAIN toClient : toClient[i].of <= issued + 1
    <3> SUFFICES ASSUME NEW i \in DOMAIN toClient PROVE toClient[i].of <= issued + 1
      OBVIOUS
    <3>1. toClient[i].of \in Nat /\ toClient[i].of <= issued
      BY <1>0, TypedMessages DEF UpToIssued
    <3>2. QED BY <3>1, <1>2
  <2>4. \A r \in Ids : r > issued + 1 => verdict[r] = "none"
    BY <1>0, <1>2, Typed DEF UpToIssued, Ids
  <2>5. QED BY <2>1, <2>2, <2>3, <2>4, <1>1 DEF UpToIssued, Ids
<1>5. WrittenOnce'
  <2>1. ASSUME NEW u \in Tasks, pc'[u] \in {"waiting", "writing"}
        PROVE  /\ verdict[req'[u]] = "none"
               /\ \A i \in DOMAIN toServer : toServer[i].of # req'[u]
               /\ \A i \in DOMAIN toClient : toClient[i].of # req'[u]
    <3>1. CASE u = t
      BY <3>1, <1>0, <1>1, <1>2 DEF UpToIssued
    <3>2. CASE u # t
      BY <3>2, <2>1, <1>0, <1>1 DEF WrittenOnce
    <3>3. QED BY <3>1, <3>2
  <2>2. QED BY <2>1, <1>0, <1>1 DEF WrittenOnce
<1>6. QED BY <1>3, <1>4, <1>5 DEF Basic

\* Write and WriteSync: one more message of the writer's statement.
LEMMA WriteBasic ==
  ASSUME SessionInv, NEW t \in Tasks, NEW k \in {"Q", "P", "S"}, NEW phase \in {"syncing", "reading"},
         pc[t] = (IF k = "S" THEN "syncing" ELSE "writing"), Goto(t, phase),
         toServer' = Append(toServer, [k |-> k, of |-> req[t]]), UNCHANGED <<toClient, verdict>>
  PROVE  Basic'
<1> DEFINE e == [k |-> k, of |-> req[t]]
<1>0. OwnStatements /\ UpToIssued /\ WrittenOnce
  BY DEF SessionInv
<1>1. /\ \A u \in Tasks : pc'[u] = IF u = t THEN phase ELSE pc[u]
      /\ req' = req /\ issued' = issued
  BY Typed DEF Goto
<1>2. req[t] \in Ids /\ e \in Requests /\ e.k = k /\ e.of = req[t]
  BY Typed DEF Calling, Requests
<1> HIDE DEF e
<1>3. /\ toServer \in Seq(Requests) /\ toServer' = Append(toServer, e)
      /\ \A i \in DOMAIN toServer : toServer'[i] = toServer[i]
      /\ toServer'[Len(toServer) + 1] = e
      /\ \A i \in DOMAIN toServer' : i \in DOMAIN toServer \/ i = Len(toServer) + 1
  <2>1. toServer \in Seq(Requests) /\ toServer' = Append(toServer, e)
    BY Typed DEF e
  <2>2. QED BY <2>1, <1>2, WriteEnd
<1>4. OwnStatements'
  BY <1>0, <1>1 DEF OwnStatements, Calling
<1>5. UpToIssued'
  <2>1. \A i \in DOMAIN toServer' : toServer'[i].of <= issued
    BY <1>0, <1>2, <1>3 DEF UpToIssued
  <2>2. QED BY <2>1, <1>0, <1>1 DEF UpToIssued, Ids
<1>6. WrittenOnce'
  <2>1. k # "S" => /\ verdict[req[t]] = "none"
                   /\ \A i \in DOMAIN toServer : toServer[i].of # req[t]
    BY <1>0 DEF WrittenOnce
  <2>2. \A i, j \in DOMAIN toServer' :
          toServer'[i].k \notin {"S", "half"} /\ toServer'[j].k \notin {"S", "half"} /\ toServer'[i].of = toServer'[j].of => i = j
    BY <2>1, <1>0, <1>2, <1>3 DEF WrittenOnce
  <2>3. \A i \in DOMAIN toServer' : toServer'[i].k \notin {"S", "half"} => verdict[toServer'[i].of] = "none"
    BY <2>1, <1>0, <1>2, <1>3 DEF WrittenOnce
  <2>4. ASSUME NEW u \in Tasks, pc'[u] \in {"waiting", "writing"}
        PROVE  /\ verdict[req[u]] = "none"
               /\ \A i \in DOMAIN toServer' : toServer'[i].of # req[u]
               /\ \A i \in DOMAIN toClient : toClient[i].of # req[u]
    <3>1. u # t /\ pc[u] \in {"waiting", "writing"}
      BY <2>4, <1>1
    <3>2. req[u] # req[t]
      BY <3>1, <1>0, <1>2 DEF OwnStatements, Ids
    <3>3. QED BY <3>1, <3>2, <1>0, <1>2, <1>3 DEF WrittenOnce
  <2>5. QED BY <2>2, <2>3, <2>4, <1>1 DEF WrittenOnce
<1>7. QED BY <1>4, <1>5, <1>6 DEF Basic
-----------------------------------------------------------------------------
(* What the backend does with the request at the front.                    *)

\* The messages ms answer m: they are all about its statement, and only the last
\* may be ReadyForQuery, which it is unless m is a pipeline without its Sync.
Answers(ms, m) ==
  /\ ms \in Seq(Replies) /\ ms # <<>>
  /\ \A i \in DOMAIN ms : ms[i].of = m.of
  /\ \A i \in DOMAIN ms : ms[i].k = "Z" => i = Len(ms)
  /\ ms[Len(ms)].k = "Z" <=> m.k # "P"

\* m runs, and an error is among the messages when it fails.
Runs(m, ms) ==
  /\ m.k \in {"Q", "P"} /\ ~skipping
  /\ \E v \in {"done", "failed"} :
       /\ verdict' = [verdict EXCEPT ![m.of] = v]
       /\ v = "failed" => \E i \in DOMAIN ms : ms[i].k = "E"
       /\ skipping' => v = "failed" /\ m.k = "P"

LEMMA AnswerShapes ==
  ASSUME NEW m \in Requests, m.k \in {"Q", "P"}, NEW body \in {Rows(m.of), Command(m.of), Refusal(m.of), RowsThenError(m.of)}
  PROVE  LET ms == body \o (IF m.k = "Q" THEN <<Msg("Z", m.of)>> ELSE <<>>)
         IN  /\ Answers(ms, m)
             /\ body \in {Refusal(m.of), RowsThenError(m.of)} => \E i \in DOMAIN ms : ms[i].k = "E"
<1> DEFINE ready == IF m.k = "Q" THEN <<Msg("Z", m.of)>> ELSE <<>>
           ms == body \o ready
<1>0. m.of \in Ids /\ m.k \in {"Q", "P"}
  BY DEF Requests
<1>1. \A k \in {"T", "D", "C", "E", "Z"} : Msg(k, m.of) \in Replies /\ Msg(k, m.of).k = k /\ Msg(k, m.of).of = m.of
  BY <1>0 DEF Msg, Replies
<1>2. /\ body \in Seq(Replies) /\ Len(body) \in {1, 3}
      /\ \A i \in 1..Len(body) : body[i].of = m.of /\ body[i].k # "Z"
      /\ body \in {Refusal(m.of), RowsThenError(m.of)} => body[Len(body)].k = "E"
  <2>1. CASE body = Rows(m.of)
    BY <2>1, <1>1 DEF Rows, Refusal, RowsThenError
  <2>2. CASE body = Command(m.of)
    BY <2>2, <1>1 DEF Command, Refusal, RowsThenError
  <2>3. CASE body = Refusal(m.of)
    BY <2>3, <1>1 DEF Refusal
  <2>4. CASE body = RowsThenError(m.of)
    BY <2>4, <1>1 DEF RowsThenError
  <2>5. QED BY <2>1, <2>2, <2>3, <2>4
<1>3. /\ ready \in Seq(Replies)
      /\ m.k = "Q" => Len(ready) = 1 /\ ready[1].of = m.of /\ ready[1].k = "Z"
      /\ m.k = "P" => Len(ready) = 0
  BY <1>0, <1>1
<1> HIDE DEF ready
<1>4. /\ ms \in Seq(Replies) /\ Len(ms) = Len(body) + Len(ready) /\ DOMAIN ms = 1..Len(ms)
      /\ \A i \in 1..Len(body) : ms[i] = body[i]
      /\ \A i \in 1..Len(ready) : ms[Len(body) + i] = ready[i]
  BY <1>2, <1>3, Joined
<1> HIDE DEF ms
<1>5. CASE m.k = "Q"
  <2>0. Len(ready) = 1 /\ ready[1].of = m.of /\ ready[1].k = "Z"
    BY <1>5, <1>3
  <2>1. Len(ms) = Len(body) + 1 /\ ms[Len(ms)].k = "Z" /\ ms[Len(ms)].of = m.of
    <3>1. Len(ms) = Len(body) + 1
      BY <2>0, <1>4
    <3>2. ms[Len(body) + 1] = ready[1]
      BY <2>0, <1>4
    <3>3. QED BY <3>1, <3>2, <2>0
  <2>2. \A i \in 1..Len(ms) : i \in 1..Len(body) \/ i = Len(ms)
    BY <2>1, <1>2
  <2>3. Answers(ms, m)
    BY <2>1, <2>2, <1>2, <1>4, <1>5 DEF Answers
  <2>4. Len(body) \in DOMAIN ms /\ ms[Len(body)] = body[Len(body)]
    BY <2>1, <1>2, <1>4
  <2>5. QED BY <2>3, <2>4, <1>2 DEF ms, ready
<1>6. CASE m.k = "P"
  <2>1. Len(ms) = Len(body) /\ \A i \in 1..Len(ms) : ms[i] = body[i]
    BY <1>6, <1>2, <1>3, <1>4
  <2>2. Answers(ms, m)
    BY <2>1, <1>2, <1>4, <1>6 DEF Answers
  <2>3. body \in {Refusal(m.of), RowsThenError(m.of)} => \E i \in DOMAIN ms : ms[i].k = "E"
    <3>1. Len(body) \in DOMAIN ms /\ ms[Len(body)] = body[Len(body)]
      BY <2>1, <1>2, <1>4
    <3>2. QED BY <3>1, <1>2
  <2>4. QED BY <2>2, <2>3 DEF ms, ready
<1>7. QED BY <1>0, <1>5, <1>6

LEMMA ServeFacts ==
  ASSUME SessionInv, Serve
  PROVE  LET m == toServer[1] IN
         /\ alive /\ toServer # <<>> /\ m \in Requests /\ toServer' = Tail(toServer)
         /\ m.k \in {"Q", "P", "S"}
         /\ UNCHANGED <<clientVars, runVars, torn, alive, faults>>
         /\ \/ m.k # "S" /\ skipping /\ UNCHANGED <<toClient, skipping, verdict>>
            \/ \E ms :
                 /\ Answers(ms, m)
                 /\ toClient' = IF torn THEN toClient ELSE toClient \o ms
                 /\ \/ Runs(m, ms)
                    \/ m.k = "S" /\ skipping' = FALSE /\ verdict' = verdict
<1> DEFINE m == toServer[1]
           ready == IF m.k = "Q" THEN <<Msg("Z", m.of)>> ELSE <<>>
<1>1. alive /\ toServer # <<>> /\ toServer' = Tail(toServer) /\ UNCHANGED <<clientVars, runVars, torn, alive, faults>>
  BY DEF Serve
<1>2. Head(toServer) = m /\ m \in Requests /\ m.k \in {"Q", "P", "S"}
  <2>1. Head(toServer) = m /\ m \in Requests
    BY <1>1, Typed, ReadFront
  <2>2. QED BY <2>1 DEF Serve
<1>3. \/ m.k # "S" /\ skipping /\ UNCHANGED <<toClient, skipping, verdict>>
      \/ /\ m.k # "S" /\ ~skipping /\ skipping' = skipping
         /\ \E body \in {Rows(m.of), Command(m.of)} : Ran(m.of, body \o ready, "done")
      \/ /\ m.k # "S" /\ ~skipping /\ skipping' = (m.k = "P")
         /\ \E body \in {Refusal(m.of), RowsThenError(m.of)} : Ran(m.of, body \o ready, "failed")
      \/ /\ m.k = "S" /\ skipping' = FALSE /\ verdict' = verdict
         /\ Deliver(<<Msg("Z", m.of)>>)
  BY <1>2 DEF Serve
<1> HIDE DEF m
<1>4. ASSUME NEW body \in {Rows(m.of), Command(m.of)}, m.k \in {"Q", "P"}, ~skipping, skipping' = skipping,
             Ran(m.of, body \o ready, "done")
      PROVE  \E ms :
               /\ Answers(ms, m)
               /\ toClient' = IF torn THEN toClient ELSE toClient \o ms
               /\ Runs(m, ms)
  <2> DEFINE ms == body \o ready
  <2>1. Answers(ms, m)
    BY <1>2, <1>4, AnswerShapes
  <2>2. toClient' = (IF torn THEN toClient ELSE toClient \o ms)
    BY <1>4 DEF Ran, Deliver
  <2>3. Runs(m, ms)
    BY <1>4 DEF Ran, Runs
  <2> HIDE DEF ms
  <2>4. QED BY <2>1, <2>2, <2>3
<1>5. ASSUME NEW body \in {Refusal(m.of), RowsThenError(m.of)}, m.k \in {"Q", "P"}, ~skipping, skipping' = (m.k = "P"),
             Ran(m.of, body \o ready, "failed")
      PROVE  \E ms :
               /\ Answers(ms, m)
               /\ toClient' = IF torn THEN toClient ELSE toClient \o ms
               /\ Runs(m, ms)
  <2> DEFINE ms == body \o ready
  <2>0. body \in {Rows(m.of), Command(m.of), Refusal(m.of), RowsThenError(m.of)}
    BY <1>5
  <2>1. Answers(ms, m)
    BY <2>0, <1>2, <1>5, AnswerShapes
  <2>2. \E i \in DOMAIN ms : ms[i].k = "E"
    BY <2>0, <1>2, <1>5, AnswerShapes
  <2>3. toClient' = (IF torn THEN toClient ELSE toClient \o ms)
    BY <1>5 DEF Ran, Deliver
  <2>4. verdict' = [verdict EXCEPT ![m.of] = "failed"]
    BY <1>5 DEF Ran
  <2> HIDE DEF ms
  <2>5. Runs(m, ms)
    BY <2>2, <2>4, <1>5 DEF Runs
  <2>6. QED BY <2>1, <2>3, <2>5
<1>6. ASSUME m.k = "S", Deliver(<<Msg("Z", m.of)>>)
      PROVE  \E ms :
               /\ Answers(ms, m)
               /\ toClient' = IF torn THEN toClient ELSE toClient \o ms
  <2>1. Msg("Z", m.of) \in Replies /\ Msg("Z", m.of).k = "Z" /\ Msg("Z", m.of).of = m.of
    BY <1>2 DEF Msg, Replies, Requests
  <2>2. Answers(<<Msg("Z", m.of)>>, m)
    BY <2>1, <1>6 DEF Answers
  <2>3. QED BY <2>2, <1>6 DEF Deliver
<1>7. \/ m.k # "S" /\ skipping /\ UNCHANGED <<toClient, skipping, verdict>>
      \/ \E ms :
           /\ Answers(ms, m)
           /\ toClient' = IF torn THEN toClient ELSE toClient \o ms
           /\ \/ Runs(m, ms)
              \/ m.k = "S" /\ skipping' = FALSE /\ verdict' = verdict
  <2>1. m.k \in {"Q", "P"} \/ m.k = "S"
    BY <1>2
  <2>2. QED BY <2>1, <1>3, <1>4, <1>5, <1>6
<1>8. QED BY <1>1, <1>2, <1>7 DEF m

\* An answer about statement n comes behind what the backend has sent.
LEMMA DeliveredFrom ==
  ASSUME SessionInv, NEW n, NEW ms \in Seq(Replies), \A i \in DOMAIN ms : ms[i].of = n,
         toClient' = toClient \o ms
  PROVE  \A i \in DOMAIN toClient' : toClient'[i].of = n \/ \E j \in DOMAIN toClient : toClient'[i] = toClient[j]
<1>1. toClient \in Seq(Replies)
  BY Typed
<1>2. /\ Len(toClient) \in Nat /\ Len(ms) \in Nat /\ DOMAIN toClient = 1..Len(toClient) /\ DOMAIN ms = 1..Len(ms)
      /\ DOMAIN (toClient \o ms) = 1..(Len(toClient) + Len(ms))
      /\ \A i \in 1..Len(toClient) : (toClient \o ms)[i] = toClient[i]
      /\ \A i \in 1..Len(ms) : (toClient \o ms)[Len(toClient) + i] = ms[i]
      /\ \A i \in 1..(Len(toClient) + Len(ms)) : i \in 1..Len(toClient) \/ i - Len(toClient) \in 1..Len(ms)
  BY <1>1, Joined
<1>3. ASSUME NEW i \in 1..(Len(toClient) + Len(ms)), i - Len(toClient) \in 1..Len(ms)
      PROVE  (toClient \o ms)[i] = ms[i - Len(toClient)]
  <2>1. i = Len(toClient) + (i - Len(toClient))
    BY <1>2
  <2>2. QED BY <2>1, <1>2, <1>3
<1>4. QED BY <1>2, <1>3

\* The backend takes the request at the front, with what stands behind it or
\* not; at most half of it stays.
LEMMA TakenBasic ==
  ASSUME SessionInv, toServer # <<>>, toServer' \in Seq(Requests), NEW d \in Nat,
         UNCHANGED <<pc, req, issued>>,
         \A i \in DOMAIN toServer' :
           \/ toServer'[i].k = "half" /\ toServer'[i].of = toServer[1].of
           \/ i + d \in DOMAIN toServer /\ i + d # 1 /\ toServer'[i] = toServer[i + d],
         \A i \in DOMAIN toClient' :
           toClient'[i].of = toServer[1].of \/ \E j \in DOMAIN toClient : toClient'[i] = toClient[j],
         \/ verdict' = verdict
         \/ /\ toServer[1].k \notin {"S", "half"}
            /\ \E v : verdict' = [verdict EXCEPT ![toServer[1].of] = v]
  PROVE  Basic'
<1> DEFINE m == toServer[1]
<1>0. OwnStatements /\ UpToIssued /\ WrittenOnce
  BY DEF SessionInv
<1>1. UNCHANGED <<pc, req, issued>> /\ \A i \in DOMAIN toServer' : i \in Nat
  OBVIOUS
<1>2. /\ 1 \in DOMAIN toServer /\ m.of \in Ids /\ m.of <= issued
      /\ \A i \in DOMAIN toServer' :
           \/ toServer'[i].k = "half" /\ toServer'[i].of = m.of
           \/ i + d \in DOMAIN toServer /\ i + d # 1 /\ toServer'[i] = toServer[i + d]
  <2>1. 1 \in DOMAIN toServer
    BY Typed, ReadFront
  <2>2. QED BY <2>1, <1>0, TypedMessages DEF UpToIssued
<1>3. \A i \in DOMAIN toClient' : toClient'[i].of = m.of \/ \E j \in DOMAIN toClient : toClient'[i] = toClient[j]
  OBVIOUS
<1>4. verdict' = verdict \/ (m.k \notin {"S", "half"} /\ \E v : verdict' = [verdict EXCEPT ![m.of] = v])
  OBVIOUS
<1> HIDE DEF m
<1>5. OwnStatements'
  BY <1>0, <1>1 DEF OwnStatements
<1>6. UpToIssued'
  <2>1. \A t \in Tasks : req'[t] <= issued'
    BY <1>0, <1>1 DEF UpToIssued
  <2>2. \A r \in Ids : r > issued => verdict'[r] = "none"
    <3> SUFFICES ASSUME NEW r \in Ids, r > issued PROVE verdict'[r] = "none"
      OBVIOUS
    <3>1. r # m.of
      BY <1>2, Typed DEF Ids
    <3>2. verdict'[r] = verdict[r]
      BY <3>1, <1>4, Typed
    <3>3. QED BY <3>2, <1>0 DEF UpToIssued
  <2>3. \A i \in DOMAIN toServer' : toServer'[i].of <= issued
    BY <1>0, <1>2 DEF UpToIssued
  <2>4. \A i \in DOMAIN toClient' : toClient'[i].of <= issued
    BY <1>0, <1>2, <1>3 DEF UpToIssued
  <2>5. QED BY <2>1, <2>2, <2>3, <2>4, <1>1 DEF UpToIssued, Ids
<1>7. WrittenOnce'
  <2>1. \A i, j \in DOMAIN toServer' :
          toServer'[i].k \notin {"S", "half"} /\ toServer'[j].k \notin {"S", "half"} /\ toServer'[i].of = toServer'[j].of => i = j
    <3>2. ASSUME NEW i \in DOMAIN toServer', NEW j \in DOMAIN toServer',
                 toServer'[i].k \notin {"S", "half"} /\ toServer'[j].k \notin {"S", "half"} /\ toServer'[i].of = toServer'[j].of
          PROVE  i = j
      <4>1. i + d = j + d
        BY <3>2, <1>0, <1>2 DEF WrittenOnce
      <4>2. QED BY <4>1, <3>2, <1>1
    <3>3. QED BY <3>2
  <2>2. ASSUME NEW i \in DOMAIN toServer', toServer'[i].k \notin {"S", "half"} PROVE verdict'[toServer'[i].of] = "none"
    <3>1. /\ i + d \in DOMAIN toServer /\ i + d # 1 /\ toServer'[i] = toServer[i + d]
          /\ verdict[toServer[i + d].of] = "none" /\ toServer[i + d].of \in Ids
      BY <2>2, <1>0, <1>2, TypedMessages DEF WrittenOnce
    <3>2. CASE verdict' = verdict
      BY <3>1, <3>2
    <3>3. CASE m.k \notin {"S", "half"} /\ \E v : verdict' = [verdict EXCEPT ![m.of] = v]
      <4>1. toServer[i + d].of # m.of
        BY <3>1, <3>3, <2>2, <1>0, <1>2 DEF WrittenOnce, m
      <4>2. QED BY <4>1, <3>1, <3>3, Typed
    <3>4. QED BY <3>2, <3>3, <1>4
  <2>3. ASSUME NEW t \in Tasks, pc[t] \in {"waiting", "writing"}
        PROVE  /\ verdict'[req[t]] = "none"
               /\ \A i \in DOMAIN toServer' : toServer'[i].of # req[t]
               /\ \A i \in DOMAIN toClient' : toClient'[i].of # req[t]
    <3>1. /\ verdict[req[t]] = "none" /\ req[t] \in Ids
          /\ \A i \in DOMAIN toServer : toServer[i].of # req[t]
          /\ \A i \in DOMAIN toClient : toClient[i].of # req[t]
      BY <2>3, <1>0, Typed DEF WrittenOnce, Calling
    <3>2. m.of # req[t]
      BY <3>1, <1>2 DEF m
    <3>3. verdict'[req[t]] = "none"
      BY <3>1, <3>2, <1>4, Typed
    <3>4. QED BY <3>1, <3>2, <3>3, <1>2, <1>3
  <2>4. QED BY <2>1, <2>2, <2>3, <1>1 DEF WrittenOnce
<1>8. QED BY <1>5, <1>6, <1>7 DEF Basic

LEMMA ServeBasic ==
  ASSUME SessionInv, Serve
  PROVE  Basic'
<1> DEFINE m == toServer[1]
<1>1. /\ toServer # <<>> /\ m \in Requests /\ toServer' = Tail(toServer)
      /\ UNCHANGED <<pc, req, issued>>
      /\ \/ UNCHANGED <<toClient, verdict>>
         \/ \E ms :
              /\ Answers(ms, m)
              /\ toClient' = IF torn THEN toClient ELSE toClient \o ms
              /\ verdict' = verdict \/ Runs(m, ms)
  BY ServeFacts DEF clientVars
<1>2. /\ toServer' \in Seq(Requests)
      /\ \A i \in DOMAIN toServer' : i + 1 \in DOMAIN toServer /\ i + 1 # 1 /\ toServer'[i] = toServer[i + 1]
  <2>1. /\ 1 \in DOMAIN toServer /\ DOMAIN Tail(toServer) = 1..(Len(toServer) - 1) /\ Len(toServer) \in Nat
        /\ \A i \in 1..(Len(toServer) - 1) : Tail(toServer)[i] = toServer[i + 1] /\ i + 1 \in DOMAIN toServer
    BY <1>1, Typed, ReadFront
  <2>2. QED BY <2>1, <1>1, Typed, ReadFront
<1>3. \A i \in DOMAIN toClient' : toClient'[i].of = m.of \/ \E j \in DOMAIN toClient : toClient'[i] = toClient[j]
  <2> SUFFICES ASSUME NEW ms, Answers(ms, m), toClient' = toClient \o ms
               PROVE  \A i \in DOMAIN toClient' : toClient'[i].of = m.of \/ \E j \in DOMAIN toClient : toClient'[i] = toClient[j]
    BY <1>1
  <2>1. ms \in Seq(Replies) /\ \A i \in DOMAIN ms : ms[i].of = m.of
    BY DEF Answers
  <2>2. QED BY <2>1, DeliveredFrom
<1>4. verdict' = verdict \/ (m.k \notin {"S", "half"} /\ \E v : verdict' = [verdict EXCEPT ![m.of] = v])
  BY <1>1 DEF Runs
<1>5. QED BY <1>1, <1>2, <1>3, <1>4, TakenBasic

\* A request that is taken in part: what is left of it, what it is answered.
LEMMA PartFacts ==
  ASSUME SessionInv, ServeCut \/ ServeHalf
  PROVE  /\ UNCHANGED <<clientVars, runVars, torn, faults>>
         /\ toServer # <<>> /\ toServer[1].k \in {"cut", "half"} /\ toServer' \in Seq(Requests)
         /\ \E d \in Nat : \A i \in DOMAIN toServer' :
              \/ toServer'[i].k = "half" /\ toServer'[i].of = toServer[1].of
              \/ i + d \in DOMAIN toServer /\ i + d # 1 /\ toServer'[i] = toServer[i + d]
         /\ \A i \in DOMAIN toClient' :
              toClient'[i].of = toServer[1].of \/ \E j \in DOMAIN toClient : toClient'[i] = toClient[j]
         /\ \/ verdict' = verdict
            \/ /\ toServer[1].k = "cut"
               /\ \E v \in {"done", "failed"} : verdict' = [verdict EXCEPT ![toServer[1].of] = v]
<1> DEFINE m == toServer[1]
           rest == Tail(toServer)
           half == [k |-> "half", of |-> m.of]
<1>1. UNCHANGED <<clientVars, runVars, torn, faults>>
  BY DEF ServeCut, ServeHalf
<1>2. toServer # <<>> /\ (ServeHalf => rest # <<>>)
  <2>1. Len(<< >>) = 0
    OBVIOUS
  <2>2. toServer # <<>>
    BY <2>1 DEF ServeCut, ServeHalf
  <2>3. ASSUME ServeHalf PROVE rest # <<>>
    <3>1. Len(rest) = Len(toServer) - 1 /\ Len(toServer) > 1 /\ Len(toServer) \in Nat
      BY <2>2, <2>3, Typed, ReadFront DEF ServeHalf
    <3>2. \A n \in Nat : n > 1 => n - 1 \in Int /\ n - 1 # 0
      OBVIOUS
    <3>3. Len(rest) # 0
      BY <3>1, <3>2, Zenon
    <3>4. QED BY <3>3, <2>1, Zenon
  <2>4. QED BY <2>2, <2>3
<1>3. /\ m = Head(toServer) /\ m \in Requests /\ 1 \in DOMAIN toServer /\ m.of \in Ids
      /\ Len(toServer) \in Nat /\ DOMAIN toServer = 1..Len(toServer)
      /\ rest \in Seq(Requests) /\ Len(rest) = Len(toServer) - 1 /\ DOMAIN rest = 1..(Len(toServer) - 1)
      /\ \A i \in 1..(Len(toServer) - 1) : rest[i] = toServer[i + 1] /\ i + 1 \in DOMAIN toServer
  BY <1>2, Typed, TypedMessages, ReadFront
<1>4. ASSUME rest # <<>>
      PROVE  /\ Tail(rest) \in Seq(Requests) /\ DOMAIN Tail(rest) = 1..(Len(toServer) - 2)
             /\ Len(Tail(rest)) = Len(toServer) - 2 /\ Len(toServer) >= 2
             /\ \A i \in 1..(Len(toServer) - 2) : Tail(rest)[i] = toServer[i + 2] /\ i + 2 \in DOMAIN toServer
  <2>1. /\ Len(rest) \in Nat /\ Len(rest) >= 1 /\ Tail(rest) \in Seq(Requests) /\ Len(Tail(rest)) = Len(rest) - 1
        /\ DOMAIN Tail(rest) = 1..(Len(rest) - 1)
        /\ \A i \in 1..(Len(rest) - 1) : Tail(rest)[i] = rest[i + 1] /\ i + 1 \in DOMAIN rest
    BY <1>3, <1>4, ReadFront
  <2>2. ASSUME NEW i \in 1..(Len(toServer) - 2)
        PROVE  Tail(rest)[i] = toServer[i + 2] /\ i + 2 \in DOMAIN toServer
    <3>1. Tail(rest)[i] = rest[i + 1] /\ i + 1 \in 1..(Len(toServer) - 1)
      BY <2>1, <2>2, <1>3
    <3>2. rest[i + 1] = toServer[(i + 1) + 1] /\ (i + 1) + 1 \in DOMAIN toServer
      BY <3>1, <1>3
    <3>3. (i + 1) + 1 = i + 2
      BY <2>2
    <3>4. QED BY <3>1, <3>2, <3>3
  <2>3. QED BY <2>1, <2>2, <1>3
<1>5. half \in Requests /\ half.k = "half" /\ half.of = m.of
  BY <1>3 DEF Requests
<1>6. m.k \in {"cut", "half"}
  BY <1>3 DEF ServeCut, ServeHalf
<1>7. \/ toServer' = rest \/ toServer' = << half >> \o rest
      \/ rest # <<>> /\ (toServer' = Tail(rest) \/ toServer' = << half >> \o Tail(rest))
  <2>1. CASE ServeCut
    BY <2>1, <1>3 DEF ServeCut
  <2>2. CASE ServeHalf
    <3>1. m = half
      <4>1. m.k = "half"
        BY <2>2, <1>3 DEF ServeHalf
      <4>2. QED BY <4>1, <1>3 DEF Requests
    <3>2. toServer' \in {Tail(rest), << m >> \o Tail(rest)}
      BY <2>2, <1>3 DEF ServeHalf
    <3>3. QED BY <3>1, <3>2, <2>2, <1>2
  <2>3. QED BY <2>1, <2>2
<1> HIDE DEF m, rest, half
<1>8. ASSUME NEW q \in Seq(Requests)
      PROVE  /\ << half >> \o q \in Seq(Requests)
             /\ \A i \in DOMAIN (<< half >> \o q) :
                  \/ (<< half >> \o q)[i] = half
                  \/ i - 1 \in DOMAIN q /\ i \in Nat /\ (<< half >> \o q)[i] = q[i - 1]
  <2>1. << half >> \in Seq(Requests) /\ Len(<< half >>) = 1 /\ << half >>[1] = half
    BY <1>5
  <2>2. /\ << half >> \o q \in Seq(Requests) /\ DOMAIN q = 1..Len(q) /\ Len(q) \in Nat
        /\ DOMAIN (<< half >> \o q) = 1..(1 + Len(q))
        /\ \A i \in 1..1 : (<< half >> \o q)[i] = << half >>[i]
        /\ \A i \in 1..Len(q) : (<< half >> \o q)[1 + i] = q[i]
    BY <2>1, Joined
  <2>3. ASSUME NEW i \in DOMAIN (<< half >> \o q)
        PROVE  \/ (<< half >> \o q)[i] = half
               \/ i - 1 \in DOMAIN q /\ i \in Nat /\ (<< half >> \o q)[i] = q[i - 1]
    <3>1. CASE i = 1
      BY <3>1, <2>1, <2>2
    <3>2. CASE i # 1
      <4>1. i - 1 \in 1..Len(q) /\ i = 1 + (i - 1) /\ i \in Nat
        BY <3>2, <2>2
      <4>2. QED BY <4>1, <2>2
    <3>3. QED BY <3>1, <3>2
  <2>4. QED BY <2>2, <2>3
<1>9. /\ toServer' \in Seq(Requests)
      /\ \E d \in Nat : \A i \in DOMAIN toServer' :
           \/ toServer'[i].k = "half" /\ toServer'[i].of = m.of
           \/ i + d \in DOMAIN toServer /\ i + d # 1 /\ toServer'[i] = toServer[i + d]
  <2>1. CASE toServer' = rest
    <3>1. \A i \in DOMAIN toServer' : i + 1 \in DOMAIN toServer /\ i + 1 # 1 /\ toServer'[i] = toServer[i + 1]
      BY <2>1, <1>3
    <3>2. QED BY <3>1, <2>1, <1>3
  <2>2. CASE toServer' = << half >> \o rest
    <3>1. ASSUME NEW i \in DOMAIN toServer', toServer'[i] # half
          PROVE  i + 0 \in DOMAIN toServer /\ i + 0 # 1 /\ toServer'[i] = toServer[i + 0]
      <4>1. i - 1 \in DOMAIN rest /\ i \in Nat /\ toServer'[i] = rest[i - 1]
        BY <3>1, <2>2, <1>3, <1>8
      <4>2. i - 1 \in 1..(Len(toServer) - 1) /\ (i - 1) + 1 = i /\ i + 0 = i /\ i # 1
        BY <4>1, <1>3
      <4>3. rest[i - 1] = toServer[(i - 1) + 1] /\ (i - 1) + 1 \in DOMAIN toServer
        BY <4>2, <1>3
      <4>4. QED BY <4>1, <4>2, <4>3
    <3>2. toServer' \in Seq(Requests)
      BY <2>2, <1>3, <1>8
    <3>3. QED BY <3>1, <3>2, <1>5
  <2>3. CASE rest # <<>> /\ toServer' = Tail(rest)
    <3>1. ASSUME NEW i \in DOMAIN toServer'
          PROVE  i + 2 \in DOMAIN toServer /\ i + 2 # 1 /\ toServer'[i] = toServer[i + 2]
      <4>1. i \in 1..(Len(toServer) - 2)
        BY <2>3, <1>4
      <4>2. i + 2 # 1
        BY <4>1, <1>3
      <4>3. QED BY <4>1, <4>2, <2>3, <1>4
    <3>2. QED BY <3>1, <2>3, <1>4
  <2>4. CASE rest # <<>> /\ toServer' = << half >> \o Tail(rest)
    <3>1. ASSUME NEW i \in DOMAIN toServer', toServer'[i] # half
          PROVE  i + 1 \in DOMAIN toServer /\ i + 1 # 1 /\ toServer'[i] = toServer[i + 1]
      <4>1. i - 1 \in DOMAIN Tail(rest) /\ i \in Nat /\ toServer'[i] = Tail(rest)[i - 1]
        BY <3>1, <2>4, <1>4, <1>8
      <4>2. i - 1 \in 1..(Len(toServer) - 2) /\ (i - 1) + 2 = i + 1 /\ i + 1 # 1
        <5>1. i - 1 \in 1..(Len(toServer) - 2) /\ i \in Nat
          BY <4>1, <2>4, <1>4
        <5>2. QED BY <5>1, <1>3
      <4>3. Tail(rest)[i - 1] = toServer[(i - 1) + 2] /\ (i - 1) + 2 \in DOMAIN toServer
        BY <4>2, <2>4, <1>4
      <4>4. QED BY <4>1, <4>2, <4>3
    <3>2. toServer' \in Seq(Requests)
      BY <2>4, <1>4, <1>8
    <3>3. QED BY <3>1, <3>2, <1>5
  <2>5. QED BY <2>1, <2>2, <2>3, <2>4, <1>7
<1>10. \A k \in {"T", "D", "C", "E", "Z"} : Msg(k, m.of) \in Replies /\ Msg(k, m.of).of = m.of
  BY <1>3 DEF Msg, Replies
<1>11. \A ms \in {Rows(m.of), Command(m.of), Refusal(m.of), << Msg("T", m.of) >>, << Msg("E", m.of), Msg("Z", m.of) >>} :
         ms \in Seq(Replies) /\ \A i \in DOMAIN ms : ms[i].of = m.of
  <2>1. ASSUME NEW ms \in {Command(m.of), Refusal(m.of), << Msg("T", m.of) >>}
        PROVE  ms \in Seq(Replies) /\ \A i \in DOMAIN ms : ms[i].of = m.of
    <3>1. ASSUME NEW a \in Replies, a.of = m.of
          PROVE  << a >> \in Seq(Replies) /\ \A i \in DOMAIN << a >> : << a >>[i].of = m.of
      BY <3>1
    <3>2. \E k \in {"T", "C", "E"} : ms = << Msg(k, m.of) >>
      BY DEF Command, Refusal
    <3>3. QED BY <3>1, <3>2, <1>10
  <2>2. Rows(m.of) \in Seq(Replies) /\ \A i \in DOMAIN Rows(m.of) : Rows(m.of)[i].of = m.of
    <3>1. ASSUME NEW a \in Replies, NEW b \in Replies, NEW c \in Replies, a.of = m.of, b.of = m.of, c.of = m.of
          PROVE  << a, b, c >> \in Seq(Replies) /\ \A i \in DOMAIN << a, b, c >> : << a, b, c >>[i].of = m.of
      BY <3>1
    <3>2. QED BY <3>1, <1>10 DEF Rows
  <2>3. /\ << Msg("E", m.of), Msg("Z", m.of) >> \in Seq(Replies)
        /\ \A i \in DOMAIN << Msg("E", m.of), Msg("Z", m.of) >> : << Msg("E", m.of), Msg("Z", m.of) >>[i].of = m.of
    <3>1. ASSUME NEW a \in Replies, NEW b \in Replies, a.of = m.of, b.of = m.of
          PROVE  << a, b >> \in Seq(Replies) /\ \A i \in DOMAIN << a, b >> : << a, b >>[i].of = m.of
      BY <3>1
    <3>2. QED BY <3>1, <1>10
  <2>4. QED BY <2>1, <2>2, <2>3
<1>12. /\ \/ toClient' = toClient
          \/ \E ms \in {Rows(m.of), Command(m.of), Refusal(m.of), << Msg("T", m.of) >>, << Msg("E", m.of), Msg("Z", m.of) >>} :
               Deliver(ms)
       /\ \/ verdict' = verdict
          \/ m.k = "cut" /\ \E v \in {"done", "failed"} : verdict' = [verdict EXCEPT ![m.of] = v]
  <2>1. CASE ServeCut
    <3>1. /\ m.k = "cut"
          /\ \/ UNCHANGED <<toClient, skipping, verdict>>
             \/ Deliver(<< Msg("T", m.of) >>) /\ UNCHANGED <<skipping, verdict>>
             \/ Ran(m.of, Refusal(m.of), "failed") /\ skipping' = TRUE
             \/ (\E body \in {Rows(m.of), Command(m.of)} : Ran(m.of, body, "done")) /\ UNCHANGED skipping
      BY <2>1, <1>3 DEF ServeCut
    <3>2. QED BY <3>1 DEF Ran
  <2>2. CASE ServeHalf
    <3>1. /\ verdict' = verdict
          /\ \/ toClient' = toClient \/ Deliver(Refusal(m.of))
             \/ Deliver(<< Msg("E", m.of), Msg("Z", m.of) >>)
      BY <2>2, <1>3 DEF ServeHalf
    <3>2. QED BY <3>1
  <2>3. QED BY <2>1, <2>2
<1>13. \A i \in DOMAIN toClient' : toClient'[i].of = m.of \/ \E j \in DOMAIN toClient : toClient'[i] = toClient[j]
  <2> SUFFICES ASSUME NEW ms \in Seq(Replies), \A i \in DOMAIN ms : ms[i].of = m.of, toClient' = toClient \o ms
               PROVE  \A i \in DOMAIN toClient' : toClient'[i].of = m.of \/ \E j \in DOMAIN toClient : toClient'[i] = toClient[j]
    BY <1>11, <1>12 DEF Deliver
  <2>1. QED BY DeliveredFrom
<1>14. QED BY <1>1, <1>2, <1>6, <1>9, <1>12, <1>13 DEF m

LEMMA PartBasic ==
  ASSUME SessionInv, ServeCut \/ ServeHalf
  PROVE  Basic'
<1>1. UNCHANGED <<pc, req, issued>>
  BY PartFacts DEF clientVars
<1>2. PICK d \in Nat : \A i \in DOMAIN toServer' :
        \/ toServer'[i].k = "half" /\ toServer'[i].of = toServer[1].of
        \/ i + d \in DOMAIN toServer /\ i + d # 1 /\ toServer'[i] = toServer[i + d]
  BY PartFacts
<1>3. \/ verdict' = verdict
      \/ /\ toServer[1].k \notin {"S", "half"}
         /\ \E v : verdict' = [verdict EXCEPT ![toServer[1].of] = v]
  BY PartFacts
<1>4. QED BY <1>1, <1>2, <1>3, PartFacts, TakenBasic

\* A write that is cut: the rest of the writer's statement never follows.
LEMMA CutBasic ==
  ASSUME SessionInv, NEW t \in Tasks, TimeoutInWrite(t)
  PROVE  Basic'
<1>0. OwnStatements /\ UpToIssued /\ WrittenOnce
  BY DEF SessionInv
<1>1. /\ pc[t] \in {"writing", "syncing"} /\ UNCHANGED <<toClient, verdict, issued>>
      /\ \A u \in Tasks : /\ pc'[u] = IF u = t THEN "idle" ELSE pc[u]
                          /\ req'[u] = IF u = t THEN 0 ELSE req[u]
  <2>1. Return(t, "err", {})
    BY DEF TimeoutInWrite, Fail
  <2>2. QED BY <2>1, ReturnFacts DEF TimeoutInWrite, serverVars
<1>2. PICK e \in Requests :
        /\ toServer' = Append(toServer, e) /\ e.of = req[t]
        /\ e.k = IF pc[t] = "writing" THEN "cut" ELSE "half"
  <2>1. req[t] \in Ids
    BY <1>1, Typed DEF Calling
  <2>2. QED BY <2>1 DEF TimeoutInWrite, Requests
<1>3. /\ toServer \in Seq(Requests) /\ req[t] \in Ids
      /\ \A i \in DOMAIN toServer : toServer'[i] = toServer[i]
      /\ toServer'[Len(toServer) + 1] = e
      /\ \A i \in DOMAIN toServer' : i \in DOMAIN toServer \/ i = Len(toServer) + 1
  BY <1>1, <1>2, Typed, WriteEnd DEF Calling
<1>4. OwnStatements'
  BY <1>0, <1>1 DEF OwnStatements, Calling
<1>5. UpToIssued'
  <2>1. \A i \in DOMAIN toServer' : toServer'[i].of <= issued
    BY <1>0, <1>2, <1>3 DEF UpToIssued
  <2>2. \A u \in Tasks : req'[u] <= issued
    BY <1>0, <1>1, Typed DEF UpToIssued
  <2>3. QED BY <2>1, <2>2, <1>0, <1>1 DEF UpToIssued, Ids
<1>6. WrittenOnce'
  <2>1. pc[t] = "writing" => /\ verdict[req[t]] = "none"
                             /\ \A i \in DOMAIN toServer : toServer[i].of # req[t]
    BY <1>0 DEF WrittenOnce
  <2>2. \A i, j \in DOMAIN toServer' :
          toServer'[i].k \notin {"S", "half"} /\ toServer'[j].k \notin {"S", "half"}
            /\ toServer'[i].of = toServer'[j].of => i = j
    BY <2>1, <1>0, <1>1, <1>2, <1>3 DEF WrittenOnce
  <2>3. \A i \in DOMAIN toServer' : toServer'[i].k \notin {"S", "half"} => verdict[toServer'[i].of] = "none"
    BY <2>1, <1>0, <1>1, <1>2, <1>3 DEF WrittenOnce
  <2>4. ASSUME NEW u \in Tasks, pc'[u] \in {"waiting", "writing"}
        PROVE  /\ verdict[req'[u]] = "none"
               /\ \A i \in DOMAIN toServer' : toServer'[i].of # req'[u]
               /\ \A i \in DOMAIN toClient : toClient[i].of # req'[u]
    <3>1. u # t /\ pc[u] \in {"waiting", "writing"} /\ req'[u] = req[u]
      BY <2>4, <1>1
    <3>2. req[u] # req[t]
      BY <3>1, <1>0, <1>3 DEF OwnStatements, Ids
    <3>3. QED BY <3>1, <3>2, <1>0, <1>2, <1>3 DEF WrittenOnce
  <2>5. QED BY <2>2, <2>3, <2>4, <1>1 DEF WrittenOnce
<1>7. QED BY <1>4, <1>5, <1>6 DEF Basic
-----------------------------------------------------------------------------
(* What is on the wire, step by step.                                      *)

Wire == LocalsOwned /\ Guarded

LEMMA Assumed ==
  ASSUME SessionInv
  PROVE  /\ acc # {} => \E t \in Tasks : pc[t] = "reading"
         /\ torn => "torn" \in faults
         /\ \A i \in DOMAIN toServer : toServer[i].k \in {"cut", "half"} => "cut" \in faults
         /\ faults \cap {"cut", "torn"} = {} => WholeGroups
         /\ faults = {} => CleanStream
         /\ faults # {} /\ faults \subseteq {"error", "timeout"} => StaleInFront
BY DEF SessionInv, LocalsOwned, Guarded

\* No task that has written is moved, and nothing is read or served.
LEMMA OutsideKeeps ==
  ASSUME SessionInv, UNCHANGED <<wireVars, serverVars, faults>>,
         acc' = acc \/ acc' = {},
         \A u \in Tasks : Sent(u) \/ Sent(u)' => pc'[u] = pc[u] /\ req'[u] = req[u]
  PROVE  Wire'
<1>0. UNCHANGED <<toServer, toClient, torn, alive, skipping, verdict, faults>>
  BY DEF wireVars, serverVars
<1>1. \A u \in Tasks :
        /\ Sent(u)' <=> Sent(u)
        /\ pc'[u] = "syncing" <=> pc[u] = "syncing"
        /\ pc'[u] = "reading" <=> pc[u] = "reading"
        /\ Sent(u) \/ pc[u] \in {"syncing", "reading"} => req'[u] = req[u]
  BY DEF Sent
<1>2. \A r : (Own(r)' <=> Own(r)) /\ (Open(r)' <=> Open(r))
  BY <1>0, <1>1 DEF Own, Open
<1>3. LocalsOwned'
  BY <1>0, <1>1, Assumed DEF LocalsOwned
<1>4. WholeGroups => WholeGroups'
  <2>1. SyncFollows => SyncFollows'
    BY <1>0, <1>1 DEF SyncFollows
  <2>2. OneAfterTheOther => OneAfterTheOther'
    BY <1>0, <1>2 DEF OneAfterTheOther
  <2>3. RunIsOfOne /\ SkipsToSync => RunIsOfOne' /\ SkipsToSync'
    BY <1>0, <1>2 DEF RunIsOfOne, SkipsToSync, Ids
  <2>4. AnswerComes => AnswerComes'
    BY <1>0, <1>1 DEF AnswerComes
  <2>5. QED BY <2>1, <2>2, <2>3, <2>4 DEF WholeGroups
<1>5. CleanStream => CleanStream'
  <2>1. AllOwn /\ ReadyIsLast => AllOwn' /\ ReadyIsLast'
    BY <1>0, <1>1, <1>2 DEF AllOwn, ReadyIsLast
  <2>2. RequestsOwn => RequestsOwn'
    BY <1>0, <1>1, <1>2 DEF RequestsOwn
  <2>3. VerdictTold => VerdictTold'
    BY <1>0, <1>1 DEF VerdictTold
  <2>4. QED BY <2>1, <2>2, <2>3 DEF CleanStream
<1>6. StaleInFront => StaleInFront'
  BY <1>0, <1>1 DEF StaleInFront
<1>7. QED BY <1>0, <1>3, <1>4, <1>5, <1>6, Assumed DEF Wire, Guarded

\* A backend that dies answers nothing more.
LEMMA CrashKeeps ==
  ASSUME SessionInv, UNCHANGED <<pc, req, runVars, wireVars, verdict, skipping, faults>>, alive' = FALSE
  PROVE  Wire'
<1>0. UNCHANGED <<pc, req, acc, toServer, toClient, torn, skipping, verdict, faults>>
  BY DEF runVars, wireVars
<1>1. \A r : (Own(r)' <=> Own(r)) /\ (Open(r)' <=> Open(r))
  BY <1>0 DEF Own, Open, Sent
<1>2. \A u \in Tasks : Sent(u)' <=> Sent(u)
  BY <1>0 DEF Sent
<1>3. LocalsOwned'
  BY <1>0, Assumed DEF LocalsOwned
<1>4. WholeGroups => WholeGroups'
  <2>1. SyncFollows /\ AnswerComes => SyncFollows' /\ AnswerComes'
    BY <1>0 DEF SyncFollows, AnswerComes
  <2>2. OneAfterTheOther => OneAfterTheOther'
    BY <1>0, <1>1 DEF OneAfterTheOther
  <2>3. RunIsOfOne /\ SkipsToSync => RunIsOfOne' /\ SkipsToSync'
    BY <1>0, <1>1 DEF RunIsOfOne, SkipsToSync, Ids
  <2>4. QED BY <2>1, <2>2, <2>3 DEF WholeGroups
<1>5. CleanStream => CleanStream'
  BY <1>0, <1>1, <1>2 DEF CleanStream, AllOwn, ReadyIsLast, RequestsOwn, VerdictTold
<1>6. StaleInFront => StaleInFront'
  BY <1>0, <1>2 DEF StaleInFront
<1>7. QED BY <1>0, <1>3, <1>4, <1>5, <1>6, Assumed DEF Wire, Guarded

\* Once a pipeline is cut or a read torn, nothing is promised of the wire.
LEMMA CutKeeps ==
  ASSUME SessionInv, faults' \cap {"cut", "torn"} # {}, torn' => "torn" \in faults',
         acc' # {} => \E t \in Tasks : pc'[t] = "reading",
         (toServer' = toServer /\ faults \subseteq faults') \/ "cut" \in faults'
  PROVE  Wire'
<1>1. LocalsOwned'
  <2>1. \A i \in DOMAIN toServer' : toServer'[i].k \in {"cut", "half"} => "cut" \in faults'
    BY Assumed
  <2>2. QED BY <2>1 DEF LocalsOwned
<1>2. QED BY <1>1 DEF Wire, Guarded

\* A request of the holder, at the end of what is on the wire.
LEMMA WriteKeeps ==
  ASSUME SessionInv, NEW t \in Tasks, NEW k \in {"Q", "P"}, pc[t] = "writing",
         Goto(t, IF k = "P" THEN "syncing" ELSE "reading"),
         toServer' = Append(toServer, [k |-> k, of |-> req[t]]),
         UNCHANGED <<toClient, torn, runVars, serverVars, faults>>
  PROVE  Wire'
<1> DEFINE e == [k |-> k, of |-> req[t]]
           phase == IF k = "P" THEN "syncing" ELSE "reading"
<1>0. UNCHANGED <<req, acc, toClient, torn, alive, skipping, verdict, faults>>
  BY DEF runVars, serverVars, Goto
<1>1. \A u \in Tasks : ~Sent(u)
  BY OneSender DEF OnStream, Sent
<1>2. pc'[t] = phase /\ \A u \in Tasks : u # t => pc'[u] = pc[u]
  BY Typed DEF Goto
<1>3. \A u \in Tasks : /\ Sent(u)' <=> u = t
                       /\ pc'[u] = "syncing" <=> u = t /\ k = "P"
                       /\ pc'[u] = "reading" <=> u = t /\ k = "Q"
  BY <1>1, <1>2 DEF Sent
<1>4. acc = {}
  BY <1>1, Assumed DEF Sent
<1>5. req[t] \in Ids /\ e \in Requests /\ e.k = k /\ e.of = req[t]
  BY Typed DEF Calling, Requests
<1> HIDE DEF e
<1>6. /\ Len(toServer) \in Nat /\ DOMAIN toServer = 1..Len(toServer)
      /\ DOMAIN toServer' = 1..(Len(toServer) + 1) /\ Len(toServer') = Len(toServer) + 1
      /\ \A i \in 1..Len(toServer) : toServer'[i] = toServer[i]
      /\ toServer'[Len(toServer) + 1] = e /\ toServer' # <<>>
      /\ toServer # <<>> => 1 \in 1..Len(toServer)
  <2>1. toServer \in Seq(Requests) /\ toServer' = Append(toServer, e)
    BY Typed DEF e
  <2>2. QED BY <2>1, <1>5, WriteEnd, ReadFront
<1>7. \A r : Open(r) => Open(r)'
  BY <1>1, <1>6 DEF Open, Sent
<1>8. LocalsOwned'
  <2>1. \A i \in DOMAIN toServer' : toServer'[i].k \in {"cut", "half"} => "cut" \in faults
    BY <1>2, <1>6, Assumed
  <2>2. QED BY <2>1, <1>0, <1>4, Assumed DEF LocalsOwned
<1>9. ASSUME WholeGroups PROVE WholeGroups'
  <2>1. SyncFollows'
    <3> SUFFICES ASSUME NEW i \in 1..(Len(toServer) + 1), toServer'[i].k = "P"
                 PROVE  \/ i < Len(toServer) + 1 /\ toServer'[i + 1] = [k |-> "S", of |-> toServer'[i].of]
                        \/ i = Len(toServer) + 1 /\ \E u \in Tasks : pc'[u] = "syncing" /\ req'[u] = toServer'[i].of
      BY <1>6 DEF SyncFollows
    <3>1. CASE i = Len(toServer) + 1
      BY <3>1, <1>0, <1>3, <1>5, <1>6
    <3>2. CASE i # Len(toServer) + 1
      <4>1. i \in 1..Len(toServer) /\ toServer'[i] = toServer[i]
        BY <3>2, <1>6
      <4>2. i < Len(toServer) /\ toServer[i + 1] = [k |-> "S", of |-> toServer[i].of]
        BY <4>1, <1>1, <1>6, <1>9 DEF WholeGroups, SyncFollows, Sent
      <4>3. i + 1 \in 1..Len(toServer)
        BY <4>1, <4>2, <1>6
      <4>4. QED BY <4>1, <4>2, <4>3, <1>6
    <3>3. QED BY <3>1, <3>2
  <2>2. OneAfterTheOther' /\ RunIsOfOne' /\ SkipsToSync'
    BY <1>0, <1>4, <1>7, <1>9 DEF WholeGroups, OneAfterTheOther, RunIsOfOne, SkipsToSync, Ids
  <2>3. AnswerComes'
    <3>1. Len(toServer) + 1 \in DOMAIN toServer'
      BY <1>6
    <3>2. QED BY <3>1, <1>0, <1>3, <1>5, <1>6 DEF AnswerComes
  <2>4. QED BY <2>1, <2>2, <2>3 DEF WholeGroups
<1>10. ASSUME CleanStream PROVE CleanStream'
  <2>1. DOMAIN toClient = {} /\ toClient = <<>>
    <3>1. DOMAIN toClient = {}
      BY <1>1, <1>10 DEF CleanStream, AllOwn, Own
    <3>2. QED BY <3>1, Typed, ReadFront
  <2>2. alive => toServer = <<>> /\ Len(toServer) = 0 /\ ~skipping
    <3>1. alive => DOMAIN toServer = {} /\ ~skipping
      BY <1>1, <1>10 DEF CleanStream, RequestsOwn, Own
    <3>2. QED BY <3>1, Typed, ReadFront
  <2>3. AllOwn' /\ ReadyIsLast'
    BY <2>1, <1>0, <1>4 DEF AllOwn, ReadyIsLast
  <2>4. alive => DOMAIN toServer' = {1} /\ toServer'[1] = e /\ Len(toServer') = 1
    BY <2>2, <1>6
  <2>5. RequestsOwn'
    BY <2>2, <2>4, <1>0, <1>3, <1>5 DEF RequestsOwn, Own
  <2>6. VerdictTold'
    <3>1. verdict[req[t]] = "none"
      BY DEF SessionInv, WrittenOnce
    <3>2. QED BY <3>1, <2>1, <2>4, <1>0, <1>3, <1>5, <1>6 DEF VerdictTold
  <2>7. QED BY <2>3, <2>5, <2>6 DEF CleanStream
<1>11. ASSUME StaleInFront PROVE StaleInFront'
  <2>1. /\ \A i \in DOMAIN toServer : toServer[i].of # req[t]
        /\ \A i \in DOMAIN toClient : toClient[i].of # req[t]
    BY DEF SessionInv, WrittenOnce
  <2>2. toClient # <<>> => 1 \in DOMAIN toClient
    BY Typed, ReadFront
  <2>3. toServer # <<>> => toServer'[1] = toServer[1] /\ toServer[1].of # req[t]
    BY <2>1, <1>6
  <2>4. QED BY <2>1, <2>2, <2>3, <1>0, <1>3, <1>4, <1>6, <1>11 DEF StaleInFront
<1>12. QED BY <1>0, <1>8, <1>9, <1>10, <1>11, Assumed DEF Wire, Guarded

\* The Sync of the holder's pipeline.
LEMMA SyncKeeps ==
  ASSUME SessionInv, NEW t \in Tasks, WriteSync(t)
  PROVE  Wire'
<1> DEFINE e == [k |-> "S", of |-> req[t]]
<1>0. UNCHANGED <<req, acc, toClient, torn, alive, skipping, verdict, faults>> /\ pc[t] = "syncing"
  BY DEF WriteSync, runVars, serverVars, Goto
<1>1. \A u \in Tasks : pc[u] \in OnStream => u = t
  BY <1>0, OneSender DEF OnStream
<1>2. pc'[t] = "reading" /\ \A u \in Tasks : u # t => pc'[u] = pc[u]
  BY Typed DEF WriteSync, Goto
<1>3. \A u \in Tasks : /\ Sent(u) <=> u = t
                       /\ Sent(u)' <=> u = t
                       /\ pc[u] = "syncing" <=> u = t
                       /\ pc'[u] = "reading" <=> u = t
                       /\ pc[u] # "reading" /\ pc'[u] # "syncing"
  BY <1>0, <1>1, <1>2 DEF Sent, OnStream
<1>4. acc = {}
  BY <1>3, Assumed
<1>5. req[t] \in Ids /\ e \in Requests /\ e.k = "S" /\ e.of = req[t]
  BY <1>0, Typed DEF Calling, Requests
<1>6. /\ Len(toServer) \in Nat /\ DOMAIN toServer = 1..Len(toServer)
      /\ DOMAIN toServer' = 1..(Len(toServer) + 1) /\ Len(toServer') = Len(toServer) + 1
      /\ \A i \in 1..Len(toServer) : toServer'[i] = toServer[i]
      /\ toServer'[Len(toServer) + 1] = e /\ toServer' # <<>>
      /\ toServer # <<>> => 1 \in 1..Len(toServer)
      /\ toServer = <<>> => Len(toServer) = 0
  <2>1. toServer \in Seq(Requests) /\ toServer' = Append(toServer, e)
    BY Typed DEF WriteSync
  <2> HIDE DEF e
  <2>2. QED BY <2>1, <1>5, WriteEnd, ReadFront
<1>7. \A r : Open(r) => Open(r)'
  <2> SUFFICES ASSUME NEW r, Open(r) PROVE toServer'[1] = [k |-> "S", of |-> r]
    BY <1>6 DEF Open
  <2>1. CASE toServer # <<>>
    BY <2>1, <1>6 DEF Open
  <2>2. CASE toServer = <<>>
    BY <2>2, <1>3, <1>6 DEF Open
  <2>3. QED BY <2>1, <2>2
<1>8. LocalsOwned'
  <2>1. \A i \in DOMAIN toServer' : toServer'[i].k \in {"cut", "half"} => "cut" \in faults
    BY <1>2, <1>6, Assumed
  <2>2. QED BY <2>1, <1>0, <1>4, Assumed DEF LocalsOwned
<1>9. \A r : Own(r)' <=> Own(r)
  BY <1>0, <1>3 DEF Own
<1>10. ASSUME WholeGroups PROVE WholeGroups'
  <2>1. SyncFollows'
    <3> SUFFICES ASSUME NEW i \in 1..(Len(toServer) + 1), toServer'[i].k = "P"
                 PROVE  i < Len(toServer) + 1 /\ toServer'[i + 1] = [k |-> "S", of |-> toServer'[i].of]
      BY <1>6 DEF SyncFollows
    <3>1. i # Len(toServer) + 1
      BY <1>5, <1>6
    <3>2. i \in 1..Len(toServer) /\ toServer'[i] = toServer[i]
      BY <3>1, <1>6
    <3>3. \/ i < Len(toServer) /\ toServer[i + 1] = [k |-> "S", of |-> toServer[i].of]
          \/ i = Len(toServer) /\ req[t] = toServer[i].of
      BY <3>2, <1>3, <1>6, <1>10 DEF WholeGroups, SyncFollows
    <3>4. CASE i < Len(toServer) /\ toServer[i + 1] = [k |-> "S", of |-> toServer[i].of]
      <4>1. i + 1 \in 1..Len(toServer)
        BY <3>2, <3>4, <1>6
      <4>2. QED BY <4>1, <3>2, <3>4, <1>6
    <3>5. CASE i = Len(toServer) /\ req[t] = toServer[i].of
      BY <3>2, <3>5, <1>6
    <3>6. QED BY <3>3, <3>4, <3>5
  <2>2. OneAfterTheOther' /\ RunIsOfOne' /\ SkipsToSync'
    BY <1>0, <1>4, <1>7, <1>10 DEF WholeGroups, OneAfterTheOther, RunIsOfOne, SkipsToSync, Ids
  <2>3. AnswerComes'
    <3>1. Len(toServer) + 1 \in DOMAIN toServer'
      BY <1>6
    <3>2. QED BY <3>1, <1>0, <1>3, <1>5, <1>6 DEF AnswerComes
  <2>4. QED BY <2>1, <2>2, <2>3 DEF WholeGroups
<1>11. ASSUME CleanStream PROVE CleanStream'
  <2>1. AllOwn'
    BY <1>0, <1>9, <1>11 DEF CleanStream, AllOwn
  <2>2. ReadyIsLast'
    BY <1>0, <1>11 DEF CleanStream, ReadyIsLast
  <2>3. RequestsOwn'
    <3> SUFFICES ASSUME alive
                 PROVE  /\ \A i \in DOMAIN toServer' : Own(toServer'[i].of)
                        /\ \A i \in DOMAIN toServer' : toServer'[i].k # "P" => i = Len(toServer')
                        /\ skipping => \E u \in Tasks : Sent(u)' /\ verdict[req[u]] = "failed"
      BY <1>0, <1>3, <1>9 DEF RequestsOwn
    <3>1. /\ \A i \in DOMAIN toServer : Own(toServer[i].of) /\ toServer[i].k = "P"
          /\ skipping => \E u \in Tasks : Sent(u) /\ verdict[req[u]] = "failed"
      BY <1>0, <1>11 DEF CleanStream, RequestsOwn
    <3>2. Own(req[t])
      BY <1>3 DEF Own
    <3>3. \A i \in DOMAIN toServer' : i \in DOMAIN toServer \/ i = Len(toServer')
      BY <1>6
    <3>4. \A i \in DOMAIN toServer' : Own(toServer'[i].of)
      BY <3>1, <3>2, <3>3, <1>5, <1>6
    <3>5. \A i \in DOMAIN toServer' : toServer'[i].k # "P" => i = Len(toServer')
      BY <3>1, <3>3, <1>6
    <3>6. QED BY <3>1, <3>4, <3>5, <1>3
  <2>4. VerdictTold'
    <3>1. toServer # <<>> => toServer'[1] = toServer[1]
      BY <1>6
    <3>2. QED BY <3>1, <1>0, <1>3, <1>6, <1>11 DEF CleanStream, VerdictTold
  <2>5. QED BY <2>1, <2>2, <2>3, <2>4 DEF CleanStream
<1>12. ASSUME StaleInFront PROVE StaleInFront'
  <2>1. toServer # <<>> => toServer'[1] = toServer[1]
    BY <1>6
  <2>2. QED BY <2>1, <1>0, <1>3, <1>4, <1>6, <1>12 DEF StaleInFront
<1>13. QED BY <1>0, <1>8, <1>10, <1>11, <1>12, Assumed DEF Wire, Guarded
\* The reader takes one message: the rest is still one answer after the other.
LEMMA ReadKeepsOrder ==
  ASSUME SessionInv, OneAfterTheOther, toClient # <<>>, toClient' = Tail(toClient),
         \A r : Open(r) => Open(r)'
  PROVE  OneAfterTheOther'
<1>1. /\ Len(toClient) \in Nat /\ Len(toClient) >= 1 /\ DOMAIN toClient = 1..Len(toClient)
      /\ toClient' \in Seq(Replies) /\ Len(toClient') = Len(toClient) - 1 /\ DOMAIN toClient' = 1..(Len(toClient) - 1)
      /\ \A i \in 1..(Len(toClient) - 1) : toClient'[i] = toClient[i + 1] /\ i + 1 \in DOMAIN toClient
  BY Typed, ReadFront
<1>2. ASSUME NEW i \in DOMAIN toClient', i < Len(toClient'), toClient'[i].k # "Z"
      PROVE  toClient'[i + 1].of = toClient'[i].of
  <2>1. i + 1 \in DOMAIN toClient' /\ i + 1 < Len(toClient)
    BY <1>1, <1>2
  <2>2. /\ toClient'[i] = toClient[i + 1] /\ toClient'[i + 1] = toClient[i + 1 + 1]
        /\ i + 1 \in DOMAIN toClient
    BY <2>1, <1>1
  <2>3. QED BY <2>1, <2>2, <1>2 DEF OneAfterTheOther
<1>3. ASSUME toClient' # <<>>, toClient'[Len(toClient')].k # "Z" PROVE Open(toClient[Len(toClient)].of)'
  <2>1. Len(toClient') >= 1
    BY <1>3, <1>1, ReadFront
  <2>2. toClient'[Len(toClient')] = toClient[Len(toClient)]
    BY <2>1, <1>1
  <2>3. Open(toClient[Len(toClient)].of)
    BY <2>2, <1>3 DEF OneAfterTheOther
  <2>4. PICK r : r = toClient[Len(toClient)].of /\ Open(r)'
    BY <2>3
  <2>5. QED BY <2>2, <2>4 DEF Open
<1>4. QED BY <1>2, <1>3 DEF OneAfterTheOther

\* The reader returns, with an error, a timeout or ReadyForQuery.
LEMMA ReaderLeaves ==
  ASSUME SessionInv, NEW t \in Tasks, pc[t] = "reading", NEW st, NEW from, Return(t, st, from),
         UNCHANGED <<toServer, torn, serverVars>>,
         \/ toClient' = toClient /\ faults' = faults \cup {"timeout"}
         \/ toClient' = toClient /\ toClient = <<>> /\ ~alive /\ faults' = faults
         \/ /\ toClient # <<>> /\ toClient' = Tail(toClient)
            /\ toClient[1].k # "Z" /\ faults' = faults \cup {"error"}
         \/ /\ toClient # <<>> /\ toClient' = Tail(toClient)
            /\ toClient[1].k = "Z" /\ faults' = faults
  PROVE  Wire'
<1>0. UNCHANGED <<toServer, torn, alive, skipping, verdict>> /\ faults \subseteq faults'
  BY DEF serverVars
<1>1. \A u \in Tasks : pc[u] \in OnStream => u = t
  BY OneSender DEF OnStream
<1>2. acc' = {} /\ \A u \in Tasks : ~Sent(u)'
  BY ReturnFacts DEF OnStream
<1>3. \A u \in Tasks : pc[u] # "syncing" /\ pc'[u] # "syncing" /\ pc'[u] # "reading" /\ (Sent(u) <=> u = t)
  BY <1>1, <1>2 DEF Sent, OnStream
<1>4. \A r : Open(r)' <=> Open(r)
  BY <1>0, <1>3 DEF Open
<1>5. toClient # <<>> =>
        /\ 1 \in DOMAIN toClient /\ Len(toClient) \in Nat /\ DOMAIN toClient = 1..Len(toClient)
        /\ Len(Tail(toClient)) = Len(toClient) - 1 /\ Tail(toClient) \in Seq(Replies)
        /\ DOMAIN Tail(toClient) = 1..(Len(toClient) - 1)
        /\ \A i \in 1..(Len(toClient) - 1) : Tail(toClient)[i] = toClient[i + 1]
  BY Typed, ReadFront
<1>6. LocalsOwned'
  BY <1>0, <1>2, Assumed DEF LocalsOwned
<1>7. ASSUME WholeGroups PROVE WholeGroups'
  <2>1. SyncFollows'
    BY <1>0, <1>3, <1>7 DEF WholeGroups, SyncFollows
  <2>2. OneAfterTheOther'
    <3>1. CASE toClient' = toClient
      BY <3>1, <1>4, <1>7 DEF WholeGroups, OneAfterTheOther
    <3>2. CASE toClient # <<>> /\ toClient' = Tail(toClient)
      BY <3>2, <1>4, <1>7, ReadKeepsOrder DEF WholeGroups
    <3>3. QED BY <3>1, <3>2
  <2>3. RunIsOfOne' /\ SkipsToSync' /\ AnswerComes'
    BY <1>0, <1>2, <1>3, <1>4, <1>7 DEF WholeGroups, RunIsOfOne, SkipsToSync, AnswerComes, Ids
  <2>4. QED BY <2>1, <2>2, <2>3 DEF WholeGroups
<1>8. ASSUME faults' = {}, CleanStream PROVE CleanStream'
  <2>1. toClient' = <<>>
    <3>1. CASE toClient # <<>> /\ toClient' = Tail(toClient) /\ toClient[1].k = "Z"
      <4>1. Len(toClient) = 1
        BY <3>1, <1>5, <1>8 DEF CleanStream, ReadyIsLast
      <4>2. QED BY <4>1, <3>1, Typed, LastRead
    <3>2. QED BY <3>1, <1>8
  <2>2. DOMAIN toClient' = {}
    BY <2>1
  <2>3. alive => toServer = <<>> /\ ~skipping
    <3>1. CASE ~alive
      BY <3>1
    <3>2. CASE toClient # <<>> /\ toClient[1].k = "Z"
      <4>1. alive => toServer = <<>>
        BY <3>2, <1>5, <1>8 DEF CleanStream, ReadyIsLast
      <4>2. verdict[req[t]] # "failed"
        BY <3>2, <1>3, <1>5, <1>8 DEF CleanStream, VerdictTold
      <4>3. alive => ~skipping
        BY <4>2, <1>3, <1>8 DEF CleanStream, RequestsOwn
      <4>4. QED BY <4>1, <4>3
    <3>3. QED BY <3>1, <3>2, <1>8
  <2>4. alive => DOMAIN toServer = {}
    BY <2>3
  <2>5. AllOwn' /\ ReadyIsLast'
    BY <2>2, <1>2 DEF AllOwn, ReadyIsLast
  <2>6. RequestsOwn' /\ VerdictTold'
    BY <2>3, <2>4, <1>0, <1>2, <1>3 DEF RequestsOwn, VerdictTold
  <2>7. QED BY <2>5, <2>6 DEF CleanStream
<1>9. ASSUME faults' # {}, faults' \subseteq {"error", "timeout"}, WholeGroups PROVE StaleInFront'
  <2> SUFFICES ASSUME toClient' = <<>>, alive PROVE toServer # <<>>
    BY <1>0, <1>2 DEF StaleInFront
  <2>1. CASE \E i \in DOMAIN toServer : toServer[i].of = req[t] /\ toServer[i].k \in {"Q", "S"}
    BY <2>1
  <2>2. CASE \E i \in DOMAIN toClient : toClient[i] = [k |-> "Z", of |-> req[t]]
    <3>1. PICK i \in DOMAIN toClient : toClient[i] = [k |-> "Z", of |-> req[t]]
      BY <2>2
    <3>2. toClient # <<>>
      BY <3>1
    <3>3. toClient' = Tail(toClient) /\ Len(toClient) = 1 /\ i = 1
      <4>1. toClient' = Tail(toClient) /\ Len(toClient) = 1
        BY <3>2, Typed, LastRead
      <4>2. QED BY <4>1, <1>5
    <3>4. toClient[1].k = "Z" /\ toClient[1].of = req[t] /\ faults' = faults
      BY <3>1, <3>2, <3>3
    <3>5. StaleInFront
      BY <3>4, <1>9, Assumed
    <3>6. QED BY <3>2, <3>4, <3>5, <1>3 DEF StaleInFront
  <2>3. QED BY <2>1, <2>2, <1>9 DEF WholeGroups, AnswerComes
<1>10. faults' \cap {"cut", "torn"} = {} => faults \cap {"cut", "torn"} = {}
  BY <1>0
<1>11. faults' \subseteq {"error", "timeout"} => faults' \cap {"cut", "torn"} = {}
  OBVIOUS
<1>12. QED BY <1>0, <1>6, <1>7, <1>8, <1>9, <1>10, <1>11, Assumed DEF Wire, Guarded

\* The reader keeps a message and reads on.
LEMMA ReadsOn ==
  ASSUME SessionInv, NEW t \in Tasks, pc[t] = "reading",
         toClient # <<>>, toClient' = Tail(toClient), toClient[1].k \notin {"E", "Z"},
         acc' = acc \cup {toClient[1].of},
         UNCHANGED <<pc, req, toServer, torn, serverVars, faults>>
  PROVE  Wire'
<1> DEFINE m == toClient[1]
<1>0. UNCHANGED <<pc, req, toServer, torn, alive, skipping, verdict, faults>>
  BY DEF serverVars
<1>1. \A u \in Tasks : (Sent(u) <=> u = t) /\ (Sent(u)' <=> u = t) /\ pc[u] # "syncing"
  BY <1>0, OneSender DEF Sent, OnStream
<1>2. \A r : (Own(r)' <=> Own(r)) /\ (Open(r)' <=> Open(r))
  BY <1>0 DEF Own, Open, Sent
<1>3. /\ 1 \in DOMAIN toClient /\ Len(toClient) \in Nat /\ Len(toClient) >= 1 /\ DOMAIN toClient = 1..Len(toClient)
      /\ toClient' \in Seq(Replies) /\ Len(toClient') = Len(toClient) - 1 /\ DOMAIN toClient' = 1..(Len(toClient) - 1)
      /\ \A i \in 1..(Len(toClient) - 1) : toClient'[i] = toClient[i + 1] /\ i + 1 \in DOMAIN toClient
      /\ m.of \in Ids
  BY Typed, ReadFront, TypedMessages
<1> HIDE DEF m
<1>3a. m.k \notin {"E", "Z"} /\ acc' = acc \cup {m.of} /\ m = toClient[1]
  BY DEF m
<1>4. toClient' # <<>> => Len(toClient) > 1 /\ toClient'[1] = toClient[2]
  BY <1>3
<1>5. toClient' = <<>> => Len(toClient) = 1
  BY Typed, LastRead
<1>6. LocalsOwned'
  BY <1>0, Assumed DEF LocalsOwned
<1>7. ASSUME WholeGroups
      PROVE  /\ toClient' # <<>> => toClient'[1].of = m.of
             /\ toClient' = <<>> => Open(m.of)
  <2>1. OneAfterTheOther
    BY <1>7 DEF WholeGroups
  <2>2. Len(toClient) > 1 => toClient[1 + 1].of = m.of
    BY <2>1, <1>3, <1>3a DEF OneAfterTheOther
  <2>3. Len(toClient) = 1 => Open(m.of)
    BY <2>1, <1>3, <1>3a DEF OneAfterTheOther
  <2>4. QED BY <2>2, <2>3, <1>4, <1>5
<1>8. ASSUME WholeGroups PROVE WholeGroups'
  <2>1. OneAfterTheOther'
    BY <1>2, <1>8, ReadKeepsOrder DEF WholeGroups
  <2>2. RunIsOfOne'
    <3>1. acc = {} \/ acc = {m.of}
      BY <1>3a, <1>8 DEF WholeGroups, RunIsOfOne
    <3>2. acc' = {m.of}
      BY <3>1, <1>3a
    <3>3. QED BY <3>2, <1>2, <1>3, <1>7, <1>8 DEF RunIsOfOne, Ids
  <2>3. AnswerComes'
    <3>1. ASSUME NEW u \in Tasks, NEW i \in DOMAIN toClient, toClient[i] = [k |-> "Z", of |-> req[u]]
          PROVE  \E j \in DOMAIN toClient' : toClient'[j] = [k |-> "Z", of |-> req[u]]
      <4>1. i # 1
        BY <3>1, <1>3a
      <4>2. i - 1 \in DOMAIN toClient' /\ toClient'[i - 1] = toClient[i]
        BY <4>1, <1>3
      <4>3. QED BY <4>2, <3>1
    <3>2. QED BY <3>1, <1>0, <1>8 DEF WholeGroups, AnswerComes
  <2>4. SyncFollows' /\ SkipsToSync'
    BY <1>0, <1>2, <1>8 DEF WholeGroups, SyncFollows, SkipsToSync, Ids
  <2>5. QED BY <2>1, <2>2, <2>3, <2>4 DEF WholeGroups
<1>9. ASSUME CleanStream PROVE CleanStream'
  <2>1. \A i \in DOMAIN toClient' : i + 1 \in DOMAIN toClient /\ toClient'[i] = toClient[i + 1]
    BY <1>3
  <2>2. AllOwn'
    BY <2>1, <1>2, <1>3, <1>3a, <1>9 DEF CleanStream, AllOwn
  <2>3. ReadyIsLast'
    <3> SUFFICES ASSUME NEW i \in DOMAIN toClient', toClient'[i].k = "Z"
                 PROVE  /\ i = Len(toClient')
                        /\ \A u \in Tasks : pc'[u] # "syncing"
                        /\ alive => toServer = <<>>
      BY <1>0 DEF ReadyIsLast
    <3>1. i + 1 = Len(toClient) /\ (alive => toServer = <<>>)
      BY <2>1, <1>9 DEF CleanStream, ReadyIsLast
    <3>2. i = Len(toClient')
      BY <3>1, <1>3
    <3>3. QED BY <3>1, <3>2, <1>0, <1>1
  <2>4. RequestsOwn'
    BY <1>0, <1>1, <1>2, <1>9 DEF CleanStream, RequestsOwn
  <2>5. VerdictTold'
    <3>1. verdict[req[t]] # "none"
      BY <1>1, <1>9 DEF CleanStream, VerdictTold
    <3>2. ASSUME verdict[req[t]] = "failed"
          PROVE  \E i \in DOMAIN toClient' : /\ toClient'[i].k = "E"
                                             /\ \A j \in DOMAIN toClient' : toClient'[j].k = "Z" => j > i
      <4>1. PICK i \in DOMAIN toClient : toClient[i].k = "E" /\ \A j \in DOMAIN toClient : toClient[j].k = "Z" => j > i
        BY <3>2, <1>1, <1>9 DEF CleanStream, VerdictTold
      <4>2. i # 1
        BY <4>1, <1>3a
      <4>3. i - 1 \in DOMAIN toClient' /\ toClient'[i - 1] = toClient[i]
        BY <4>2, <1>3
      <4>4. \A j \in DOMAIN toClient' : toClient'[j].k = "Z" => j > i - 1
        BY <4>1, <2>1, <1>3
      <4>5. QED BY <4>1, <4>3, <4>4
    <3>3. QED BY <3>1, <3>2, <1>0, <1>1 DEF VerdictTold
  <2>6. QED BY <2>2, <2>3, <2>4, <2>5 DEF CleanStream
<1>10. ASSUME WholeGroups, StaleInFront PROVE StaleInFront'
  <2>1. m.of # req[t] /\ req[t] \notin acc
    BY <1>1, <1>3a, <1>10 DEF StaleInFront
  <2>2. toClient' = <<>> => toServer # <<>> /\ toServer[1].of = m.of
    BY <1>1, <1>7, <1>10 DEF Open
  <2>3. QED BY <2>1, <2>2, <1>0, <1>1, <1>3a, <1>7, <1>10 DEF StaleInFront
<1>11. faults \subseteq {"error", "timeout"} => faults \cap {"cut", "torn"} = {}
  OBVIOUS
<1>12. QED BY <1>0, <1>6, <1>8, <1>9, <1>10, <1>11, Assumed DEF Wire, Guarded
\* A request is answered on a stream whose boundaries are known.
Served(ms) ==
  /\ ~torn /\ alive /\ toServer # <<>> /\ toServer' = Tail(toServer)
  /\ Answers(ms, toServer[1])
  /\ toClient' = toClient \o ms
  /\ Runs(toServer[1], ms) \/ (toServer[1].k = "S" /\ skipping' = FALSE /\ verdict' = verdict)
  /\ UNCHANGED <<pc, req, acc, alive, faults>>

LEMMA ServedFacts ==
  ASSUME SessionInv, NEW ms, Served(ms)
  PROVE  LET m == toServer[1] IN
         /\ m \in Requests /\ m.of \in Ids
         /\ 1 \in DOMAIN toServer /\ Len(toServer) \in Nat /\ DOMAIN toServer = 1..Len(toServer)
         /\ Len(toServer') = Len(toServer) - 1 /\ DOMAIN toServer' = 1..(Len(toServer) - 1)
         /\ \A i \in DOMAIN toServer' : i + 1 \in DOMAIN toServer /\ toServer'[i] = toServer[i + 1]
         /\ \A i \in DOMAIN toServer : i # 1 => i - 1 \in DOMAIN toServer' /\ toServer'[i - 1] = toServer[i]
         /\ toServer' = <<>> <=> Len(toServer) = 1
         /\ Len(toClient) \in Nat /\ Len(ms) \in Nat /\ Len(ms) >= 1
         /\ DOMAIN toClient = 1..Len(toClient) /\ DOMAIN ms = 1..Len(ms)
         /\ toClient' # <<>> /\ Len(toClient') = Len(toClient) + Len(ms)
         /\ DOMAIN toClient' = 1..(Len(toClient) + Len(ms))
         /\ \A i \in DOMAIN toClient : toClient'[i] = toClient[i]
         /\ \A i \in DOMAIN ms : Len(toClient) + i \in DOMAIN toClient' /\ toClient'[Len(toClient) + i] = ms[i]
         /\ \A i \in DOMAIN toClient' : i \in DOMAIN toClient \/ (i > Len(toClient) /\ i - Len(toClient) \in DOMAIN ms /\ toClient'[i] = ms[i - Len(toClient)])
<1> DEFINE m == toServer[1]
<1>1. /\ m \in Requests /\ m.of \in Ids
      /\ 1 \in DOMAIN toServer /\ Len(toServer) \in Nat /\ DOMAIN toServer = 1..Len(toServer)
      /\ Len(toServer') = Len(toServer) - 1 /\ DOMAIN toServer' = 1..(Len(toServer) - 1)
      /\ \A i \in 1..(Len(toServer) - 1) : i + 1 \in DOMAIN toServer /\ toServer'[i] = toServer[i + 1]
      /\ toServer' = <<>> <=> Len(toServer) = 1
  BY Typed, TypedMessages, ReadFront, LastRead DEF Served
<1>2. \A i \in DOMAIN toServer : i # 1 => i - 1 \in DOMAIN toServer' /\ toServer'[i - 1] = toServer[i]
  BY <1>1
<1> HIDE DEF m
<1>3. toClient \in Seq(Replies) /\ ms \in Seq(Replies) /\ ms # <<>> /\ toClient' = toClient \o ms
  BY Typed DEF Served, Answers
<1>4. /\ Len(toClient) \in Nat /\ Len(ms) \in Nat /\ DOMAIN toClient = 1..Len(toClient) /\ DOMAIN ms = 1..Len(ms)
      /\ Len(toClient') = Len(toClient) + Len(ms)
      /\ DOMAIN toClient' = 1..(Len(toClient) + Len(ms))
      /\ \A i \in 1..Len(toClient) : toClient'[i] = toClient[i]
      /\ \A i \in 1..Len(ms) : toClient'[Len(toClient) + i] = ms[i]
      /\ \A i \in 1..(Len(toClient) + Len(ms)) : i \in 1..Len(toClient) \/ i - Len(toClient) \in 1..Len(ms)
  BY <1>3, Joined
<1>5. Len(ms) >= 1
  BY <1>3, ReadFront
<1>6. toClient' # <<>>
  BY <1>4, <1>5
<1>7. \A i \in DOMAIN ms : Len(toClient) + i \in DOMAIN toClient'
  BY <1>4
<1>8. ASSUME NEW i \in DOMAIN toClient', i \notin DOMAIN toClient
      PROVE  i > Len(toClient) /\ i - Len(toClient) \in DOMAIN ms /\ toClient'[i] = ms[i - Len(toClient)]
  <2>1. i \in Nat /\ i - Len(toClient) \in 1..Len(ms) /\ i = Len(toClient) + (i - Len(toClient))
    BY <1>8, <1>4
  <2>2. QED BY <2>1, <1>4
<1>9. QED BY <1>1, <1>2, <1>4, <1>5, <1>6, <1>7, <1>8 DEF m

LEMMA ServedWhole ==
  ASSUME SessionInv, NEW ms, Served(ms), WholeGroups
  PROVE  WholeGroups'
<1> DEFINE m == toServer[1]
<1>0. /\ toServer # <<>> /\ UNCHANGED <<pc, req, acc, alive, faults>>
      /\ \A i \in DOMAIN ms : ms[i].of = m.of
      /\ ms[Len(ms)].k = "Z" <=> m.k # "P"
      /\ ms \in Seq(Replies)
      /\ skipping' => m.k = "P"
  BY DEF Served, Answers, Runs
<1>1. /\ m \in Requests /\ m.of \in Ids
      /\ 1 \in DOMAIN toServer /\ Len(toServer) \in Nat /\ DOMAIN toServer = 1..Len(toServer)
      /\ Len(toServer') = Len(toServer) - 1 /\ DOMAIN toServer' = 1..(Len(toServer) - 1)
      /\ \A i \in DOMAIN toServer' : i + 1 \in DOMAIN toServer /\ toServer'[i] = toServer[i + 1]
      /\ \A i \in DOMAIN toServer : i # 1 => i - 1 \in DOMAIN toServer' /\ toServer'[i - 1] = toServer[i]
      /\ toServer' = <<>> <=> Len(toServer) = 1
  BY ServedFacts
<1>2. /\ Len(toClient) \in Nat /\ Len(ms) \in Nat /\ Len(ms) >= 1
      /\ DOMAIN toClient = 1..Len(toClient) /\ DOMAIN ms = 1..Len(ms)
      /\ toClient' # <<>> /\ Len(toClient') = Len(toClient) + Len(ms)
      /\ DOMAIN toClient' = 1..(Len(toClient) + Len(ms))
      /\ \A i \in DOMAIN toClient : toClient'[i] = toClient[i]
      /\ \A i \in DOMAIN ms : Len(toClient) + i \in DOMAIN toClient' /\ toClient'[Len(toClient) + i] = ms[i]
      /\ \A i \in DOMAIN toClient' :
           \/ i \in DOMAIN toClient
           \/ i > Len(toClient) /\ i - Len(toClient) \in DOMAIN ms /\ toClient'[i] = ms[i - Len(toClient)]
  BY ServedFacts
<1>3. \A r : Open(r) => m = [k |-> "S", of |-> r]
  BY <1>0 DEF Open
<1>4. ASSUME NEW r, r = m.of, m.k = "P" PROVE Open(r)'
  <2> SUFFICES \/ toServer' # <<>> /\ toServer'[1] = [k |-> "S", of |-> r]
               \/ toServer' = <<>> /\ \E t \in Tasks : pc[t] = "syncing" /\ req[t] = r
    BY <1>0 DEF Open
  <2>1. CASE 1 < Len(toServer) /\ toServer[1 + 1] = [k |-> "S", of |-> r]
    <3>1. 1 \in DOMAIN toServer' /\ Len(toServer) # 1
      BY <2>1, <1>1
    <3>2. QED BY <3>1, <2>1, <1>1
  <2>2. CASE 1 = Len(toServer) /\ \E t \in Tasks : pc[t] = "syncing" /\ req[t] = r
    BY <2>2, <1>1
  <2>3. QED BY <2>1, <2>2, <1>1, <1>4 DEF WholeGroups, SyncFollows
<1> HIDE DEF m
<1>5. SyncFollows'
  <2> SUFFICES ASSUME NEW i \in DOMAIN toServer', toServer'[i].k = "P"
               PROVE  \/ i < Len(toServer') /\ toServer'[i + 1] = [k |-> "S", of |-> toServer'[i].of]
                      \/ i = Len(toServer') /\ \E t \in Tasks : pc[t] = "syncing" /\ req[t] = toServer'[i].of
    BY <1>0 DEF SyncFollows
  <2>1. /\ i + 1 \in DOMAIN toServer /\ toServer[i + 1] = toServer'[i]
        /\ \/ i + 1 < Len(toServer) /\ toServer[i + 1 + 1] = [k |-> "S", of |-> toServer'[i].of]
           \/ i + 1 = Len(toServer) /\ \E t \in Tasks : pc[t] = "syncing" /\ req[t] = toServer'[i].of
    BY <1>1 DEF WholeGroups, SyncFollows
  <2>2. CASE i + 1 < Len(toServer) /\ toServer[i + 1 + 1] = [k |-> "S", of |-> toServer'[i].of]
    <3>1. i + 1 \in DOMAIN toServer' /\ i < Len(toServer')
      BY <2>2, <1>1
    <3>2. QED BY <3>1, <2>2, <1>1
  <2>3. CASE i + 1 = Len(toServer) /\ \E t \in Tasks : pc[t] = "syncing" /\ req[t] = toServer'[i].of
    <3>1. i = Len(toServer')
      BY <2>3, <1>1
    <3>2. QED BY <3>1, <2>3
  <2>4. QED BY <2>1, <2>2, <2>3
<1>6. OneAfterTheOther'
  <2>1. ASSUME NEW i \in DOMAIN toClient', i < Len(toClient'), toClient'[i].k # "Z"
        PROVE  toClient'[i + 1].of = toClient'[i].of
    <3>1. CASE i \in DOMAIN toClient /\ i < Len(toClient)
      <4>1. i + 1 \in DOMAIN toClient
        BY <3>1, <1>2
      <4>2. QED BY <4>1, <3>1, <2>1, <1>2 DEF WholeGroups, OneAfterTheOther
    <3>2. CASE i \in DOMAIN toClient /\ i = Len(toClient)
      <4>1. toClient # <<>> /\ Open(toClient[i].of)
        BY <3>2, <2>1, <1>2 DEF WholeGroups, OneAfterTheOther
      <4>2. toClient'[i].of = m.of
        BY <4>1, <3>2, <1>2, <1>3
      <4>3. 1 \in DOMAIN ms /\ toClient'[i + 1] = ms[1]
        BY <3>2, <1>2
      <4>4. QED BY <4>2, <4>3, <1>0
    <3>3. CASE i \notin DOMAIN toClient
      <4>1. i - Len(toClient) \in DOMAIN ms /\ toClient'[i].of = m.of
        BY <3>3, <1>0, <1>2
      <4>2. i + 1 \in DOMAIN toClient' /\ i + 1 \notin DOMAIN toClient
        BY <3>3, <2>1, <1>2
      <4>3. toClient'[i + 1].of = m.of
        BY <4>2, <1>0, <1>2
      <4>4. QED BY <4>1, <4>3
    <3>4. QED BY <3>1, <3>2, <3>3, <1>2
  <2>2. ASSUME toClient'[Len(toClient')].k # "Z" PROVE Open(toClient[Len(toClient)].of)'
    <3>1. Len(ms) \in DOMAIN ms /\ toClient'[Len(toClient')] = ms[Len(ms)]
      BY <1>2
    <3>2. m.k = "P" /\ toClient'[Len(toClient')].of = m.of
      BY <3>1, <2>2, <1>0
    <3>3. PICK r : r = m.of
      OBVIOUS
    <3>4. Open(r)'
      BY <3>2, <3>3, <1>4
    <3>5. QED BY <3>2, <3>3, <3>4 DEF Open
  <2>3. QED BY <2>1, <2>2 DEF OneAfterTheOther
<1>7. RunIsOfOne'
  <2>1. ASSUME acc # {} PROVE acc = {toClient'[1].of} /\ toClient'[1].of \in Ids
    <3>1. PICK r \in Ids : acc = {r} /\ (toClient # <<>> => toClient[1].of = r) /\ (toClient = <<>> => Open(r))
      BY <2>1 DEF WholeGroups, RunIsOfOne
    <3>2. CASE toClient # <<>>
      <4>1. 1 \in DOMAIN toClient
        BY <3>2, Typed, ReadFront
      <4>2. QED BY <4>1, <3>1, <3>2, <1>2
    <3>3. CASE toClient = <<>>
      <4>1. r = m.of
        BY <3>1, <3>3, <1>3
      <4>2. 1 \in DOMAIN ms /\ Len(toClient) + 1 = 1
        BY <3>3, <1>2
      <4>3. toClient'[1] = ms[1]
        BY <4>2, <1>2
      <4>4. QED BY <4>1, <4>2, <4>3, <3>1, <1>0
    <3>4. QED BY <3>2, <3>3
  <2>2. QED BY <2>1, <1>0, <1>2 DEF RunIsOfOne, Ids
<1>8. SkipsToSync'
  <2>1. skipping' => \E r \in Ids : r = m.of /\ m.k = "P"
    BY <1>0, <1>1
  <2>2. \A r : r = m.of /\ m.k = "P" => Open(r)'
    BY <1>4
  <2>3. QED BY <2>1, <2>2 DEF SkipsToSync, Ids
<1>9. AnswerComes'
  <2> SUFFICES ASSUME NEW t \in Tasks, pc[t] = "reading"
               PROVE  \/ \E i \in DOMAIN toClient' : toClient'[i] = [k |-> "Z", of |-> req[t]]
                      \/ \E i \in DOMAIN toServer' : toServer'[i].of = req[t] /\ toServer'[i].k \in {"Q", "S"}
    BY <1>0 DEF AnswerComes
  <2>1. CASE \E i \in DOMAIN toClient : toClient[i] = [k |-> "Z", of |-> req[t]]
    BY <2>1, <1>2
  <2>2. CASE \E i \in DOMAIN toServer : i # 1 /\ toServer[i].of = req[t] /\ toServer[i].k \in {"Q", "S"}
    BY <2>2, <1>1
  <2>3. CASE m.of = req[t] /\ m.k \in {"Q", "S"}
    <3>1. Len(ms) \in DOMAIN ms /\ ms[Len(ms)].k = "Z" /\ ms[Len(ms)].of = req[t]
      BY <2>3, <1>0, <1>2
    <3>2. ms[Len(ms)] \in Replies
      BY <3>1, <1>0
    <3>3. ms[Len(ms)] = [k |-> "Z", of |-> req[t]]
      BY <3>1, <3>2 DEF Replies
    <3>4. QED BY <3>1, <3>3, <1>2
  <2>4. QED BY <2>1, <2>2, <2>3 DEF WholeGroups, AnswerComes, m
<1>10. QED BY <1>5, <1>6, <1>7, <1>8, <1>9 DEF WholeGroups

LEMMA ServedClean ==
  ASSUME SessionInv, NEW ms, Served(ms), CleanStream
  PROVE  CleanStream'
<1> DEFINE m == toServer[1]
<1>0. /\ toServer # <<>> /\ alive /\ UNCHANGED <<pc, req, acc, alive, faults>>
      /\ \A i \in DOMAIN ms : ms[i].of = m.of /\ (ms[i].k = "Z" => i = Len(ms))
      /\ ms[Len(ms)].k = "Z" <=> m.k # "P"
      /\ Runs(m, ms) \/ (m.k = "S" /\ skipping' = FALSE /\ verdict' = verdict)
  BY DEF Served, Answers
<1>1. /\ m \in Requests /\ m.of \in Ids
      /\ 1 \in DOMAIN toServer /\ Len(toServer) \in Nat /\ DOMAIN toServer = 1..Len(toServer)
      /\ Len(toServer') = Len(toServer) - 1 /\ DOMAIN toServer' = 1..(Len(toServer) - 1)
      /\ \A i \in DOMAIN toServer' : i + 1 \in DOMAIN toServer /\ toServer'[i] = toServer[i + 1]
      /\ toServer' = <<>> <=> Len(toServer) = 1
  BY ServedFacts
<1>2. /\ Len(toClient) \in Nat /\ Len(ms) \in Nat /\ Len(ms) >= 1
      /\ DOMAIN toClient = 1..Len(toClient) /\ DOMAIN ms = 1..Len(ms)
      /\ Len(toClient') = Len(toClient) + Len(ms)
      /\ DOMAIN toClient' = 1..(Len(toClient) + Len(ms))
      /\ \A i \in DOMAIN toClient : toClient'[i] = toClient[i]
      /\ \A i \in DOMAIN ms : Len(toClient) + i \in DOMAIN toClient' /\ toClient'[Len(toClient) + i] = ms[i]
      /\ \A i \in DOMAIN toClient' :
           \/ i \in DOMAIN toClient
           \/ i > Len(toClient) /\ i - Len(toClient) \in DOMAIN ms /\ toClient'[i] = ms[i - Len(toClient)]
  BY ServedFacts
<1>3. PICK t \in Tasks : Sent(t) /\ req[t] = m.of
  BY <1>0, <1>1 DEF CleanStream, RequestsOwn, Own
<1>4. \A u \in Tasks : Sent(u) <=> u = t
  <2>1. \A u \in Tasks : pc[u] \in OnStream => u = t
    BY <1>3, OneSender DEF Sent, OnStream
  <2>2. QED BY <2>1, <1>3 DEF Sent, OnStream
<1>5. \A r : Own(r)' <=> Own(r)
  BY <1>0 DEF Own, Sent
<1>6. Own(m.of)
  BY <1>3 DEF Own
<1>7. \A i \in DOMAIN toClient : toClient[i].k # "Z"
  BY <1>0 DEF CleanStream, ReadyIsLast
<1>8. m.k # "P" => Len(toServer) = 1 /\ toServer' = <<>> /\ \A u \in Tasks : pc[u] # "syncing"
  BY <1>0, <1>1 DEF CleanStream, RequestsOwn
<1> HIDE DEF m
<1>9. AllOwn'
  <2>1. \A i \in DOMAIN toClient' : Own(toClient'[i].of)
    BY <1>0, <1>2, <1>6 DEF CleanStream, AllOwn
  <2>2. QED BY <2>1, <1>0, <1>5 DEF CleanStream, AllOwn
<1>10. ReadyIsLast'
  <2> SUFFICES ASSUME NEW i \in DOMAIN toClient', toClient'[i].k = "Z"
               PROVE  i = Len(toClient') /\ (\A u \in Tasks : pc[u] # "syncing") /\ toServer' = <<>>
    BY <1>0 DEF ReadyIsLast
  <2>1. i - Len(toClient) \in DOMAIN ms /\ toClient'[i] = ms[i - Len(toClient)] /\ i \in Nat
    BY <1>2, <1>7
  <2>2. i - Len(toClient) = Len(ms) /\ m.k # "P"
    BY <2>1, <1>0
  <2>3. i = Len(toClient')
    BY <2>1, <2>2, <1>2
  <2>4. QED BY <2>2, <2>3, <1>8
<1>11. RequestsOwn'
  <2>1. \A i \in DOMAIN toServer' : Own(toServer'[i].of)
    BY <1>0, <1>1 DEF CleanStream, RequestsOwn
  <2>2. \A i \in DOMAIN toServer' : toServer'[i].k # "P" => i = Len(toServer')
    BY <1>0, <1>1 DEF CleanStream, RequestsOwn
  <2>3. \A u \in Tasks : pc[u] = "syncing" => \A i \in DOMAIN toServer' : toServer'[i].k = "P"
    BY <1>0, <1>1 DEF CleanStream, RequestsOwn
  <2>4. skipping' => verdict'[req[t]] = "failed"
    <3> SUFFICES ASSUME skipping', Runs(m, ms) PROVE verdict'[m.of] = "failed"
      BY <1>0, <1>3
    <3>1. QED BY <1>1, Typed DEF Runs
  <2>5. QED BY <2>1, <2>2, <2>3, <2>4, <1>0, <1>4, <1>5 DEF RequestsOwn, Sent
<1>12. VerdictTold'
  <2> SUFFICES /\ verdict'[m.of] # "none"
               /\ verdict'[m.of] = "failed" =>
                    \E i \in DOMAIN toClient' : /\ toClient'[i].k = "E"
                                                /\ \A j \in DOMAIN toClient' : toClient'[j].k = "Z" => j > i
    BY <1>0, <1>3, <1>4 DEF VerdictTold, Sent
  <2>1. CASE Runs(m, ms)
    <3>1. PICK v \in {"done", "failed"} :
            /\ verdict' = [verdict EXCEPT ![m.of] = v]
            /\ v = "failed" => \E i \in DOMAIN ms : ms[i].k = "E"
      BY <2>1 DEF Runs
    <3>2. verdict'[m.of] = v
      BY <3>1, <1>1, Typed
    <3>3. ASSUME NEW i \in DOMAIN ms, ms[i].k = "E"
          PROVE  \E n \in DOMAIN toClient' : /\ toClient'[n].k = "E"
                                             /\ \A j \in DOMAIN toClient' : toClient'[j].k = "Z" => j > n
      <4>1. i < Len(ms) \/ ms[Len(ms)].k # "Z"
        BY <3>3, <1>2
      <4>2. ASSUME NEW j \in DOMAIN toClient', toClient'[j].k = "Z" PROVE j > Len(toClient) + i
        <5>1. j - Len(toClient) \in DOMAIN ms /\ ms[j - Len(toClient)].k = "Z" /\ j \in Nat
          BY <4>2, <1>2, <1>7
        <5>2. j - Len(toClient) = Len(ms) /\ ms[Len(ms)].k = "Z"
          BY <5>1, <1>0
        <5>3. i < Len(ms)
          BY <5>2, <4>1
        <5>4. QED BY <5>1, <5>2, <5>3, <1>2
      <4>3. Len(toClient) + i \in DOMAIN toClient' /\ toClient'[Len(toClient) + i].k = "E"
        BY <3>3, <1>2
      <4>4. QED BY <4>2, <4>3
    <3>4. QED BY <3>1, <3>2, <3>3
  <2>2. CASE m.k = "S" /\ verdict' = verdict
    <3>1. verdict[m.of] # "none"
      BY <2>2, <1>0, <1>3 DEF CleanStream, VerdictTold, m
    <3>2. ASSUME verdict[m.of] = "failed"
          PROVE  \E i \in DOMAIN toClient' : /\ toClient'[i].k = "E"
                                             /\ \A j \in DOMAIN toClient' : toClient'[j].k = "Z" => j > i
      <4>1. PICK i \in DOMAIN toClient : toClient[i].k = "E"
        BY <3>2, <1>3 DEF CleanStream, VerdictTold
      <4>2. i \in DOMAIN toClient' /\ toClient'[i].k = "E"
        BY <4>1, <1>2
      <4>3. \A j \in DOMAIN toClient' : toClient'[j].k = "Z" => j > i
        BY <4>1, <1>2, <1>7
      <4>4. QED BY <4>2, <4>3
    <3>3. QED BY <2>2, <3>1, <3>2
  <2>3. QED BY <2>1, <2>2, <1>0
<1>13. QED BY <1>9, <1>10, <1>11, <1>12 DEF CleanStream

LEMMA ServedStale ==
  ASSUME SessionInv, NEW ms, Served(ms), StaleInFront
  PROVE  StaleInFront'
<1>1. /\ UNCHANGED <<pc, req, acc, alive>> /\ alive /\ toServer # <<>>
      /\ \A i \in DOMAIN ms : ms[i].of = toServer[1].of
  BY DEF Served, Answers
<1>2. /\ Len(toClient) \in Nat /\ Len(ms) \in Nat /\ Len(ms) >= 1 /\ DOMAIN ms = 1..Len(ms)
      /\ toClient' # <<>>
      /\ \A i \in DOMAIN toClient : toClient'[i] = toClient[i]
      /\ \A i \in DOMAIN ms : toClient'[Len(toClient) + i] = ms[i]
  BY ServedFacts
<1>3. ASSUME NEW t \in Tasks, Sent(t) PROVE toClient'[1].of # req[t]
  <2>1. CASE toClient # <<>>
    <3>1. 1 \in DOMAIN toClient
      BY <2>1, Typed, ReadFront
    <3>2. QED BY <3>1, <2>1, <1>2, <1>3 DEF StaleInFront
  <2>2. CASE toClient = <<>>
    <3>1. 1 \in DOMAIN ms /\ Len(toClient) + 1 = 1
      BY <2>2, <1>2
    <3>2. toClient'[1] = ms[1]
      BY <3>1, <1>2
    <3>3. QED BY <3>1, <3>2, <2>2, <1>1, <1>3 DEF StaleInFront
  <2>3. QED BY <2>1, <2>2
<1>4. QED BY <1>1, <1>2, <1>3 DEF StaleInFront, Sent
\* The backend reads a request and answers it: run, skipped or a Sync.
LEMMA ServeKeeps ==
  ASSUME SessionInv, Serve
  PROVE  Wire'
<1> DEFINE m == toServer[1]
<1>0. /\ UNCHANGED <<pc, req, acc, torn, alive, faults>> /\ alive
      /\ toServer # <<>> /\ m \in Requests /\ toServer' = Tail(toServer)
  BY ServeFacts DEF clientVars, runVars
<1>1. LocalsOwned'
  BY <1>0, Assumed DEF LocalsOwned
<1>2. CASE "torn" \in faults
  BY <1>0, <1>1, <1>2 DEF Wire, Guarded
<1>3. CASE faults \cap {"cut", "torn"} # {}
  BY <1>0, <1>1, <1>3 DEF Wire, Guarded
<1>4. CASE faults \cap {"cut", "torn"} = {}
  <2>1. WholeGroups /\ ~torn
    BY <1>4, Assumed
  <2>2. ASSUME skipping PROVE m.k = "S"
    <3>1. PICK r \in Ids : Open(r)
      BY <2>1, <2>2 DEF WholeGroups, SkipsToSync
    <3>2. m = [k |-> "S", of |-> r]
      BY <3>1, <1>0 DEF Open
    <3>3. QED BY <3>2
  <2>3. PICK ms :
          /\ Answers(ms, m)
          /\ toClient' = toClient \o ms
          /\ Runs(m, ms) \/ (m.k = "S" /\ skipping' = FALSE /\ verdict' = verdict)
    BY <2>1, <2>2, ServeFacts
  <2>4. Served(ms) /\ UNCHANGED <<pc, req, acc, torn, alive, faults>>
    BY <2>1, <2>3, <1>0 DEF Served
  <2>5. WholeGroups'
    BY <2>1, <2>4, ServedWhole
  <2>6. faults = {} => CleanStream'
    BY <2>4, ServedClean, Assumed
  <2>7. faults # {} /\ faults \subseteq {"error", "timeout"} => StaleInFront'
    BY <2>4, ServedStale, Assumed
  <2>8. QED BY <2>5, <2>6, <2>7, <1>0, <1>1 DEF Wire, Guarded
<1>5. QED BY <1>3, <1>4
-----------------------------------------------------------------------------
(* The invariant, action by action.                                        *)

Rest == Basic /\ Wire /\ WholeAnswer

\* What a call returned stays, and the doubt about the stream never ends.
LEMMA AnswersKeep ==
  ASSUME SessionInv, faults \subseteq faults',
         \A u \in Tasks :
           \/ result'[u] = result[u]
           \/ result'[u].st # "ok"
           \/ faults \cap {"cut", "torn"} = {} => \E r \in Ids : result'[u].from = {r}
  PROVE  WholeAnswer'
<1>1. WholeAnswer
  BY DEF SessionInv
<1>2. faults' \cap {"cut", "torn"} = {} => faults \cap {"cut", "torn"} = {}
  OBVIOUS
<1>3. QED BY <1>1, <1>2 DEF WholeAnswer, Ids

\* A call returns, with nothing written or run.
LEMMA ReturnRest ==
  ASSUME SessionInv, NEW t \in Tasks, NEW st, NEW from, Return(t, st, from),
         UNCHANGED <<toServer, verdict>>, faults \subseteq faults',
         \A i \in DOMAIN toClient' : \E j \in DOMAIN toClient : toClient'[i] = toClient[j],
         st = "ok" /\ faults \cap {"cut", "torn"} = {} => \E r \in Ids : from = {r}
  PROVE  Basic' /\ WholeAnswer'
<1>1. /\ \A u \in Tasks :
           /\ pc'[u] = IF u = t THEN "idle" ELSE pc[u]
           /\ req'[u] = IF u = t THEN 0 ELSE req[u]
      /\ result' = [result EXCEPT ![t] = [st |-> st, from |-> from]]
      /\ issued' = issued
  BY ReturnFacts
<1>2. Basic'
  BY <1>1, QuietBasic DEF Calling
<1>3. \A u \in Tasks : result'[u] = IF u = t THEN [st |-> st, from |-> from] ELSE result[u]
  BY <1>1, Typed
<1>4. WholeAnswer'
  BY <1>3, AnswersKeep
<1>5. QED BY <1>2, <1>4

\* A call that has not written gives up.
LEMMA EarlyFailKeeps ==
  ASSUME SessionInv, NEW t \in Tasks, Fail(t), ~Sent(t), UNCHANGED <<wireVars, serverVars, faults>>
  PROVE  Rest'
<1>1. Return(t, "err", {}) /\ UNCHANGED <<toServer, toClient, verdict, faults>>
  BY DEF Fail, wireVars, serverVars
<1>2. Basic' /\ WholeAnswer'
  BY <1>1, ReturnRest
<1>3. /\ \A u \in Tasks :
           /\ pc'[u] = IF u = t THEN "idle" ELSE pc[u]
           /\ req'[u] = IF u = t THEN 0 ELSE req[u]
      /\ acc' = acc \/ acc' = {}
  BY <1>1, ReturnFacts
<1>4. \A u \in Tasks : Sent(u) \/ Sent(u)' => pc'[u] = pc[u] /\ req'[u] = req[u]
  BY <1>3 DEF Sent
<1>5. Wire'
  BY <1>3, <1>4, OutsideKeeps
<1>6. QED BY <1>2, <1>5 DEF Rest

\* A call that leaves the stream cut or torn.
LEMMA CutFailKeeps ==
  ASSUME SessionInv, NEW t \in Tasks, Fail(t), pc[t] \in OnStream, UNCHANGED <<toServer, verdict>>,
         toClient' = toClient \/ toClient' = <<>>, faults \subseteq faults',
         faults' \cap {"cut", "torn"} # {}, torn' => torn \/ "torn" \in faults'
  PROVE  Rest'
<1>1. Return(t, "err", {})
  BY DEF Fail
<1>2. \A i \in DOMAIN toClient' : \E j \in DOMAIN toClient : toClient'[i] = toClient[j]
  <2>1. DOMAIN <<>> = {}
    OBVIOUS
  <2>2. QED BY <2>1
<1>3. Basic' /\ WholeAnswer'
  BY <1>1, <1>2, ReturnRest
<1>4. acc' = {}
  BY <1>1, ReturnFacts
<1>5. torn' => "torn" \in faults'
  BY Assumed
<1>6. Wire'
  BY <1>4, <1>5, CutKeeps
<1>7. QED BY <1>3, <1>6 DEF Rest

LEMMA TimeoutKeeps ==
  ASSUME SessionInv, NEW t \in Tasks, WriteFails(t) \/ Timeout(t)
  PROVE  Rest'
<1>1. Fail(t) /\ UNCHANGED <<toServer, serverVars>>
  BY DEF WriteFails, Timeout, wireVars
<1>2. \/ pc[t] \in {"waiting", "writing"} /\ UNCHANGED <<toClient, torn, faults>>
      \/ pc[t] = "syncing" /\ UNCHANGED <<toClient, torn>> /\ faults' = faults \cup {"cut"}
      \/ pc[t] = "reading" /\ UNCHANGED <<toClient, torn>> /\ faults' = faults \cup {"timeout"}
      \/ pc[t] = "reading" /\ toClient' = <<>> /\ torn' = TRUE /\ faults' = faults \cup {"timeout", "torn"}
  BY DEF WriteFails, Timeout, wireVars
<1>3. verdict' = verdict
  BY <1>1 DEF serverVars
<1>4. CASE pc[t] \in {"waiting", "writing"} /\ UNCHANGED <<toClient, torn, faults>>
  <2>1. ~Sent(t) /\ UNCHANGED <<wireVars, faults>>
    BY <1>1, <1>4 DEF Sent, wireVars
  <2>2. QED BY <2>1, <1>1, EarlyFailKeeps
<1>5. CASE pc[t] = "syncing" /\ UNCHANGED <<toClient, torn>> /\ faults' = faults \cup {"cut"}
  BY <1>1, <1>3, <1>5, CutFailKeeps DEF OnStream
<1>6. CASE pc[t] = "reading" /\ UNCHANGED <<toClient, torn>> /\ faults' = faults \cup {"timeout"}
  <2>1. Return(t, "err", {})
    BY <1>1 DEF Fail
  <2>2. Basic' /\ WholeAnswer'
    BY <2>1, <1>1, <1>3, <1>6, ReturnRest
  <2>3. Wire'
    BY <2>1, <1>1, <1>6, ReaderLeaves
  <2>4. QED BY <2>2, <2>3 DEF Rest
<1>7. CASE pc[t] = "reading" /\ toClient' = <<>> /\ torn' = TRUE /\ faults' = faults \cup {"timeout", "torn"}
  BY <1>1, <1>3, <1>7, CutFailKeeps DEF OnStream
<1>8. QED BY <1>2, <1>4, <1>5, <1>6, <1>7

\* What the front message of a whole answer is about.
LEMMA AnswerIsOfOne ==
  ASSUME SessionInv, toClient # <<>>, faults \cap {"cut", "torn"} = {}
  PROVE  acc \cup {toClient[1].of} = {toClient[1].of} /\ toClient[1].of \in Ids
<1>1. acc = {} \/ acc = {toClient[1].of}
  BY Assumed DEF WholeGroups, RunIsOfOne
<1>2. toClient[1].of \in Ids
  BY Typed, ReadFront, TypedMessages
<1>3. QED BY <1>1, <1>2

LEMMA ReadKeeps ==
  ASSUME SessionInv, NEW t \in Tasks, Read(t)
  PROVE  Rest'
<1>0. pc[t] = "reading" /\ UNCHANGED <<toServer, torn, serverVars, verdict>>
  BY DEF Read, serverVars
<1>1. ASSUME toClient # <<>>, toClient' = Tail(toClient)
      PROVE  /\ Head(toClient) = toClient[1]
             /\ \A i \in DOMAIN toClient' : \E j \in DOMAIN toClient : toClient'[i] = toClient[j]
  BY <1>1, Typed, ReadFront
<1>2. ASSUME UNCHANGED clientVars
      PROVE  UNCHANGED <<pc, req, issued, result>>
  BY <1>2 DEF clientVars
<1>3. CASE ReadAligned(t)
  <2> DEFINE m == toClient[1]
  <2>1. toClient # <<>> /\ toClient' = Tail(toClient) /\ Head(toClient) = m
    BY <1>1, <1>3 DEF ReadAligned
  <2>2. \/ /\ m.k \notin {"E", "Z"} /\ acc' = acc \cup {m.of}
           /\ UNCHANGED <<clientVars, faults>>
        \/ m.k # "Z" /\ Fail(t) /\ faults' = faults \cup {"error"}
        \/ m.k = "Z" /\ Return(t, "ok", acc \cup {m.of}) /\ UNCHANGED faults
    BY <2>1, <1>3 DEF ReadAligned, Keep
  <2>3. CASE m.k \notin {"E", "Z"} /\ acc' = acc \cup {m.of} /\ UNCHANGED <<clientVars, faults>>
    <3>1. UNCHANGED <<pc, req, issued, result>>
      BY <2>3, <1>2
    <3>2. Wire'
      BY <3>1, <2>1, <2>3, <1>0, ReadsOn
    <3>3. Basic'
      BY <3>1, <2>1, <1>0, <1>1, QuietBasic
    <3>4. WholeAnswer'
      BY <3>1, <2>3, AnswersKeep
    <3>5. QED BY <3>2, <3>3, <3>4 DEF Rest
  <2>4. CASE m.k # "Z" /\ Fail(t) /\ faults' = faults \cup {"error"}
    <3>1. Return(t, "err", {})
      BY <2>4 DEF Fail
    <3>2. Basic' /\ WholeAnswer'
      BY <3>1, <2>1, <2>4, <1>0, <1>1, ReturnRest
    <3>3. Wire'
      BY <3>1, <2>1, <2>4, <1>0, ReaderLeaves
    <3>4. QED BY <3>2, <3>3 DEF Rest
  <2>5. CASE m.k = "Z" /\ Return(t, "ok", acc \cup {m.of}) /\ UNCHANGED faults
    <3>1. faults \cap {"cut", "torn"} = {} => \E r \in Ids : acc \cup {m.of} = {r}
      BY <2>1, AnswerIsOfOne
    <3>2. Basic' /\ WholeAnswer'
      BY <3>1, <2>1, <2>5, <1>0, <1>1, ReturnRest
    <3>3. Wire'
      BY <2>1, <2>5, <1>0, ReaderLeaves
    <3>4. QED BY <3>2, <3>3 DEF Rest
  <2>6. QED BY <2>2, <2>3, <2>4, <2>5
<1>4. CASE ReadTorn(t)
  <2>1. torn /\ "torn" \in faults /\ UNCHANGED <<toClient, faults>> /\ faults \cap {"cut", "torn"} # {}
    BY <1>4, Assumed DEF ReadTorn
  <2>2. CASE UNCHANGED clientVars
    <3>1. UNCHANGED <<pc, req, issued, result>>
      BY <2>2, <1>2
    <3>2. Basic'
      BY <3>1, <2>1, <1>0, QuietBasic
    <3>3. Wire'
      BY <3>1, <2>1, <1>0, CutKeeps
    <3>4. WholeAnswer'
      BY <3>1, <2>1, AnswersKeep
    <3>5. QED BY <3>2, <3>3, <3>4 DEF Rest
  <2>3. ASSUME NEW st, NEW from, Return(t, st, from) PROVE Rest'
    <3>1. Basic' /\ WholeAnswer'
      BY <2>1, <2>3, <1>0, ReturnRest
    <3>2. acc' = {}
      BY <2>3, <1>0, ReturnFacts DEF OnStream
    <3>3. Wire'
      BY <3>2, <2>1, <1>0, CutKeeps
    <3>4. QED BY <3>1, <3>3 DEF Rest
  <2>4. QED BY <2>2, <2>3, <1>4 DEF ReadTorn, Fail
<1>5. CASE ReadEof(t)
  <2>1. Return(t, "err", {}) /\ ~alive /\ toClient = <<>> /\ UNCHANGED <<toClient, faults>>
    BY <1>5 DEF ReadEof, Fail
  <2>2. Basic' /\ WholeAnswer'
    BY <2>1, <1>0, ReturnRest
  <2>3. Wire'
    BY <2>1, <1>0, ReaderLeaves
  <2>4. QED BY <2>2, <2>3 DEF Rest
<1>6. QED BY <1>3, <1>4, <1>5 DEF Read

LEMMA SessionStep ==
  ASSUME SessionInv, [Next]_vars
  PROVE  SessionInv'
<1>0. MutexType' /\ StreamOwner' /\ Types'
  BY StepKeeps, TypesStep DEF SessionInv
<1>1. ASSUME NEW t \in Tasks, Execute(t) PROVE Rest'
  <2>1. /\ \A u \in Tasks : u # t => pc'[u] = pc[u] /\ req'[u] = req[u] /\ result'[u] = result[u]
        /\ pc[t] = "idle" /\ pc'[t] = "waiting" /\ result'[t].st # "ok"
        /\ acc' = acc /\ faults' = faults
    BY <1>1, Typed DEF Execute, NoResult, runVars
  <2>2. \A u \in Tasks : Sent(u) \/ Sent(u)' => pc'[u] = pc[u] /\ req'[u] = req[u]
    BY <2>1 DEF Sent
  <2>3. Wire'
    BY <1>1, <2>1, <2>2, OutsideKeeps DEF Execute
  <2>4. WholeAnswer'
    BY <2>1, AnswersKeep
  <2>5. QED BY <2>3, <2>4, <1>1, ExecuteBasic DEF Rest
<1>2. ASSUME NEW t \in Tasks, PingClosed(t) PROVE Rest'
  <2>1. /\ UNCHANGED <<pc, req, issued, acc, toServer, toClient, verdict, faults>>
        /\ \A u \in Tasks : u # t => result'[u] = result[u]
        /\ result'[t].st # "ok"
    BY <1>2, Typed DEF PingClosed, runVars, wireVars, serverVars
  <2>2. Wire'
    BY <1>2, <2>1, OutsideKeeps DEF PingClosed
  <2>3. Basic'
    BY <2>1, QuietBasic
  <2>4. WholeAnswer'
    BY <2>1, AnswersKeep
  <2>5. QED BY <2>2, <2>3, <2>4 DEF Rest
<1>3. ASSUME NEW t \in Tasks, CloseBegin(t) \/ CloseTake(t) \/ CloseEnd(t) PROVE Rest'
  <2>1. /\ UNCHANGED <<req, result, issued, runVars, serverVars, wireVars, faults>>
        /\ pc[t] \notin Calling /\ \E phase \in {"closing", "shutting", "idle"} : pc' = [pc EXCEPT ![t] = phase]
    BY <1>3 DEF CloseBegin, CloseTake, CloseEnd, Calling
  <2>2. \A u \in Tasks : /\ u # t => pc'[u] = pc[u]
                         /\ pc'[t] \notin Calling
    BY <2>1, Typed DEF Calling
  <2>3. UNCHANGED <<acc, toServer, toClient, verdict, faults>>
    BY <2>1 DEF runVars, serverVars, wireVars
  <2>4. \A u \in Tasks : Sent(u) \/ Sent(u)' => pc'[u] = pc[u] /\ req'[u] = req[u]
    BY <2>1, <2>2 DEF Sent, Calling
  <2>5. Wire'
    BY <2>1, <2>3, <2>4, OutsideKeeps
  <2>6. req[t] = 0
    BY <2>1 DEF SessionInv, OwnStatements
  <2>7. Basic'
    BY <2>1, <2>2, <2>3, <2>6, QuietBasic
  <2>8. WholeAnswer'
    BY <2>1, AnswersKeep
  <2>9. QED BY <2>5, <2>7, <2>8 DEF Rest
<1>4. ASSUME NEW t \in Tasks, Acquire(t) PROVE Rest'
  <2>1. pc[t] = "waiting" /\ UNCHANGED <<serverVars, wireVars, faults>>
    BY <1>4 DEF Acquire
  <2>2. CASE Fail(t)
    BY <2>1, <2>2, EarlyFailKeeps DEF Sent
  <2>3. CASE Goto(t, "writing") /\ UNCHANGED runVars
    <3>1. /\ UNCHANGED <<req, result, issued, acc, toServer, toClient, verdict, faults>>
          /\ pc'[t] = "writing" /\ \A u \in Tasks : u # t => pc'[u] = pc[u]
      BY <2>1, <2>3, Typed DEF Goto, runVars, serverVars, wireVars
    <3>2. \A u \in Tasks : Sent(u) \/ Sent(u)' => pc'[u] = pc[u] /\ req'[u] = req[u]
      BY <3>1, <2>1 DEF Sent
    <3>3. Wire'
      BY <2>1, <3>1, <3>2, OutsideKeeps
    <3>4. Basic'
      BY <2>1, <3>1, QuietBasic DEF Calling
    <3>5. WholeAnswer'
      BY <3>1, AnswersKeep
    <3>6. QED BY <3>3, <3>4, <3>5 DEF Rest
  <2>4. QED BY <2>2, <2>3, <1>4 DEF Acquire
<1>5. ASSUME NEW t \in Tasks, Write(t) PROVE Rest'
  <2>1. pc[t] = "writing" /\ UNCHANGED <<toClient, torn, runVars, serverVars, faults, verdict>>
    BY <1>5 DEF Write, serverVars
  <2>2. PICK k \in {"Q", "P"} :
          /\ toServer' = Append(toServer, [k |-> k, of |-> req[t]])
          /\ Goto(t, IF k = "P" THEN "syncing" ELSE "reading")
    BY <1>5 DEF Write
  <2>3. Wire'
    BY <2>1, <2>2, WriteKeeps
  <2>4. Basic'
    BY <2>1, <2>2, WriteBasic
  <2>5. result' = result
    BY <2>2 DEF Goto
  <2>6. WholeAnswer'
    BY <2>1, <2>5, AnswersKeep
  <2>7. QED BY <2>3, <2>4, <2>6 DEF Rest
<1>6. ASSUME NEW t \in Tasks, WriteSync(t) PROVE Rest'
  <2>1. /\ pc[t] = "syncing" /\ UNCHANGED <<toClient, faults, verdict, result>>
        /\ toServer' = Append(toServer, [k |-> "S", of |-> req[t]]) /\ Goto(t, "reading")
    BY <1>6 DEF WriteSync, serverVars, Goto
  <2>2. Basic'
    BY <2>1, WriteBasic
  <2>3. WholeAnswer'
    BY <2>1, AnswersKeep
  <2>4. QED BY <2>2, <2>3, <1>6, SyncKeeps DEF Rest
<1>7. ASSUME Serve PROVE Rest'
  <2>1. UNCHANGED <<result, faults>>
    BY <1>7 DEF Serve, clientVars
  <2>2. WholeAnswer'
    BY <2>1, AnswersKeep
  <2>3. QED BY <2>2, <1>7, ServeBasic, ServeKeeps DEF Rest
<1>12. ASSUME NEW t \in Tasks, TimeoutInWrite(t) PROVE Rest'
  <2>1. Return(t, "err", {}) /\ UNCHANGED torn /\ faults' = faults \cup {"cut"} /\ pc[t] \in OnStream
    BY <1>12 DEF TimeoutInWrite, Fail, OnStream
  <2>2. acc' = {} /\ result' = [result EXCEPT ![t] = [st |-> "err", from |-> {}]]
    BY <2>1, ReturnFacts
  <2>3. Wire'
    BY <2>1, <2>2, Assumed, CutKeeps
  <2>4. \A u \in Tasks : result'[u] = result[u] \/ result'[u].st # "ok"
    BY <2>2, Typed
  <2>5. WholeAnswer'
    BY <2>1, <2>4, AnswersKeep
  <2>6. QED BY <2>3, <2>5, <1>12, CutBasic DEF Rest
<1>13. ASSUME ServeCut \/ ServeHalf PROVE Rest'
  <2>1. UNCHANGED <<pc, result, acc, torn, faults>>
    BY <1>13, PartFacts DEF clientVars, runVars
  <2>2. "cut" \in faults
    <3>1. toServer # <<>> /\ toServer[1].k \in {"cut", "half"}
      BY <1>13, PartFacts
    <3>2. 1 \in DOMAIN toServer
      BY <3>1, Typed, ReadFront
    <3>3. QED BY <3>1, <3>2, Assumed
  <2>3. Wire'
    BY <2>1, <2>2, Assumed, CutKeeps
  <2>4. WholeAnswer'
    BY <2>1, AnswersKeep
  <2>5. QED BY <2>3, <2>4, <1>13, PartBasic DEF Rest
<1>8. ASSUME Crash PROVE Rest'
  <2>1. UNCHANGED <<pc, req, issued, result, toServer, toClient, verdict, faults>>
    BY <1>8 DEF Crash, clientVars, wireVars
  <2>2. Basic'
    BY <2>1, QuietBasic
  <2>3. WholeAnswer'
    BY <2>1, AnswersKeep
  <2>4. Wire'
    BY <2>1, <1>8, CrashKeeps DEF Crash
  <2>5. QED BY <2>2, <2>3, <2>4 DEF Rest
<1>9. ASSUME UNCHANGED vars PROVE Rest'
  <2>1. /\ UNCHANGED <<pc, req, issued, result, acc, toServer, toClient, verdict, faults>>
        /\ UNCHANGED <<wireVars, serverVars>>
    BY <1>9 DEF vars, clientVars, runVars, wireVars, serverVars
  <2>2. Basic'
    BY <2>1, QuietBasic
  <2>3. WholeAnswer'
    BY <2>1, AnswersKeep
  <2>4. Wire'
    BY <2>1, OutsideKeeps
  <2>5. QED BY <2>2, <2>3, <2>4 DEF Rest
<1>10. Rest'
  BY <1>1, <1>2, <1>3, <1>4, <1>5, <1>6, <1>7, <1>8, <1>9, <1>12, <1>13,
     TimeoutKeeps, ReadKeeps DEF Next, Poll
<1>11. QED BY <1>0, <1>10 DEF SessionInv, Rest, Basic, Wire
-----------------------------------------------------------------------------
(* The theorems.                                                           *)

LEMMA SessionInit == Init => SessionInv
<1> SUFFICES ASSUME Init PROVE SessionInv
  OBVIOUS
<1>1. MutexType /\ StreamOwner
  BY DEF Init, MutexType, StreamOwner, Phases, OnStream
<1>2. Types
  <2>1. 0 \in 0..MaxReq /\ NoResult \in Results
    BY PgAssumption DEF NoResult, Results
  <2>2. CallerType /\ CallsHaveIds
    BY <2>1 DEF Init, CallerType, CallsHaveIds, Calling
  <2>3. RunType /\ ServerType /\ FaultType
    BY DEF Init, RunType, ServerType, FaultType
  <2>4. \A S : <<>> \in Seq(S)
    OBVIOUS
  <2>5. WireType
    BY <2>4 DEF Init, WireType
  <2>6. QED BY <2>2, <2>3, <2>5 DEF Types
<1>3. /\ \A t \in Tasks : pc[t] = "idle" /\ req[t] = 0 /\ result[t].st = "none"
      /\ issued = 0 /\ acc = {} /\ toServer = <<>> /\ toClient = <<>> /\ torn = FALSE
      /\ skipping = FALSE /\ faults = {} /\ \A r \in Ids : verdict[r] = "none"
  BY DEF Init, NoResult
<1>4. DOMAIN <<>> = {}
  OBVIOUS
<1>5. OwnStatements /\ UpToIssued /\ WrittenOnce /\ LocalsOwned
  BY <1>3, <1>4, PgAssumption DEF OwnStatements, UpToIssued, WrittenOnce, LocalsOwned, Calling
<1>6. WholeGroups
  BY <1>3, <1>4 DEF WholeGroups, SyncFollows, OneAfterTheOther, RunIsOfOne, SkipsToSync, AnswerComes
<1>7. CleanStream
  BY <1>3, <1>4 DEF CleanStream, AllOwn, ReadyIsLast, RequestsOwn, VerdictTold, Sent
<1>8. Guarded /\ WholeAnswer
  BY <1>3, <1>6, <1>7 DEF Guarded, WholeAnswer
<1>9. QED BY <1>1, <1>2, <1>5, <1>8 DEF SessionInv

\* The invariant of the stream: until a call cuts a pipeline or tears a read, the
\* wire holds whole answers; while no call failed after it wrote, all of it is the
\* holder's; after an error or a timeout an older answer is in front.
THEOREM PgSessionInv == Spec => []SessionInv
<1>1. SessionInv /\ [Next]_vars => SessionInv'
  BY SessionStep
<1>2. QED BY SessionInit, <1>1, PTL DEF Spec

\* execute and query never mix the messages of two statements in an Ok answer, as
\* long as no timeout cut a write, an extended pipeline before its Sync or a read
\* inside a message: for any number of tasks and statements, errors and crashes included.
THEOREM PgWholeAnswer == Spec => []WholeAnswer
<1>1. SessionInv => WholeAnswer
  BY DEF SessionInv
<1>2. QED BY PgSessionInv, <1>1, PTL

\* How a reader comes to be idle.
LEMMA ReaderReturns ==
  ASSUME SessionInv, [Next]_vars, NEW t \in Tasks, pc[t] = "reading", pc'[t] = "idle"
  PROVE  \/ Fail(t)
         \/ torn
         \/ /\ toClient # <<>> /\ toClient[1].k = "Z"
            /\ Return(t, "ok", acc \cup {toClient[1].of})
<1>1. ASSUME NEW u \in Tasks, u # t, NEW phase, pc' = [pc EXCEPT ![u] = phase] PROVE FALSE
  BY <1>1, Typed
<1>2. pc' # pc
  OBVIOUS
<1>3. ASSUME NEW u \in Tasks, NEW st, NEW from, Return(u, st, from) PROVE u = t
  BY <1>3, <1>1 DEF Return
<1>4. ASSUME NEW u \in Tasks, NEW phase, phase # "idle", pc' = [pc EXCEPT ![u] = phase] PROVE FALSE
  BY <1>4, Typed
<1>5. ASSUME NEW u \in Tasks, Execute(u) \/ PingClosed(u) \/ CloseBegin(u) PROVE FALSE
  BY <1>2, <1>4, <1>5 DEF Execute, PingClosed, CloseBegin
<1>6. ASSUME NEW u \in Tasks, Acquire(u) \/ Write(u) \/ WriteSync(u) \/ CloseTake(u) PROVE Fail(t)
  BY <1>3, <1>4, <1>6 DEF Acquire, Write, WriteSync, CloseTake, Goto, Fail
<1>7. ASSUME NEW u \in Tasks, CloseEnd(u) PROVE FALSE
  <2>1. u # t
    BY <1>7 DEF CloseEnd
  <2>2. QED BY <2>1, <1>1, <1>7 DEF CloseEnd
<1>8. ASSUME NEW u \in Tasks, Timeout(u) \/ TimeoutInWrite(u) \/ WriteFails(u) PROVE Fail(t)
  BY <1>3, <1>8 DEF Timeout, TimeoutInWrite, WriteFails, Fail
<1>9. ASSUME NEW u \in Tasks, Read(u)
      PROVE  \/ Fail(t)
             \/ torn
             \/ /\ toClient # <<>> /\ toClient[1].k = "Z"
                /\ Return(t, "ok", acc \cup {toClient[1].of})
  <2>1. toClient # <<>> => Head(toClient) = toClient[1]
    BY Typed, ReadFront
  <2>2. \/ UNCHANGED clientVars
        \/ Fail(u)
        \/ torn
        \/ /\ toClient # <<>> /\ toClient[1].k = "Z"
           /\ Return(u, "ok", acc \cup {toClient[1].of})
    BY <2>1, <1>9 DEF Read, ReadAligned, ReadTorn, ReadEof
  <2>3. ~UNCHANGED clientVars
    BY <1>2 DEF clientVars
  <2>4. QED BY <2>2, <2>3, <1>3 DEF Fail
<1>10. ASSUME Serve \/ ServeCut \/ ServeHalf \/ Crash \/ UNCHANGED vars PROVE FALSE
  BY <1>2, <1>10 DEF Serve, ServeCut, ServeHalf, Crash, vars, clientVars
<1>11. QED BY <1>5, <1>6, <1>7, <1>8, <1>9, <1>10 DEF Next, Poll

\* A stream left in doubt stays so: after a server error or a timeout no later Ok
\* of execute or query is the answer to the caller's own statement.
THEOREM PgDesyncIsPermanent == Spec => DesyncIsPermanent
<1>1. ASSUME SessionInv, [Next]_vars
      PROVE  faults # {} /\ faults \subseteq {"error", "timeout"} =>
               \A t \in Tasks :
                 pc[t] = "reading" /\ pc'[t] = "idle" /\ result'[t].st = "ok"
                   => req[t] \notin result'[t].from
  <2> SUFFICES ASSUME faults # {}, faults \subseteq {"error", "timeout"}, NEW t \in Tasks,
                      pc[t] = "reading", pc'[t] = "idle", result'[t].st = "ok"
               PROVE  req[t] \notin result'[t].from
    OBVIOUS
  <2>1. StaleInFront /\ ~torn
    BY <1>1, Assumed
  <2>2. toClient # <<>> /\ Return(t, "ok", acc \cup {toClient[1].of})
    <3>1. Fail(t) => result'[t].st = "err"
      BY <1>1, Typed DEF Fail, Return
    <3>2. QED BY <3>1, <1>1, <2>1, ReaderReturns
  <2>3. result'[t].from = acc \cup {toClient[1].of}
    BY <1>1, <2>2, Typed DEF Return
  <2>4. QED BY <2>1, <2>2, <2>3 DEF StaleInFront, Sent
<1>2. SessionInv /\ [Next]_vars =>
        [ faults # {} /\ faults \subseteq {"error", "timeout"} =>
            \A t \in Tasks :
              pc[t] = "reading" /\ pc'[t] = "idle" /\ result'[t].st = "ok"
                => req[t] \notin result'[t].from ]_vars
  BY <1>1
<1>3. QED BY PgSessionInv, <1>2, PTL DEF Spec, DesyncIsPermanent

-----------------------------------------------------------------------------
(* PgConnection implements DbSession: every step is a step of a session, or *)
(* leaves it alone.                                                        *)

Steps == [Session!Next]_(Session!vars)

LEMMA SameSession ==
  ASSUME UNCHANGED <<req, issued, verdict, result, stream, faults>>
  PROVE  Steps
BY DEF Steps, Session!vars

\* A failed call keeps the promise whatever it left in the stream.
LEMMA FailIsReturnErr ==
  ASSUME SessionInv, NEW t \in Tasks, Fail(t), req[t] # 0, verdict' = verdict, faults \subseteq faults'
  PROVE  Steps
<1>1. /\ result' = [result EXCEPT ![t] = [st |-> "err", from |-> {}]]
      /\ req' = [req EXCEPT ![t] = 0] /\ UNCHANGED <<issued, stream>>
  BY DEF Fail, Return
<1>2. (faults = {})' = (faults = {}) \/ (faults = {})' = FALSE
  <2>1. faults' = {} => faults = {}
    OBVIOUS
  <2>2. QED BY <2>1
<1>3. Session!ReturnErr(t)
  BY <1>1, <1>2 DEF Session!ReturnErr
<1>4. QED BY <1>3 DEF Steps, Session!Next

\* A call that finished on a clean stream has its own verdict, and it is "done".
LEMMA CleanAnswer ==
  ASSUME SessionInv, NEW t \in Tasks, pc[t] = "reading", faults = {},
         toClient # <<>>, toClient[1].k = "Z"
  PROVE  acc \cup {toClient[1].of} = {req[t]} /\ verdict[req[t]] = "done"
<1>1. CleanStream
  BY Assumed
<1>2. \A u \in Tasks : Sent(u) <=> u = t
  BY OneSender DEF Sent, OnStream
<1>3. 1 \in DOMAIN toClient
  BY Typed, ReadFront
<1>4. toClient[1].of = req[t] /\ \A r \in acc : r = req[t]
  BY <1>1, <1>2, <1>3 DEF CleanStream, AllOwn, Own
<1>5. verdict[req[t]] # "none"
  BY <1>1, <1>2 DEF CleanStream, VerdictTold
<1>6. verdict[req[t]] # "failed"
  <2>1. ASSUME NEW i \in DOMAIN toClient, 1 > i PROVE FALSE
    BY <2>1, Typed, ReadFront
  <2>2. QED BY <2>1, <1>1, <1>2, <1>3 DEF CleanStream, VerdictTold
<1>7. verdict[req[t]] \in {"none", "done", "failed"}
  BY Typed DEF Calling
<1>8. QED BY <1>4, <1>5, <1>6, <1>7

LEMMA ReadIsSession ==
  ASSUME SessionInv, NEW t \in Tasks, Read(t)
  PROVE  Steps
<1>0. /\ pc[t] = "reading" /\ verdict' = verdict /\ req[t] # 0 /\ req[t] \in Ids /\ stream = "open"
  <2>1. verdict' = verdict /\ pc[t] = "reading"
    BY DEF Read, serverVars
  <2>2. req[t] \in Ids /\ req[t] # 0
    BY <2>1, Typed DEF Calling, Ids
  <2>3. stream = "open"
    BY <2>1 DEF SessionInv, StreamOwner, OnStream
  <2>4. QED BY <2>1, <2>2, <2>3
<1>1. ASSUME Fail(t), faults \subseteq faults' PROVE Steps
  BY <1>0, <1>1, FailIsReturnErr
<1>2. ASSUME UNCHANGED <<clientVars, faults>> PROVE Steps
  BY <1>0, <1>2, SameSession DEF clientVars
<1>3. ASSUME NEW from \in SUBSET (0..MaxReq), Return(t, "ok", from), faults' = faults,
             faults = {} => from = {req[t]} /\ verdict[req[t]] = "done"
      PROVE  Steps
  <2>1. /\ result' = [result EXCEPT ![t] = [st |-> "ok", from |-> from]]
        /\ req' = [req EXCEPT ![t] = 0] /\ UNCHANGED <<issued, stream>>
    BY <1>3 DEF Return
  <2>2. Session!ReturnOk(t)
    BY <2>1, <1>0, <1>3 DEF Session!ReturnOk
  <2>3. QED BY <2>2 DEF Steps, Session!Next
<1>4. acc \subseteq 0..MaxReq /\ 0 \in 0..MaxReq
  BY PgAssumption DEF SessionInv, Types, RunType
<1>5. CASE ReadAligned(t)
  <2>1. toClient # <<>> /\ Head(toClient) = toClient[1] /\ toClient[1].of \in Ids
    <3>1. toClient # <<>>
      BY <1>5 DEF ReadAligned
    <3>2. QED BY <3>1, Typed, ReadFront, TypedMessages
  <2>2. \/ UNCHANGED <<clientVars, faults>>
        \/ Fail(t) /\ faults' = faults \cup {"error"}
        \/ toClient[1].k = "Z" /\ Return(t, "ok", acc \cup {toClient[1].of}) /\ UNCHANGED faults
    BY <2>1, <1>5 DEF ReadAligned
  <2>3. CASE toClient[1].k = "Z" /\ Return(t, "ok", acc \cup {toClient[1].of}) /\ UNCHANGED faults
    <3>1. acc \cup {toClient[1].of} \in SUBSET (0..MaxReq)
      <4>1. toClient[1].of \in 0..MaxReq
        BY <2>1, PgAssumption DEF Ids
      <4>2. QED BY <4>1, <1>4
    <3>2. faults = {} => acc \cup {toClient[1].of} = {req[t]} /\ verdict[req[t]] = "done"
      BY <2>1, <2>3, <1>0, CleanAnswer
    <3>3. QED BY <3>1, <3>2, <2>3, <1>3
  <2>4. QED BY <2>2, <2>3, <1>1, <1>2
<1>6. CASE ReadTorn(t)
  <2>1. faults # {} /\ faults' = faults
    BY <1>6, Assumed DEF ReadTorn
  <2>2. acc \cup {0} \in SUBSET (0..MaxReq)
    BY <1>4
  <2>3. UNCHANGED clientVars \/ Fail(t) \/ Return(t, "ok", acc \cup {0})
    BY <1>6 DEF ReadTorn
  <2>4. QED BY <2>1, <2>2, <2>3, <1>1, <1>2, <1>3
<1>7. CASE ReadEof(t)
  BY <1>7, <1>1 DEF ReadEof
<1>8. QED BY <1>5, <1>6, <1>7 DEF Read

LEMMA ServeIsSession ==
  ASSUME SessionInv, Serve
  PROVE  Steps
<1> DEFINE m == toServer[1]
<1>1. /\ UNCHANGED <<req, issued, result, stream, faults>> /\ toServer # <<>> /\ m \in Requests
      /\ verdict' = verdict \/ \E ms : Runs(m, ms)
  BY ServeFacts DEF clientVars
<1>2. CASE verdict' = verdict
  BY <1>1, <1>2, SameSession
<1>3. CASE \E ms : Runs(m, ms)
  <2>1. m.k \in {"Q", "P"} /\ \E v \in {"done", "failed"} : verdict' = [verdict EXCEPT ![m.of] = v]
    BY <1>3 DEF Runs
  <2>2. 1 \in DOMAIN toServer
    BY <1>1, Typed, ReadFront
  <2>3. m.of \in Ids /\ m.of <= issued /\ verdict[m.of] = "none"
    BY <2>1, <2>2, TypedMessages DEF SessionInv, UpToIssued, WrittenOnce
  <2> HIDE DEF m
  <2>4. Session!Run(m.of)
    BY <2>1, <2>3, <1>1 DEF Session!Run
  <2>5. QED BY <2>3, <2>4 DEF Steps, Session!Next, Session!Ids, Ids
<1>4. QED BY <1>1, <1>2, <1>3

LEMMA PartIsSession ==
  ASSUME SessionInv, ServeCut \/ ServeHalf
  PROVE  Steps
<1> DEFINE m == toServer[1]
<1>1. /\ UNCHANGED <<req, issued, result, stream, faults>> /\ toServer # <<>>
      /\ \/ verdict' = verdict
         \/ m.k = "cut" /\ \E v \in {"done", "failed"} : verdict' = [verdict EXCEPT ![m.of] = v]
  BY PartFacts DEF clientVars
<1>2. CASE verdict' = verdict
  BY <1>1, <1>2, SameSession
<1>3. CASE m.k = "cut" /\ \E v \in {"done", "failed"} : verdict' = [verdict EXCEPT ![m.of] = v]
  <2>1. 1 \in DOMAIN toServer
    BY <1>1, Typed, ReadFront
  <2>2. m.of \in Ids /\ m.of <= issued /\ verdict[m.of] = "none"
    BY <2>1, <1>3, TypedMessages DEF SessionInv, UpToIssued, WrittenOnce
  <2> HIDE DEF m
  <2>3. Session!Run(m.of)
    BY <2>2, <1>1, <1>3 DEF Session!Run
  <2>4. QED BY <2>2, <2>3 DEF Steps, Session!Next, Session!Ids, Ids
<1>4. QED BY <1>1, <1>2, <1>3

LEMMA StepIsSession ==
  ASSUME SessionInv, [Next]_vars
  PROVE  Steps
<1>1. ASSUME NEW t \in Tasks, Execute(t) PROVE Steps
  <2>1. pc[t] \notin Calling
    BY <1>1 DEF Execute, Calling
  <2>2. req[t] = 0
    BY <2>1 DEF SessionInv, OwnStatements
  <2>3. Session!Begin(t)
    BY <2>2, <1>1 DEF Execute, serverVars, Session!Begin, Session!NoResult, NoResult
  <2>4. QED BY <2>3 DEF Steps, Session!Next
<1>2. ASSUME NEW t \in Tasks, PingClosed(t) PROVE Steps
  <2>1. pc[t] \notin Calling /\ stream # "open"
    BY <1>2 DEF PingClosed, Calling, SessionInv, StreamOwner
  <2>2. req[t] = 0
    BY <2>1 DEF SessionInv, OwnStatements
  <2>3. Session!Refuse(t)
    BY <2>1, <2>2, <1>2 DEF PingClosed, serverVars, Session!Refuse
  <2>4. QED BY <2>3 DEF Steps, Session!Next
<1>3. ASSUME NEW t \in Tasks, pc[t] \in Calling, Fail(t), UNCHANGED serverVars, faults \subseteq faults'
      PROVE  Steps
  <2>1. req[t] # 0
    BY <1>3, Typed DEF Ids
  <2>2. QED BY <2>1, <1>3, FailIsReturnErr DEF serverVars
<1>4. ASSUME NEW t \in Tasks, NEW phase, Goto(t, phase), UNCHANGED <<serverVars, faults>> PROVE Steps
  BY <1>4, SameSession DEF Goto, serverVars
<1>5. ASSUME NEW t \in Tasks, Acquire(t) \/ Write(t) \/ WriteSync(t) PROVE Steps
  BY <1>3, <1>4, <1>5 DEF Acquire, Write, WriteSync, Calling
<1>6. ASSUME NEW t \in Tasks, Timeout(t) \/ TimeoutInWrite(t) \/ WriteFails(t) PROVE Steps
  BY <1>3, <1>6 DEF Timeout, TimeoutInWrite, WriteFails, Calling
<1>7. ASSUME NEW t \in Tasks, CloseBegin(t) \/ CloseEnd(t) PROVE Steps
  BY <1>7, SameSession DEF CloseBegin, CloseEnd, serverVars
<1>8. ASSUME NEW t \in Tasks, CloseTake(t) PROVE Steps
  <2>1. stream' = "none" /\ UNCHANGED <<req, result, issued, verdict, faults>>
    BY <1>8 DEF CloseTake, serverVars
  <2>2. CASE stream = "open"
    <3>1. Session!Close
      BY <2>1, <2>2 DEF Session!Close
    <3>2. QED BY <3>1 DEF Steps, Session!Next
  <2>3. CASE stream # "open"
    BY <2>1, <2>3 DEF Steps, Session!vars
  <2>4. QED BY <2>2, <2>3
<1>9. ASSUME Crash \/ UNCHANGED vars PROVE Steps
  BY <1>9, SameSession DEF Crash, vars, clientVars, serverVars
<1>10. QED
  BY <1>1, <1>2, <1>5, <1>6, <1>7, <1>8, <1>9,
     ReadIsSession, ServeIsSession, PartIsSession DEF Next, Poll

\* The shared connection is the session its users are promised, for any number of
\* tasks and statements: a statement runs at most once, an answer is the caller's
\* own until a call failed after it wrote, and a closed session answers nothing.
THEOREM PgIsSession == Spec => IsSession
<1>1. Init => Session!Init
  BY DEF Init, Session!Init, Session!NoResult, NoResult, Session!Ids, Ids
<1>2. SessionInv /\ [Next]_vars => [Session!Next]_(Session!vars)
  BY StepIsSession DEF Steps
<1>3. QED BY PgSessionInv, <1>1, <1>2, PTL DEF Spec, IsSession, Session!Spec
=============================================================================
