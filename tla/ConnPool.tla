------------------------------ MODULE ConnPool ------------------------------
(***************************************************************************)
(* SimplePool<T> of src/src/utils/simple_pool.rs and the Pool enum of      *)
(* src/src/db/pool.rs that wraps it.  A program holds one of the two: api  *)
(* says which, and with it how a connection is given back and how the pool *)
(* is closed.                                                              *)
(***************************************************************************)
EXTENDS Naturals, SequencesExt

CONSTANTS Tasks,    \* tasks that use the pool
          Pooled,   \* the connections the pool is built from
          Spares    \* connections a task may open by itself and put

ASSUME PoolAssumption == /\ IsFiniteSet(Pooled)
                         /\ Pooled \cap Spares = {}

VARIABLES
  api,      \* "SimplePool" or "Pool"
  idle,     \* SimplePool.connections, front first
  held,     \* the connections each task has got or opened and not given back
  drain,    \* the connection the close loop of each task has got and is closing
  gone,     \* connections that were dropped
  pc,       \* where each task is in get or close
  tried,    \* the get a task runs has found the pool empty at least once
  todo,     \* iterations Pool::close has left
  outcome   \* what the last get or close of each task returned

poolVars == <<api, idle, held, drain, gone, pc, tried, todo, outcome>>

Conns   == Pooled \cup Spares
MaxSize == Cardinality(Pooled)      \* max_size and created_connections: both fixed
Phases  == {"idle", "getting", "draining", "closing"}
Polling == {"getting", "draining"}

TypeOK ==
  /\ api \in {"SimplePool", "Pool"}
  /\ idle \in Seq(Conns)
  /\ held \in [Tasks -> SUBSET Conns]
  /\ drain \in [Tasks -> SUBSET Conns]
  /\ gone \subseteq Conns
  /\ pc \in [Tasks -> Phases]
  /\ tried \in [Tasks -> BOOLEAN]
  /\ todo \in [Tasks -> 0..MaxSize]
  /\ outcome \in [Tasks -> {"none", "conn", "timeout", "closed", "close_error"}]

\* SimplePool::new from a full vector; every Pool constructor opens all or fails.
PoolInit ==
  /\ api \in {"SimplePool", "Pool"}
  /\ idle \in SetToSeqs(Pooled)
  /\ held = [t \in Tasks |-> {}]
  /\ drain = [t \in Tasks |-> {}]
  /\ gone = {}
  /\ pc = [t \in Tasks |-> "idle"]
  /\ tried = [t \in Tasks |-> FALSE]
  /\ todo = [t \in Tasks |-> 0]
  /\ outcome = [t \in Tasks |-> "none"]

Ends(t, how) ==
  /\ pc' = [pc EXCEPT ![t] = "idle"]
  /\ outcome' = [outcome EXCEPT ![t] = how]
  /\ todo' = [todo EXCEPT ![t] = 0]

-----------------------------------------------------------------------------
(* SimplePool::get: poll the queue every 10 ms until the 30 s are over.    *)

StartGet(t) ==
  /\ pc[t] = "idle"
  /\ pc' = [pc EXCEPT ![t] = "getting"]
  /\ tried' = [tried EXCEPT ![t] = FALSE]
  /\ outcome' = [outcome EXCEPT ![t] = "none"]
  /\ UNCHANGED <<api, idle, held, drain, gone, todo>>

\* Mutant: the front is handed out and stays in the queue.
PeekFront == idle # <<>> /\ UNCHANGED idle

PopFront == idle # <<>> /\ idle' = Tail(idle)

\* One turn of the loop; get_connection only wraps what it gets in an Arc.
Poll(t) ==
  /\ \/ /\ pc[t] = "getting" /\ PopFront
        /\ held' = [held EXCEPT ![t] = @ \cup {Head(idle)}]
        /\ Ends(t, "conn")
        /\ UNCHANGED <<drain, tried>>
     \/ /\ pc[t] = "draining" /\ PopFront
        /\ drain' = [drain EXCEPT ![t] = {Head(idle)}]
        /\ pc' = [pc EXCEPT ![t] = "closing"]
        /\ UNCHANGED <<held, tried, todo, outcome>>
     \/ /\ pc[t] \in Polling /\ idle = <<>>
        /\ tried' = [tried EXCEPT ![t] = TRUE]
        /\ UNCHANGED <<idle, held, drain, pc, todo, outcome>>
  /\ UNCHANGED <<api, gone>>

\* Mutant: close starts the iteration that timed out again.
ExpireRetries(t) ==
  /\ pc[t] \in Polling /\ tried[t]
  /\ \/ pc[t] = "getting" /\ Ends(t, "timeout") /\ UNCHANGED tried
     \/ /\ pc[t] = "draining"
        /\ tried' = [tried EXCEPT ![t] = FALSE]
        /\ UNCHANGED <<pc, todo, outcome>>
  /\ UNCHANGED <<api, idle, held, drain, gone>>

\* elapsed() has reached the timeout after a failed try: no last look.
\* Pool::close ignores the error and goes on to the next iteration.
Expire(t) ==
  /\ pc[t] \in Polling /\ tried[t]
  /\ \/ pc[t] = "getting" /\ Ends(t, "timeout") /\ UNCHANGED tried
     \/ /\ pc[t] = "draining"
        /\ \/ /\ todo[t] > 1
              /\ todo' = [todo EXCEPT ![t] = @ - 1]
              /\ tried' = [tried EXCEPT ![t] = FALSE]
              /\ UNCHANGED <<pc, outcome>>
           \/ todo[t] = 1 /\ Ends(t, "closed") /\ UNCHANGED tried
  /\ UNCHANGED <<api, idle, held, drain, gone>>

-----------------------------------------------------------------------------
(* Giving a connection back.                                               *)

LetGo(t, c) == held' = [held EXCEPT ![t] = @ \ {c}]

\* Mutant: no limit on what put takes in.
PutUnbounded(t, c) ==
  /\ api = "SimplePool" /\ pc[t] = "idle" /\ c \in held[t]
  /\ LetGo(t, c)
  /\ idle' = Append(idle, c)
  /\ UNCHANGED <<api, gone, drain, pc, tried, todo, outcome>>

\* SimplePool::put drops the connection when the queue is full.
Put(t, c) ==
  /\ api = "SimplePool" /\ pc[t] = "idle" /\ c \in held[t]
  /\ LetGo(t, c)
  /\ \/ Len(idle) < MaxSize /\ idle' = Append(idle, c) /\ UNCHANGED gone
     \/ Len(idle) >= MaxSize /\ gone' = gone \cup {c} /\ UNCHANGED idle
  /\ UNCHANGED <<api, drain, pc, tried, todo, outcome>>

\* Pool::return_connection: `let _ = (pool, conn); Ok(())`.
ReturnConnection(t, c) ==
  /\ api = "Pool" /\ pc[t] = "idle" /\ c \in held[t]
  /\ LetGo(t, c)
  /\ gone' = gone \cup {c}
  /\ UNCHANGED <<api, idle, drain, pc, tried, todo, outcome>>

\* The caller loses a connection (an error path, a panic) without giving it back.
Drop(t, c) ==
  /\ pc[t] = "idle" /\ c \in held[t]
  /\ LetGo(t, c)
  /\ gone' = gone \cup {c}
  /\ UNCHANGED <<api, idle, drain, pc, tried, todo, outcome>>

\* put takes any T: a task may put a connection the pool was not built from.
OpenSpare(t, c) ==
  /\ api = "SimplePool" /\ pc[t] = "idle"
  /\ c \in Spares \ (gone \cup ToSet(idle) \cup UNION {held[u] : u \in Tasks})
  /\ held' = [held EXCEPT ![t] = @ \cup {c}]
  /\ UNCHANGED <<api, idle, gone, drain, pc, tried, todo, outcome>>

-----------------------------------------------------------------------------
(* Closing.                                                                *)

\* SimplePool::close clears the queue.
ClearIdle ==
  /\ api = "SimplePool" /\ idle # <<>>
  /\ gone' = gone \cup ToSet(idle)
  /\ idle' = <<>>
  /\ UNCHANGED <<api, held, drain, pc, tried, todo, outcome>>

\* Mutant: one iteration too few.
StartCloseShort(t) ==
  /\ api = "Pool" /\ pc[t] = "idle"
  /\ IF MaxSize <= 1
     THEN Ends(t, "closed") /\ UNCHANGED tried
     ELSE /\ pc' = [pc EXCEPT ![t] = "draining"]
          /\ todo' = [todo EXCEPT ![t] = MaxSize - 1]
          /\ tried' = [tried EXCEPT ![t] = FALSE]
          /\ outcome' = [outcome EXCEPT ![t] = "none"]
  /\ UNCHANGED <<api, idle, held, drain, gone>>

\* Pool::close: `for _ in 0..pool.size()`, and size() is what was created.
StartClose(t) ==
  /\ api = "Pool" /\ pc[t] = "idle"
  /\ \/ MaxSize = 0 /\ Ends(t, "closed") /\ UNCHANGED tried
     \/ /\ MaxSize > 0
        /\ pc' = [pc EXCEPT ![t] = "draining"]
        /\ todo' = [todo EXCEPT ![t] = MaxSize]
        /\ tried' = [tried EXCEPT ![t] = FALSE]
        /\ outcome' = [outcome EXCEPT ![t] = "none"]
  /\ UNCHANGED <<api, idle, held, drain, gone>>

\* conn.close().await?: an error ends the whole close, the rest stays queued.
CloseConn(t) ==
  /\ pc[t] = "closing"
  /\ drain' = [drain EXCEPT ![t] = {}]
  /\ gone' = gone \cup drain[t]
  /\ \/ /\ todo[t] > 1
        /\ pc' = [pc EXCEPT ![t] = "draining"]
        /\ todo' = [todo EXCEPT ![t] = @ - 1]
        /\ tried' = [tried EXCEPT ![t] = FALSE]
        /\ UNCHANGED outcome
     \/ todo[t] = 1 /\ Ends(t, "closed") /\ UNCHANGED tried
     \/ Ends(t, "close_error") /\ UNCHANGED tried
  /\ UNCHANGED <<api, idle, held>>

-----------------------------------------------------------------------------
PoolNext == \/ \E t \in Tasks : StartGet(t) \/ Poll(t) \/ Expire(t) \/ StartClose(t) \/ CloseConn(t)
        \/ \E t \in Tasks, c \in Conns :
              Put(t, c) \/ ReturnConnection(t, c) \/ Drop(t, c) \/ OpenSpare(t, c)
        \/ ClearIdle

PoolSpec == PoolInit /\ [][PoolNext]_poolVars

\* The loop is polled by tokio's timer and ends when the clock says so; a close
\* of one connection returns.  Nobody is obliged to give a connection back.
PoolFairSpec == PoolSpec /\ \A t \in Tasks :
                      WF_poolVars(Poll(t)) /\ WF_poolVars(Expire(t)) /\ WF_poolVars(CloseConn(t))

-----------------------------------------------------------------------------
(* Properties.                                                             *)

Hands(t) == held[t] \cup drain[t]

\* A connection is in one place: queued once, with one task, or dropped; and no
\* connection of the pool is lost from sight.  Two tasks never share one.
OnePlace ==
  /\ \A i, j \in DOMAIN idle : idle[i] = idle[j] => i = j
  /\ \A t \in Tasks : Hands(t) \cap (ToSet(idle) \cup gone) = {}
  /\ \A t \in Tasks : held[t] \cap drain[t] = {}
  /\ \A t, u \in Tasks : t # u => Hands(t) \cap Hands(u) = {}
  /\ ToSet(idle) \cap gone = {}
  /\ \A c \in Pooled : c \in ToSet(idle) \cup gone \/ \E t \in Tasks : c \in Hands(t)

\* status() computes max_size - idle in usize: it cannot underflow, whatever
\* connections of their own the tasks put.
WithinSize == Len(idle) <= MaxSize

\* After a Pool::close that returned Ok the pool is empty and stays so, although
\* it waits for connections that never come back and others take from the pool.
CloseDrains == \A t \in Tasks : api = "Pool" /\ outcome[t] = "closed" => idle = <<>>

\* Every get and every close returns, whatever the holders do.
EveryCallReturns == \A t \in Tasks : pc[t] # "idle" ~> pc[t] = "idle"
=============================================================================
