----------------------------- MODULE DbSession -----------------------------
(***************************************************************************)
(* What the users of a shared DatabaseConnection are promised: a statement *)
(* runs on the server at most once, its caller gets one verdict, the       *)
(* verdict is the server's as long as the session can be trusted, trust is *)
(* lost only by a call that failed, and a closed session answers nothing.  *)
(***************************************************************************)
EXTENDS Naturals

CONSTANTS Tasks,     \* tokio tasks that hold a clone of the connection
          MaxReq     \* bound on the statements issued

VARIABLES call,      \* the statement a task is waiting for, 0 when none
          issued,    \* statements issued so far
          verdict,   \* what the server did with each statement
          result,    \* what the last call of each task returned
          open,      \* the session has not been closed
          trusted    \* no call has left the session in doubt

vars == <<call, issued, verdict, result, open, trusted>>

Ids == 1..MaxReq
NoResult == [st |-> "none", from |-> {}]
Results == [st : {"none", "ok", "err"}, from : SUBSET (0..MaxReq)]

Init == /\ call = [t \in Tasks |-> 0]
        /\ issued = 0
        /\ verdict = [r \in Ids |-> "none"]
        /\ result = [t \in Tasks |-> NoResult]
        /\ open = TRUE
        /\ trusted = TRUE

Begin(t) == /\ call[t] = 0
            /\ issued < MaxReq
            /\ issued' = issued + 1
            /\ call' = [call EXCEPT ![t] = issued + 1]
            /\ result' = [result EXCEPT ![t] = NoResult]
            /\ UNCHANGED <<verdict, open, trusted>>

\* The server runs a statement that was issued, once.
Run(r) == /\ r <= issued
          /\ verdict[r] = "none"
          /\ verdict' \in {[verdict EXCEPT ![r] = "done"], [verdict EXCEPT ![r] = "failed"]}
          /\ UNCHANGED <<call, issued, result, open, trusted>>

\* A trusted session answers with the caller's own statement, which has run.
ReturnOk(t) ==
  /\ call[t] # 0
  /\ open
  /\ \E from \in SUBSET (0..MaxReq) :
        /\ trusted => from = {call[t]} /\ verdict[call[t]] = "done"
        /\ result' = [result EXCEPT ![t] = [st |-> "ok", from |-> from]]
  /\ call' = [call EXCEPT ![t] = 0]
  /\ UNCHANGED <<issued, verdict, open, trusted>>

ReturnErr(t) ==
  /\ call[t] # 0
  /\ result' = [result EXCEPT ![t] = [st |-> "err", from |-> {}]]
  /\ call' = [call EXCEPT ![t] = 0]
  /\ trusted' \in {trusted, FALSE}
  /\ UNCHANGED <<issued, verdict, open>>

\* A ping of a session known to be closed fails without a statement.
Refuse(t) == /\ ~open
             /\ call[t] = 0
             /\ result' = [result EXCEPT ![t] = [st |-> "err", from |-> {}]]
             /\ UNCHANGED <<call, issued, verdict, open, trusted>>

Close == open /\ open' = FALSE /\ UNCHANGED <<call, issued, verdict, result, trusted>>

Next == \/ \E t \in Tasks : Begin(t) \/ ReturnOk(t) \/ ReturnErr(t) \/ Refuse(t)
        \/ \E r \in Ids : Run(r)
        \/ Close

Spec == Init /\ [][Next]_vars
=============================================================================
