--------------------------- MODULE ConnectProofs ---------------------------
(***************************************************************************)
(* Theorems about how a program comes by a connection: Startup opens one   *)
(* and ConnPool hands out those that are open.                             *)
(*                                                                         *)
(* Startup, for all passwords, every configuration and every way the       *)
(* servers may break the dialogue off: a connection handed out is ready    *)
(* (ReadyMeansReady), the packets are in sequence, and the right password  *)
(* gets in (RightPasswordGetsIn).  The invariant follows the dialogue.     *)
(* Until the server has decided, one message at most is under way, and it  *)
(* belongs to the step the server is at: its question, on the way down, or *)
(* the client's answer, on the way up.  A login that is granted leaves a   *)
(* tail of the server's last messages; one that is refused never brings a  *)
(* message that ends the client's loop with Ok.  StartupInv is also        *)
(* checked by TLC.                                                         *)
(*                                                                         *)
(* ConnPool, for every set of tasks and of connections: no two tasks ever  *)
(* hold the same connection, none is lost from sight, the queue never      *)
(* outgrows the pool, and a close that returned Ok has emptied it.         *)
(***************************************************************************)
EXTENDS Startup, ConnPool, SequenceLemmas, FiniteSetTheorems

ClientSteps == {"idle", "greeting", "auth", "key", "done"}
PgSteps == {"idle", "accepted", "proof"}
MySteps == {"idle", "accepted", "response", "switched", "request", "secret"}
Plugins == {Nil, "native", "sha2", "dialog"}
Errors == {"auth", "protocol", "server"}

\* The logins that should succeed.
Good == conf.pw = conf.secret /\ conf.db # "gone" /\ ~Unserved

ConfOK == conf \in PgConfs \cup MyConfs

Types ==
  /\ client \in [step : ClientSteps, scram : {Nil, "started", "signed"}, pid : {Nil, Pid},
                 outcome : {Nil, "ok", "io", "refused", "timeout"} \cup Errors]
  /\ server \in [step : PgSteps \cup MySteps \cup {"over", "dead"}, due : Nat,
                 plugin : Plugins, verdict : {Nil, "ready", "nodb", "denied", "busy"}]
  /\ client.outcome = Nil <=> client.step # "done"

(***************************************************************************)
(* The question a server asks at step s, and the client's answer to it.    *)
(***************************************************************************)
PgAsks(m) ==
  /\ Type(m) = "R" /\ Code(m) \in {"3", "5", "7", "10", "11"}
  /\ conf.auth = "cleartext" => Code(m) = "3"
  /\ conf.auth = "md5" => Code(m) = "5"
  /\ conf.auth # "trust"

PgReplies(m) ==
  /\ conf.auth # "trust"
  /\ conf.auth = "cleartext" => m = Msg("p", "cleartext", 0, <<<<"cleartext", conf.pw, Nil>>>>)
  /\ conf.auth = "md5" => m = Msg("p", "md5", 0, <<<<"md5", conf.pw, Salt>>>>)

\* The questions of a step, whatever their place in the sequence.
Asks(s, m) ==
  /\ SeqNo(m) \in Nat
  /\ CASE s = "proof"    -> PgAsks(m)
       [] s = "response" -> Type(m) = "greeting" /\ Body(m) = <<<<conf.greet, Salt>>>>
       [] s = "switched" -> Type(m) = "switch" /\ Body(m) = <<<<conf.auth, "salt+NUL">>>>
       [] s = "request"  -> Type(m) = "more" /\ Code(m) = "4"
       [] s = "secret"   -> Type(m) = "more"
       [] OTHER          -> FALSE

Replies(s, m) ==
  CASE s = "accepted" -> Pg
    [] s = "proof"    -> PgReplies(m)
    [] s = "response" -> Body(m) = HandshakeResponse(conf.greet)
    [] s = "switched" -> Body(m) = <<Proof(conf.auth, "salt+NUL")>>
    [] s = "request"  -> TRUE
    [] s = "secret"   -> Body(m) = <<<<"rsa", conf.pw, Nil>>>>
    [] OTHER          -> FALSE

\* MySQL's packets are numbered: the answer has the number after the question's.
Question(s, m) == Asks(s, m) /\ (~Pg => SeqNo(m) + 1 = server.due)
Answer(s, m) == Replies(s, m) /\ (~Pg => SeqNo(m) = server.due)

\* The client's step before it has read the question of s, and after.
Before(s) ==
  CASE s = "idle" -> "idle" [] s \in {"accepted", "response"} -> "greeting"
    [] s = "secret" -> "key" [] OTHER -> "auth"
After(s) == IF s = "request" THEN "key" ELSE "auth"

\* What a step says of a login that should succeed: it is sent to another
\* plugin only with an empty password, and is asked for the password itself
\* only where the salt does not matter.
Served(s) ==
  /\ s = "switched" => conf.pw = Nil
  /\ s \in {"request", "secret"} => ~conf.salted

Stage(s) ==
  /\ s \in IF Pg THEN PgSteps ELSE MySteps
  /\ (Good => Served(s))
  /\ \/ /\ up = <<>> /\ down = <<>>
        /\ \/ client.step = "done"
           \/ s = "idle" /\ client.step = "idle"
           \/ s = "accepted" /\ ~Pg /\ client.step = "greeting"
     \/ /\ up = <<>> /\ client.step \in {Before(s), "done"}
        /\ Len(down) = 1 /\ down = <<down[1]>> /\ Question(s, down[1])
     \/ /\ down = <<>> /\ client.step \in {After(s), "done"}
        /\ Len(up) = 1 /\ up = <<up[1]>> /\ Answer(s, up[1])

Undecided ==
  server.verdict = Nil =>
    /\ client.outcome # "ok"
    /\ Good => client.outcome \notin Errors
    /\ \E s \in PgSteps \cup MySteps : server.step \in {s, "dead"} /\ Stage(s)

(***************************************************************************)
(* The ends of the dialogue.                                               *)
(***************************************************************************)
Key == Msg("K", Nil, 0, <<<<Pid>>>>)
Ready == Msg("Z", Nil, 0, <<>>)
Status == Msg("S", Nil, 0, <<>>)
Ok0 == Auth("0", <<>>)
Final == Auth("12", <<<<"v">>>>)

\* What may be left of the messages of a login that was granted.
PgTail ==
  \/ down = <<Final, Ok0, Status, Key, Ready>> /\ ~Good
  \/ down = <<Ok0, Status, Key, Ready>>
  \/ down = <<Status, Key, Ready>>
  \/ down = <<Key, Ready>>
  \/ down = <<Ready>> /\ client.pid = Pid

MyTail ==
  \/ /\ Len(down) = 1 /\ down = <<down[1]>> /\ Type(down[1]) = "ok"
  \/ /\ Len(down) = 2 /\ down = <<down[1], down[2]>>
     /\ Type(down[1]) = "more" /\ Code(down[1]) = "3" /\ Type(down[2]) = "ok"

Granted ==
  server.verdict = "ready" =>
    /\ server.step \in {"over", "dead"}
    /\ up = <<>>
    /\ client.step \in {"auth", "done"}
    /\ Good => client.outcome \notin Errors
    /\ client.step = "auth" => IF Pg THEN PgTail ELSE MyTail
    /\ client.outcome = "ok" => down = <<>> /\ (Pg => client.pid = Pid)

\* No message that ends the client's loop with Ok, or gives it a backend's id.
QuietTypes == {"R", "E", "greeting", "switch", "more"}
Quiet(s) == s \in Seq(Range(s)) /\ \A m \in Range(s) : Type(m) \in QuietTypes

Refused ==
  server.verdict \in {"nodb", "denied", "busy"} =>
    /\ server.step \in {"over", "dead"}
    /\ client.outcome # "ok" /\ client.step # "idle"
    /\ Quiet(down)
    /\ Good => server.verdict = "busy"

StartupInv == ConfOK /\ Types /\ Undecided /\ Granted /\ Refused

-----------------------------------------------------------------------------
USE DEF Nil

\* What the configurations are, field by field.
LEMMA ConfFacts ==
  ASSUME ConfOK
  PROVE  /\ conf.srv \in {"pg", "mysql"}
         /\ Pg => conf.auth \in PgLogins /\ conf.db \in Databases
         /\ ~Pg => /\ conf.auth \in MyPlugins /\ conf.greet \in Plugins
                   /\ conf.greet = Nil => conf.auth = "native"
                   /\ conf.db \in Databases \cup {Nil}
                   /\ conf.salted \in BOOLEAN
<1>1. ASSUME NEW auth, NEW greet, NEW offers, NEW flags, NEW pw, NEW secret, NEW db, NEW srv,
             conf = Conf(srv, auth, greet, offers, flags, pw, secret, db)
      PROVE  /\ conf.srv = srv /\ conf.auth = auth /\ conf.greet = greet /\ conf.db = db
             /\ conf.salted = flags[1]
  BY <1>1 DEF Conf
<1>2. CASE conf \in PgConfs
  <2>1. PICK auth \in PgLogins, offers \in Mechanisms, pw \in Passwords,
             secret \in Passwords \ {Nil}, db \in Databases :
             conf = PgConf(auth, offers, pw, secret, db)
    BY <1>2 DEF PgConfs
  <2> QED BY <2>1, <1>1 DEF Pg, PgConf
<1>3. CASE conf \in MyConfs
  <2> DEFINE D == Databases \cup {Nil}
             A == { MyConf(auth, greet, flags, pw, secret, db) :
                      auth \in MyPlugins, greet \in MyPlugins, flags \in Flags,
                      pw \in Passwords, secret \in Passwords, db \in D }
             B == { MyConfOld(pw, secret, db) :
                      pw \in Passwords, secret \in Passwords, db \in Databases }
  <2>1. conf \in A \/ conf \in B
    BY <1>3 DEF MyConfs
  <2> HIDE DEF D
  <2>2. CASE conf \in A
    <3>1. PICK auth \in MyPlugins, greet \in MyPlugins, flags \in Flags, pw \in Passwords,
               secret \in Passwords, db \in D :
               conf = MyConf(auth, greet, flags, pw, secret, db)
      BY <2>2
    <3>2. flags[1] \in BOOLEAN
      BY DEF Flags
    <3>3. greet \in Plugins /\ greet # Nil
      BY DEF MyPlugins, Plugins
    <3> QED  BY <3>1, <3>2, <3>3, <1>1 DEF Pg, MyConf, D
  <2>3. CASE conf \in B
    <3>1. PICK pw \in Passwords, secret \in Passwords, db \in Databases :
               conf = MyConfOld(pw, secret, db)
      BY <2>3
    <3>2. NoFlags[1] \in BOOLEAN /\ "native" \in MyPlugins /\ Nil \in Plugins
      BY DEF NoFlags, MyPlugins, Plugins
    <3> QED  BY <3>1, <3>2, <1>1 DEF Pg, MyConf, MyConfOld
  <2> QED BY <2>1, <2>2, <2>3
<1> QED  BY <1>2, <1>3 DEF ConfOK

\* A sequence of one message.
LEMMA OneMessage ==
  ASSUME NEW m
  PROVE  /\ <<m>> # <<>> /\ Head(<<m>>) = m /\ Tail(<<m>>) = <<>>
         /\ Len(<<m>>) = 1 /\ <<m>>[1] = m /\ <<m>>[Len(<<m>>)] = m
         /\ <<>> \o <<m>> = <<m>>
<1>1. <<m>> \in Seq({m})
  OBVIOUS
<1> QED  BY <1>1, ConcatEmptySeq

LEMMA TwoMessages ==
  ASSUME NEW m, NEW n
  PROVE  /\ Head(<<m, n>>) = m /\ Tail(<<m, n>>) = <<n>> /\ <<m, n>>[Len(<<m, n>>)] = n
         /\ Append(<<m>>, n) = <<m, n>>
<1> DEFINE S == {m, n}
           s == Append(<<m>>, n)
           t == <<m, n>>
<1>1. <<m>> \in Seq(S) /\ n \in S /\ t \in Seq(S) /\ Len(t) = 2 /\ t[1] = m /\ t[2] = n
      /\ Len(<<m>>) = 1 /\ <<m>>[1] = m
  OBVIOUS
<1> HIDE DEF S, t
<1>2. s \in Seq(S) /\ Len(s) = 2 /\ s[1] = m /\ s[2] = n
  BY <1>1, AppendProperties
<1> HIDE DEF s
<1>3. \A i \in 1..2 : s[i] = t[i]
  BY <1>1, <1>2
<1>4. s = t
  BY <1>1, <1>2, <1>3, SeqEqual
<1>5. Head(t) = m /\ Tail(t) = <<n>> /\ t[Len(t)] = n
  BY DEF t
<1> QED  BY <1>4, <1>5 DEF s, t

LEMMA MessageParts ==
  ASSUME NEW t, NEW c, NEW n, NEW b
  PROVE  /\ Type(Msg(t, c, n, b)) = t /\ Code(Msg(t, c, n, b)) = c
         /\ SeqNo(Msg(t, c, n, b)) = n /\ Body(Msg(t, c, n, b)) = b
  BY DEF Msg, Type, Code, SeqNo, Body

LEMMA InitStartup == Init => StartupInv
<1> SUFFICES ASSUME Init PROVE StartupInv
  OBVIOUS
<1>1. ConfOK
  BY DEF Init, ConfOK
<1>2. Types
  BY DEF Init, Types, ClientSteps, PgSteps, MySteps, Plugins, Errors
<1>3. Undecided
  <2>1. Stage("idle")
    BY DEF Init, Stage, Served, PgSteps, MySteps
  <2> QED BY <2>1 DEF Init, Undecided, Errors, PgSteps
<1>4. Granted /\ Refused
  BY DEF Init, Granted, Refused
<1> QED  BY <1>1, <1>2, <1>3, <1>4 DEF StartupInv

(***************************************************************************)
(* What the server sends, by what it decides.  The step before has taken   *)
(* the client's message, if there was one, so nothing else is under way.   *)
(***************************************************************************)
LEMMA ServeFacts ==
  ASSUME Types, NEW due \in Nat, NEW step \in PgSteps \cup MySteps \cup {"over"},
         NEW verdict \in {Nil, "ready", "nodb", "denied", "busy"},
         NEW sent, SeqNo(sent[Len(sent)]) + 1 = due,
         NEW consumed, NEW plugin \in Plugins,
         Serve(Reply(step, verdict, sent), consumed, plugin)
  PROVE  /\ Types'
         /\ server'.step = step /\ server'.verdict = verdict /\ server'.due = due
         /\ conf' = conf /\ client' = client
         /\ up' = (IF consumed THEN Tail(up) ELSE up) /\ down' = down \o sent
<1> DEFINE r == Reply(step, verdict, sent)
<1>1. r.step = step /\ r.verdict = verdict /\ r.sent = sent
  BY DEF Reply
<1>2. Serve(r, consumed, plugin)
  OBVIOUS
<1> HIDE DEF r
<1>3. /\ server' = [server EXCEPT !.step = step, !.verdict = verdict, !.plugin = plugin, !.due = due]
      /\ conf' = conf /\ client' = client
      /\ up' = (IF consumed THEN Tail(up) ELSE up) /\ down' = down \o sent
  BY <1>1, <1>2 DEF Serve
<1>5. /\ server' \in [step : PgSteps \cup MySteps \cup {"over", "dead"}, due : Nat,
                       plugin : Plugins, verdict : {Nil, "ready", "nodb", "denied", "busy"}]
      /\ server'.step = step /\ server'.verdict = verdict /\ server'.due = due
  BY <1>3 DEF Types
<1> QED  BY <1>3, <1>5 DEF Types

\* The server asks a question: the dialogue goes on at the step it names.
LEMMA ServeAsks ==
  ASSUME StartupInv, server.verdict = Nil, down = <<>>,
         NEW consumed \in BOOLEAN, (IF consumed THEN Tail(up) ELSE up) = <<>>,
         NEW s \in IF Pg THEN PgSteps ELSE MySteps, Good => Served(s),
         NEW q, Asks(s, q), client.step \in {Before(s), "done"},
         NEW plugin \in Plugins, Serve(Reply(s, Nil, <<q>>), consumed, plugin)
  PROVE  StartupInv'
<1>2. SeqNo(q) \in Nat
  BY DEF Asks
<1>0. s \in PgSteps \cup MySteps
  <2>1. CASE Pg
    BY <2>1
  <2>2. CASE ~Pg
    BY <2>2
  <2> QED BY <2>1, <2>2
<1>1. /\ Types' /\ conf' = conf /\ client' = client /\ up' = <<>> /\ down' = <<q>>
      /\ server'.step = s /\ server'.verdict = Nil /\ server'.due = SeqNo(q) + 1
  <2>1. <<q>>[Len(<<q>>)] = q
    BY OneMessage
  <2>2. <<>> \o <<q>> = <<q>>
    BY OneMessage
  <2> DEFINE due == SeqNo(q) + 1
  <2>3. due \in Nat /\ SeqNo(<<q>>[Len(<<q>>)]) + 1 = due
    <3>1. SeqNo(q) + 1 \in Nat
      BY <1>2
    <3>2. SeqNo(<<q>>[Len(<<q>>)]) = SeqNo(q)
      BY <2>1
    <3> QED  BY <3>1, <3>2
  <2> HIDE DEF due
  <2>4. /\ Types'
        /\ server'.step = s /\ server'.verdict = Nil /\ server'.due = due
        /\ conf' = conf /\ client' = client
        /\ up' = (IF consumed THEN Tail(up) ELSE up) /\ down' = down \o <<q>>
    BY <1>0, <2>3, ServeFacts DEF StartupInv
  <2> QED BY <2>2, <2>4 DEF due
<1>3. ConfOK'
  BY <1>1 DEF StartupInv, ConfOK
<1>5. Stage(s)'
  <2>1. Asks(s, q)'
    BY <1>1 DEF Asks, PgAsks
  <2>2. Question(s, down[1])'
    BY <2>1, <1>1 DEF Question, Pg, Asks, PgAsks
  <2>3. (Good => Served(s))'
    BY <1>1 DEF Good, Served, Unserved, Pg
  <2> QED BY <1>1, <2>2, <2>3 DEF Stage, Pg
<1>6. Undecided'
  BY <1>0, <1>1, <1>5 DEF StartupInv, Undecided, Good, Unserved, Pg
<1> QED  BY <1>1, <1>3, <1>6 DEF StartupInv, Granted, Refused

LEMMA QuietIntro ==
  ASSUME NEW S, NEW s \in Seq(S), \A m \in S : Type(m) \in QuietTypes
  PROVE  Quiet(s)
<1>1. s \in Seq(Range(s)) /\ Range(s) \subseteq S
  BY DEF Range
<1> QED  BY <1>1 DEF Quiet

LEMMA QuietTail ==
  ASSUME NEW s, Quiet(s), s # <<>>
  PROVE  Quiet(Tail(s)) /\ Type(Head(s)) \in QuietTypes
<1>1. s \in Seq(Range(s))
  BY DEF Quiet
<1>2. Tail(s) \in Seq(Range(s)) /\ Head(s) \in Range(s)
  BY <1>1
<1> QED  BY <1>2, QuietIntro DEF Quiet

LEMMA QuietJoin ==
  ASSUME NEW s, Quiet(s), NEW t, Quiet(t)
  PROVE  Quiet(s \o t)
<1> DEFINE S == Range(s) \cup Range(t)
<1>1. s \in Seq(S) /\ t \in Seq(S)
  <2>1. s \in Seq(Range(s)) /\ t \in Seq(Range(t))
    BY DEF Quiet
  <2> QED BY <2>1
<1>2. s \o t \in Seq(S)
  BY <1>1
<1>3. \A m \in S : Type(m) \in QuietTypes
  BY DEF Quiet
<1> QED  BY <1>2, <1>3, QuietIntro

LEMMA QuietOne ==
  ASSUME NEW m, Type(m) \in QuietTypes
  PROVE  Quiet(<<m>>)
<1> DEFINE S == {m}
<1>1. <<m>> \in Seq(S)
  OBVIOUS
<1>2. \A k \in S : Type(k) \in QuietTypes
  OBVIOUS
<1> HIDE DEF S
<1> QED  BY <1>1, <1>2, QuietIntro

LEMMA QuietNone == Quiet(<<>>)
<1> DEFINE S == {}
<1>1. <<>> \in Seq(S)
  OBVIOUS
<1>2. \A k \in S : Type(k) \in QuietTypes
  OBVIOUS
<1> HIDE DEF S
<1> QED  BY <1>1, <1>2, QuietIntro

\* What is under way while the server has not decided is quiet.
LEMMA UndecidedIsQuiet ==
  ASSUME StartupInv, server.verdict = Nil
  PROVE  Quiet(down)
<1>1. PICK s \in PgSteps \cup MySteps : Stage(s)
  BY DEF StartupInv, Undecided
<1>2. CASE down = <<>>
  BY <1>2, QuietNone
<1>3. CASE down = <<down[1]>> /\ Question(s, down[1])
  <2>1. Type(down[1]) \in QuietTypes
    BY <1>3 DEF Question, Asks, PgAsks, QuietTypes
  <2>2. Quiet(<<down[1]>>)
    BY <2>1, QuietOne
  <2> QED BY <1>3, <2>2
<1> QED  BY <1>1, <1>2, <1>3 DEF Stage

\* The server refuses the login: whatever is under way, no Ok will come.
LEMMA ServeRefusal ==
  ASSUME StartupInv, server.verdict = Nil, client.step # "idle",
         NEW verdict \in {"nodb", "denied", "busy"}, Good => verdict = "busy",
         NEW sent, Quiet(sent), SeqNo(sent[Len(sent)]) \in Nat,
         NEW consumed \in BOOLEAN, NEW plugin \in Plugins,
         Serve(Reply("over", verdict, sent), consumed, plugin)
  PROVE  StartupInv'
<1> DEFINE due == SeqNo(sent[Len(sent)]) + 1
<1>1. due \in Nat
  OBVIOUS
<1> HIDE DEF due
<1>2. /\ Types'
      /\ server'.step = "over" /\ server'.verdict = verdict
      /\ conf' = conf /\ client' = client /\ down' = down \o sent
  BY <1>1, ServeFacts DEF StartupInv, due
<1>3. Quiet(down \o sent)
  BY UndecidedIsQuiet, QuietJoin
<1>4. ConfOK'
  BY <1>2 DEF StartupInv, ConfOK
<1>5. Undecided' /\ Granted'
  BY <1>2 DEF Undecided, Granted
<1>6. Quiet(down)'
  BY <1>2, <1>3 DEF Quiet
<1>7. (Good => server.verdict = "busy")'
  BY <1>2 DEF Good, Unserved, Pg
<1>8. client'.outcome # "ok"
  BY <1>2 DEF StartupInv, Undecided
<1>9. Refused'
  BY <1>2, <1>6, <1>7, <1>8 DEF Refused
<1> QED  BY <1>2, <1>4, <1>5, <1>9 DEF StartupInv
\* The server grants the login: what it sends is a tail with nothing read yet.
LEMMA ServeGrant ==
  ASSUME StartupInv, server.verdict = Nil, down = <<>>,
         NEW consumed \in BOOLEAN, (IF consumed THEN Tail(up) ELSE up) = <<>>,
         client.step \in {"auth", "done"},
         NEW sent, <<>> \o sent = sent, SeqNo(sent[Len(sent)]) \in Nat,
         NEW plugin \in Plugins, Serve(Reply("over", "ready", sent), consumed, plugin),
         \/ /\ Pg
            /\ \/ sent = <<Final, Ok0, Status, Key, Ready>> /\ ~Good
               \/ sent = <<Ok0, Status, Key, Ready>>
         \/ /\ ~Pg
            /\ \/ \E m : sent = <<m>> /\ Type(m) = "ok"
               \/ \E m, n : /\ sent = <<m, n>> /\ Type(m) = "more" /\ Code(m) = "3"
                            /\ Type(n) = "ok"
  PROVE  StartupInv'
<1> DEFINE due == SeqNo(sent[Len(sent)]) + 1
<1>1. due \in Nat
  OBVIOUS
<1> HIDE DEF due
<1>2. /\ Types'
      /\ server'.step = "over" /\ server'.verdict = "ready"
      /\ conf' = conf /\ client' = client /\ down' = sent /\ up' = <<>>
  <2>1. /\ Types'
        /\ server'.step = "over" /\ server'.verdict = "ready"
        /\ conf' = conf /\ client' = client /\ down' = down \o sent
        /\ up' = (IF consumed THEN Tail(up) ELSE up)
    <3> DEFINE r == Reply("over", "ready", sent)
    <3>1. Serve(r, consumed, plugin) /\ Types
      BY DEF StartupInv
    <3> HIDE DEF r
    <3>2. "over" \in PgSteps \cup MySteps \cup {"over"}
      OBVIOUS
    <3> QED  BY <1>1, <3>1, <3>2, ServeFacts, ZenonT(60) DEF due, r
  <2> QED BY <2>1
<1>3. ConfOK' /\ Undecided' /\ Refused'
  BY <1>2 DEF StartupInv, ConfOK, Undecided, Refused
<1>4. (Pg' <=> Pg) /\ (Good' <=> Good)
  BY <1>2 DEF Pg, Good, Unserved
<1>5. CASE Pg
  <2>1. PgTail'
    BY <1>2, <1>4, <1>5 DEF PgTail, Key, Ready, Status, Ok0, Final
  <2> QED BY <1>2, <1>3, <1>4, <1>5, <2>1 DEF StartupInv, Granted, Undecided, Types
<1>6. CASE ~Pg
  <2>1. MyTail'
    BY <1>2, <1>6 DEF MyTail
  <2> QED BY <1>2, <1>3, <1>4, <1>6, <2>1 DEF StartupInv, Granted, Undecided, Types
<1> QED  BY <1>5, <1>6

(***************************************************************************)
(* The client.                                                             *)
(***************************************************************************)
Leaves(kind) ==
  /\ Types' /\ client'.step = "done" /\ client'.outcome = kind
  /\ UNCHANGED <<conf, server, up>>
  /\ down' = down \/ (down # <<>> /\ down' = Tail(down))

\* The client gives up, with an error that a login that should succeed does not meet.
LEMMA ClientLeaves ==
  ASSUME StartupInv, client.step # "done", NEW kind, kind # "ok", Leaves(kind),
         (Good /\ server.verdict # "busy") => kind \notin Errors
  PROVE  StartupInv'
<1>1. /\ Types' /\ client'.step = "done" /\ client'.outcome = kind
      /\ conf' = conf /\ server' = server /\ up' = up
      /\ down' = down \/ (down # <<>> /\ down' = Tail(down))
  BY DEF Leaves
<1>2. ConfOK' /\ (Pg' <=> Pg) /\ (Good' <=> Good)
  BY <1>1 DEF StartupInv, ConfOK, Pg, Good, Unserved
<1>3. Undecided'
  <2>1. SUFFICES ASSUME server.verdict = Nil
                 PROVE  \E s \in PgSteps \cup MySteps : server.step \in {s, "dead"} /\ Stage(s)'
    BY <1>1, <1>2 DEF Undecided
  <2>2. PICK s \in PgSteps \cup MySteps : server.step \in {s, "dead"} /\ Stage(s)
    BY <2>1 DEF StartupInv, Undecided
  <2> SUFFICES Stage(s)'
    BY <2>2
  <2>3. (Good => Served(s))' /\ s \in IF Pg' THEN PgSteps ELSE MySteps
    BY <1>1, <1>2, <2>2 DEF Stage, Served
  <2>4. CASE up = <<>> /\ down = <<>>
    BY <1>1, <2>3, <2>4 DEF Stage, Pg
  <2>5. CASE up = <<>> /\ Len(down) = 1 /\ down = <<down[1]>> /\ Question(s, down[1])
    <3>1. CASE down' = down
      <4>1. Question(s, down[1])'
        BY <1>1, <3>1, <2>5 DEF Question, Asks, PgAsks, Pg
      <4> QED  BY <1>1, <2>3, <2>5, <3>1, <4>1 DEF Stage, Pg
    <3>2. CASE down' = Tail(down)
      <4>1. down' = <<>>
        BY <3>2, <2>5, OneMessage
      <4> QED  BY <1>1, <2>3, <2>5, <4>1 DEF Stage, Pg
    <3> QED  BY <1>1, <3>1, <3>2
  <2>6. CASE down = <<>> /\ Len(up) = 1 /\ up = <<up[1]>> /\ Answer(s, up[1])
    <3>1. Answer(s, up[1])'
      BY <1>1, <2>6 DEF Answer, Replies, PgReplies, Pg, HandshakeResponse, Proof
    <3> QED  BY <1>1, <2>3, <2>6, <3>1 DEF Stage, Pg
  <2> QED BY <2>2, <2>4, <2>5, <2>6 DEF Stage
<1>4. Granted'
  BY <1>1, <1>2 DEF StartupInv, Granted
<1>5. Refused'
  <2>1. CASE server.verdict \in {"nodb", "denied", "busy"}
    <3>1. Quiet(down')
      BY <1>1, <2>1, QuietTail DEF StartupInv, Refused
    <3>2. Quiet(down)'
      BY <3>1 DEF Quiet
    <3> QED  BY <1>1, <1>2, <3>2 DEF StartupInv, Refused
  <2> QED BY <1>1, <2>1 DEF Refused
<1> QED  BY <1>1, <1>2, <1>3, <1>4, <1>5 DEF StartupInv
\* A client that reads while the server has not decided reads the question of its step.
LEMMA ReadingFacts ==
  ASSUME StartupInv, server.verdict = Nil, client.step # "done", down # <<>>
  PROVE  /\ up = <<>> /\ Tail(down) = <<>>
         /\ \E s \in IF Pg THEN PgSteps ELSE MySteps :
              /\ server.step \in {s, "dead"} /\ (Good => Served(s))
              /\ client.step = Before(s) /\ Question(s, Head(down))
<1>1. PICK s \in PgSteps \cup MySteps : server.step \in {s, "dead"} /\ Stage(s)
  BY DEF StartupInv, Undecided
<1>2. /\ s \in IF Pg THEN PgSteps ELSE MySteps
      /\ (Good => Served(s))
      /\ up = <<>> /\ client.step = Before(s)
      /\ down = <<down[1]>> /\ Question(s, down[1])
  BY <1>1 DEF Stage
<1>3. Tail(down) = <<>> /\ Head(down) = down[1]
  BY <1>2, OneMessage
<1> QED  BY <1>1, <1>2, <1>3

\* It answers: now the answer of the step is under way.
LEMMA ClientAnswers ==
  ASSUME StartupInv, server.verdict = Nil, client.step # "done", down # <<>>,
         NEW s \in IF Pg THEN PgSteps ELSE MySteps, server.step \in {s, "dead"}, Good => Served(s),
         Question(s, Head(down)),
         NEW a, Replies(s, a), ~Pg => SeqNo(a) = SeqNo(Head(down)) + 1,
         Types', client'.step = After(s), conf' = conf, server' = server,
         down' = Tail(down), up' = <<a>>
  PROVE  StartupInv'
<1>1. down' = <<>>
  BY ReadingFacts
<1>2. ConfOK' /\ (Pg' <=> Pg) /\ (Good' <=> Good) /\ (Good => Served(s))'
  BY DEF StartupInv, ConfOK, Pg, Good, Unserved, Served
<1>3. Answer(s, up[1])'
  <2>1. Replies(s, a)'
    BY DEF Replies, PgReplies, Pg, HandshakeResponse, Proof
  <2>2. ~Pg => SeqNo(a) = server.due
    BY DEF Question
  <2>3. up'[1] = a
    OBVIOUS
  <2> QED BY <2>1, <2>2, <2>3, <1>2 DEF Answer, Replies, PgReplies, Pg, HandshakeResponse, Proof
<1>4. Len(up') = 1 /\ up' = <<up'[1]>>
  BY OneMessage
<1>5. Stage(s)'
  BY <1>1, <1>2, <1>3, <1>4 DEF Stage, Pg
<1>6. client'.outcome = Nil
  BY DEF Types, After
<1>7. s \in PgSteps \cup MySteps
  <2>1. CASE Pg
    BY <2>1
  <2>2. CASE ~Pg
    BY <2>2
  <2> QED BY <2>1, <2>2
<1>8. Undecided'
  BY <1>5, <1>6, <1>7 DEF Undecided, Errors
<1> QED  BY <1>2, <1>8 DEF StartupInv, Granted, Refused

\* A client that has been refused without having read it yet goes on as before.
LEMMA RefusedGoesOn ==
  ASSUME StartupInv, server.verdict \in {"nodb", "denied", "busy"}, down # <<>>,
         Types', client'.outcome # "ok", client'.step # "idle",
         conf' = conf, server' = server, down' = Tail(down)
  PROVE  StartupInv'
<1>1. ConfOK' /\ (Good' <=> Good)
  BY DEF StartupInv, ConfOK, Pg, Good, Unserved
<1>2. Quiet(down')
  BY QuietTail DEF StartupInv, Refused
<1>3. Quiet(down)'
  BY <1>2 DEF Quiet
<1> QED  BY <1>1, <1>3 DEF StartupInv, Undecided, Granted, Refused

\* The three states a dialogue can be in.
LEMMA Verdicts ==
  ASSUME StartupInv
  PROVE  \/ server.verdict = Nil
         \/ server.verdict = "ready"
         \/ server.verdict \in {"nodb", "denied", "busy"}
  BY DEF StartupInv, Types

LEMMA DialStep ==
  ASSUME StartupInv, Dial
  PROVE  StartupInv'
<1>1. server.verdict = Nil /\ client.outcome = Nil
  <2>1. server.verdict # "ready" /\ server.verdict \notin {"nodb", "denied", "busy"}
    BY DEF StartupInv, Granted, Refused, Dial
  <2> QED BY <2>1, Verdicts DEF Dial, StartupInv, Types
<1>2. down = <<>> /\ up = <<>>
  <2>1. PICK s \in PgSteps \cup MySteps : Stage(s)
    BY <1>1 DEF StartupInv, Undecided
  <2>2. client.step = "idle"
    BY DEF Dial
  <2>3. Before(s) = "idle" => ~Question(s, down[1])
    BY DEF Before, Question, Asks
  <2>4. After(s) # "idle"
    BY DEF After
  <2> QED BY <2>1, <2>2, <2>3, <2>4 DEF Stage
<1>3. /\ Types' /\ conf' = conf /\ down' = <<>>
      /\ client'.step = (IF Pg THEN "auth" ELSE "greeting")
      /\ client'.outcome = Nil
      /\ up' = (IF Pg THEN <<Msg("startup", Nil, 0, <<<<conf.db>>>>)>> ELSE <<>>)
      /\ server'.step = "accepted" /\ server'.verdict = Nil
  <2> DEFINE step == IF Pg THEN "auth" ELSE "greeting"
  <2>1. step \in ClientSteps /\ step # "done"
    BY DEF ClientSteps
  <2>2. client' = [client EXCEPT !.step = step] /\ server' = [server EXCEPT !.step = "accepted"]
    BY DEF Dial
  <2> HIDE DEF step
  <2>3. Types' /\ client'.step = step /\ client'.outcome = Nil
        /\ server'.step = "accepted" /\ server'.verdict = Nil
    BY <1>1, <2>1, <2>2 DEF StartupInv, Types, PgSteps, Dial
  <2> QED BY <1>2, <2>3 DEF Dial, step
<1>4. Stage("accepted")'
  <2>1. CASE Pg
    <3> DEFINE m == Msg("startup", Nil, 0, <<<<conf.db>>>>)
    <3>1. up' = <<m>> /\ client'.step = "auth"
      BY <1>3, <2>1
    <3> HIDE DEF m
    <3>2. Len(up') = 1 /\ up' = <<up'[1]>>
      BY <3>1, OneMessage
    <3>3. Answer("accepted", up[1])'
      BY <1>3, <2>1 DEF Answer, Replies, Pg
    <3> QED  BY <1>3, <2>1, <3>1, <3>2, <3>3 DEF Stage, Served, After, Pg, PgSteps
  <2>2. CASE ~Pg
    BY <1>3, <2>2 DEF Stage, Served, Pg, MySteps
  <2> QED BY <2>1, <2>2
<1>5. Undecided'
  BY <1>3, <1>4 DEF Undecided, Errors, PgSteps
<1> QED  BY <1>3, <1>5 DEF StartupInv, ConfOK, Granted, Refused
\* Done writes the end of the dialogue.
LEMMA DoneLeaves ==
  ASSUME StartupInv, NEW kind \in {"ok", "io", "refused", "timeout"} \cup Errors, Done(kind),
         conf' = conf, server' = server, up' = up,
         down' = down \/ (down # <<>> /\ down' = Tail(down))
  PROVE  Leaves(kind) /\ client'.pid = client.pid
<1>1. kind # Nil
  BY DEF Errors
<1>2. client' = [client EXCEPT !.step = "done", !.outcome = kind]
  BY DEF Done
<1>3. Types' /\ client'.step = "done" /\ client'.outcome = kind /\ client'.pid = client.pid
  BY <1>1, <1>2 DEF StartupInv, Types, ClientSteps
<1> QED  BY <1>3 DEF Leaves

LEMMA DialFailsStep ==
  ASSUME StartupInv, DialFails
  PROVE  StartupInv'
<1>1. PICK kind \in {"refused", "timeout"} : Done(kind)
  BY DEF DialFails
<1>2. Leaves(kind)
  BY <1>1, DoneLeaves DEF DialFails
<1> QED  BY <1>1, <1>2, ClientLeaves DEF DialFails, Errors

LEMMA ReadFailsStep ==
  ASSUME StartupInv, ReadFails
  PROVE  StartupInv'
<1>1. Leaves("io")
  BY DoneLeaves DEF ReadFails
<1> QED  BY <1>1, ClientLeaves DEF ReadFails, Errors

\* Where no message of the given type can be: an error, an OK.
LEMMA QuestionTypes ==
  ASSUME NEW s, NEW m, Question(s, m)
  PROVE  /\ Type(m) \in {"R", "greeting", "switch", "more"}
         /\ Type(m) = "R" <=> s = "proof"
  BY DEF Question, Asks, PgAsks

LEMMA TailFacts ==
  ASSUME StartupInv, server.verdict = "ready", client.step = "auth"
  PROVE  /\ down # <<>> /\ up = <<>>
         /\ Type(Head(down)) \in IF Pg THEN {"R", "S", "K", "Z"} ELSE {"more", "ok"}
         /\ Type(Head(down)) = "ok" => Tail(down) = <<>>
         /\ Type(Head(down)) = "Z" => Tail(down) = <<>> /\ client.pid = Pid
<1>1. CASE Pg
  <2>1. PgTail /\ up = <<>>
    BY <1>1 DEF StartupInv, Granted
  <2>2. CASE down = <<Ready>> /\ client.pid = Pid
    BY <2>1, <2>2, <1>1, OneMessage DEF Ready, Msg, Type
  <2>3. CASE down = <<Key, Ready>>
    BY <2>1, <2>3, <1>1 DEF Key, Msg, Type
  <2>4. CASE down = <<Status, Key, Ready>>
    BY <2>1, <2>4, <1>1 DEF Status, Msg, Type
  <2>5. CASE down = <<Ok0, Status, Key, Ready>>
    BY <2>1, <2>5, <1>1 DEF Ok0, Auth, Msg, Type
  <2>6. CASE down = <<Final, Ok0, Status, Key, Ready>>
    BY <2>1, <2>6, <1>1 DEF Final, Auth, Msg, Type
  <2> QED BY <2>1, <2>2, <2>3, <2>4, <2>5, <2>6 DEF PgTail
<1>2. CASE ~Pg
  <2>1. MyTail /\ up = <<>>
    BY <1>2 DEF StartupInv, Granted
  <2>2. CASE Len(down) = 1 /\ down = <<down[1]>> /\ Type(down[1]) = "ok"
    <3>1. down # <<>> /\ Head(down) = down[1] /\ Tail(down) = <<>>
      BY <2>2, OneMessage
    <3> QED  BY <2>1, <2>2, <3>1, <1>2
  <2>3. CASE down = <<down[1], down[2]>> /\ Type(down[1]) = "more"
    <3>1. down # <<>> /\ Head(down) = down[1]
      BY <2>3
    <3> QED  BY <2>1, <2>3, <3>1, <1>2
  <2> QED BY <2>1, <2>2, <2>3 DEF MyTail
<1> QED  BY <1>1, <1>2

LEMMA ReadErrorStep ==
  ASSUME StartupInv, ReadError
  PROVE  StartupInv'
<1>1. client.step = "auth" /\ down # <<>> /\ Type(Head(down)) = "E"
  BY DEF ReadError, Reading
<1>2. Leaves("server")
  BY <1>1, DoneLeaves DEF ReadError, Errors
<1>3. CASE server.verdict = Nil
  BY <1>1, <1>3, ReadingFacts, QuestionTypes
<1>4. CASE server.verdict = "ready"
  BY <1>1, <1>4, TailFacts
<1>5. CASE server.verdict \in {"nodb", "denied", "busy"}
  BY <1>1, <1>2, <1>5, ClientLeaves DEF StartupInv, Refused
<1> QED  BY <1>3, <1>4, <1>5, Verdicts
\* What the loop of postgresql.rs says to an Authentication message: one
\* message, nothing, or an error; to a login that should succeed never an error.
LEMMA AuthenticateSays ==
  ASSUME ConfOK, Types, Pg, NEW m
  PROVE  /\ PgAuthenticate(m).outcome \in {Nil, "auth", "protocol"}
         /\ PgAuthenticate(m).scram \in {Nil, "started", "signed"}
         /\ PgAuthenticate(m).outcome # Nil => PgAuthenticate(m).said = <<>>
<1>1. client.scram \in {Nil, "started", "signed"}
  BY DEF Types
<1> QED  BY <1>1 DEF PgAuthenticate, PgSasl, PgSaslContinue, PgSaslFinal, Goes, Fails

LEMMA AuthenticateAnswers ==
  ASSUME ConfOK, Types, Pg, NEW m, PgAsks(m)
  PROVE  \/ /\ PgAuthenticate(m).outcome = Nil
            /\ \E a : PgAuthenticate(m).said = <<a>> /\ PgReplies(a)
         \/ PgAuthenticate(m).outcome \in {"auth", "protocol"} /\ ~Good
<1>1. conf.auth \in {"cleartext", "md5", "scram", "gss"}
  BY ConfFacts DEF PgAsks, PgLogins
<1>2. CASE conf.auth = "cleartext"
  <2>1. PgAuthenticate(m) = Goes(client.scram, Says("cleartext", Nil))
    BY <1>2 DEF PgAsks, PgAuthenticate
  <2>2. PgReplies(Msg("p", "cleartext", 0, <<<<"cleartext", conf.pw, Nil>>>>))
    BY <1>2 DEF PgReplies
  <2> QED BY <2>1, <2>2 DEF Goes, Says
<1>3. CASE conf.auth = "md5"
  <2>1. PgAuthenticate(m) = Goes(client.scram, Says("md5", Salt))
    BY <1>3 DEF PgAsks, PgAuthenticate
  <2>2. PgReplies(Msg("p", "md5", 0, <<<<"md5", conf.pw, Salt>>>>))
    BY <1>3 DEF PgReplies
  <2> QED BY <2>1, <2>2 DEF Goes, Says
<1>4. CASE conf.auth \in {"scram", "gss"}
  <2>1. ~Good
    BY <1>4 DEF Good, Unserved
  <2>2. \A a : PgReplies(a)
    BY <1>4 DEF PgReplies
  <2>3. CASE PgAuthenticate(m).outcome = Nil
    <3>1. \/ PgAuthenticate(m) = Goes(client.scram, Says("cleartext", Nil))
          \/ PgAuthenticate(m) = Goes(client.scram, Says("md5", Salt))
          \/ PgAuthenticate(m) = Goes("started", Says("first", Nil))
          \/ PgAuthenticate(m) = Goes("signed", Says("scram", Salt))
      BY <2>3 DEF PgAsks, PgAuthenticate, PgSasl, PgSaslContinue, Fails
    <3>2. \E a : PgAuthenticate(m).said = <<a>>
      BY <3>1 DEF Goes, Says
    <3> QED  BY <2>2, <2>3, <3>2
  <2> QED BY <2>1, <2>3, AuthenticateSays
<1> QED  BY <1>1, <1>2, <1>3, <1>4

\* The server's last SCRAM message is never accepted: its v= is read behind the code.
LEMMA FinalFails ==
  ASSUME Types, Pg
  PROVE  PgAuthenticate(Final).outcome \in {"auth", "protocol"}
<1>1. Code(Final) = "12" /\ Body(Final) = <<<<"v">>>>
  BY DEF Final, Auth, Msg, Code, Body
<1>2. "v" \notin NamesRead(Final)
  BY <1>1 DEF NamesRead
<1> QED  BY <1>1, <1>2 DEF PgAuthenticate, PgSaslFinal, Fails

LEMMA PgReadAuthenticationStep ==
  ASSUME StartupInv, PgReadAuthentication
  PROVE  StartupInv'
<1> DEFINE m == Head(down)
           r == PgAuthenticate(m)
           step == IF r.outcome # Nil THEN "done" ELSE "auth"
<1>1. Pg /\ client.step = "auth" /\ down # <<>> /\ Type(m) = "R" /\ ConfOK /\ Types
  BY DEF PgReadAuthentication, Reading, StartupInv
<1>2. /\ client' = [client EXCEPT !.step = step, !.scram = r.scram, !.pid = client.pid, !.outcome = r.outcome]
      /\ up' = up \o r.said /\ down' = Tail(down) /\ conf' = conf /\ server' = server
  <2>1. ~Ended(m)
    BY <1>1 DEF Ended
  <2>2. client' = [client EXCEPT !.scram = r.scram, !.step = step, !.outcome = r.outcome]
    BY <2>1 DEF PgReadAuthentication
  <2> HIDE DEF step, r
  <2>3. client' = [client EXCEPT !.step = step, !.scram = r.scram, !.pid = client.pid, !.outcome = r.outcome]
    BY <1>1, <2>2 DEF Types
  <2> QED BY <2>3 DEF PgReadAuthentication, r
<1>3. /\ r.outcome \in {Nil, "auth", "protocol"} /\ r.scram \in {Nil, "started", "signed"}
      /\ r.outcome # Nil => r.said = <<>>
  BY <1>1, AuthenticateSays
<1>4. r.outcome # Nil /\ up = <<>> => up' = up
  BY <1>2, <1>3
<1>5. step \in ClientSteps /\ (r.outcome = Nil <=> step # "done") /\ (r.outcome = Nil => step = "auth")
  BY DEF ClientSteps
<1> HIDE DEF step, r, m
<1>6. Types' /\ client'.step = step /\ client'.outcome = r.outcome /\ client'.pid = client.pid
  <2>1. client.pid \in {Nil, Pid} /\ r.outcome \in {Nil, "ok", "io", "refused", "timeout"} \cup Errors
    BY <1>1, <1>3 DEF Types, Errors
  <2> DEFINE ending == r.outcome
             scram == r.scram
  <2>2. /\ client' = [client EXCEPT !.step = step, !.scram = scram, !.pid = client.pid, !.outcome = ending]
        /\ ending \in {Nil, "ok", "io", "refused", "timeout"} \cup Errors
        /\ ending = Nil <=> step # "done"
        /\ scram \in {Nil, "started", "signed"}
    BY <1>2, <1>3, <1>5, <2>1
  <2> HIDE DEF ending, scram
  <2>3. Types' /\ client'.step = step /\ client'.outcome = ending /\ client'.pid = client.pid
    BY <1>1, <1>2, <1>5, <2>1, <2>2 DEF Types
  <2> QED BY <2>3 DEF ending
<1>7. CASE server.verdict = Nil
  <2>1. PICK s \in PgSteps : /\ server.step \in {s, "dead"} /\ (Good => Served(s))
                             /\ client.step = Before(s) /\ Question(s, m)
    BY <1>1, <1>7, ReadingFacts DEF m
  <2>2. up = <<>> /\ Tail(down) = <<>>
    BY <1>1, <1>7, ReadingFacts
  <2>3. s = "proof"
    BY <1>1, <2>1, QuestionTypes
  <2>4. PgAsks(m)
    BY <2>1, <2>3 DEF Question, Asks
  <2>5. CASE r.outcome = Nil
    <3>1. PICK a : r.said = <<a>> /\ PgReplies(a)
      BY <1>1, <2>4, <2>5, AuthenticateAnswers DEF r
    <3>2. up' = <<a>>
      BY <1>2, <2>2, <3>1, OneMessage
    <3>3. Replies(s, a) /\ client'.step = After(s)
      BY <1>5, <1>6, <2>3, <2>5, <3>1 DEF Replies, After
    <3>4. s \in IF Pg THEN PgSteps ELSE MySteps
      BY <1>1
    <3> QED  BY <1>1, <1>2, <1>6, <1>7, <2>1, <3>2, <3>3, <3>4, ClientAnswers DEF m
  <2>6. CASE r.outcome # Nil
    <3>1. ~Good
      BY <1>1, <2>4, <2>6, AuthenticateAnswers DEF r
    <3>2. Leaves(r.outcome)
      BY <1>1, <1>2, <1>4, <1>5, <1>6, <2>2, <2>6 DEF Leaves
    <3> QED  BY <1>1, <1>3, <3>1, <3>2, ClientLeaves
  <2> QED BY <2>5, <2>6
<1>8. CASE server.verdict = "ready"
  <2>1. PgTail /\ up = <<>>
    BY <1>1, <1>8 DEF StartupInv, Granted
  <2>2. CASE down = <<Final, Ok0, Status, Key, Ready>> /\ ~Good
    <3>1. m = Final /\ down # <<>>
      BY <2>2 DEF m
    <3>2. r.outcome # Nil
      BY <1>1, <3>1, FinalFails DEF r
    <3>3. Leaves(r.outcome)
      BY <1>1, <1>2, <1>4, <1>5, <1>6, <2>1, <3>2 DEF Leaves
    <3> QED  BY <1>1, <1>3, <2>2, <3>3, ClientLeaves
  <2>3. CASE down = <<Ok0, Status, Key, Ready>>
    <3>1. m = Ok0 /\ Tail(down) = <<Status, Key, Ready>>
      BY <2>3 DEF m
    <3>2. r = Goes(client.scram, <<>>)
      BY <3>1 DEF r, PgAuthenticate, Ok0, Auth, Msg, Code
    <3>3. r.outcome = Nil /\ r.said = <<>>
      BY <3>2 DEF Goes
    <3>4. up' = <<>>
      BY <1>2, <2>1, <3>3
    <3>5. PgTail'
      BY <1>2, <3>1 DEF PgTail, Status, Key, Ready, Msg
    <3>6. ConfOK' /\ (Pg' <=> Pg) /\ (Good' <=> Good)
      BY <1>1, <1>2 DEF ConfOK, Pg, Good, Unserved
    <3>7. client'.step = "auth" /\ client'.outcome = Nil
      BY <1>5, <1>6, <3>3
    <3>8. Granted'
      BY <1>1, <1>2, <1>8, <3>4, <3>5, <3>6, <3>7 DEF StartupInv, Granted, Errors
    <3> QED  BY <1>2, <1>6, <1>8, <3>6, <3>8 DEF StartupInv, Undecided, Refused
  <2>4. CASE down \in {<<Status, Key, Ready>>, <<Key, Ready>>, <<Ready>>}
    <3>1. m \in {Status, Key, Ready}
      BY <2>4 DEF m
    <3> QED  BY <1>1, <3>1 DEF Status, Key, Ready, Msg, Type
  <2> QED BY <2>1, <2>2, <2>3, <2>4 DEF PgTail
<1>9. CASE server.verdict \in {"nodb", "denied", "busy"}
  <2>1. CASE r.outcome = Nil
    BY <1>1, <1>2, <1>5, <1>6, <1>9, <2>1, RefusedGoesOn
  <2>2. CASE r.outcome # Nil
    BY <1>1, <1>2, <1>3, <1>5, <1>6, <1>9, RefusedGoesOn
  <2> QED BY <2>1, <2>2
<1> QED  BY <1>1, <1>7, <1>8, <1>9, Verdicts
LEMMA PgReadOtherStep ==
  ASSUME StartupInv, PgReadOther
  PROVE  StartupInv'
<1> DEFINE m == Head(down)
<1>1. /\ Pg /\ client.step = "auth" /\ down # <<>> /\ Type(m) \notin {"R", "E"}
      /\ down' = Tail(down) /\ conf' = conf /\ server' = server /\ up' = up
      /\ Types /\ client.outcome = Nil
  BY DEF PgReadOther, Reading, StartupInv, Types
<1>2. /\ Type(m) = "Z" => Done("ok")
      /\ Type(m) = "K" => client' = [client EXCEPT !.pid = Body(m)[1][1]]
      /\ Type(m) \notin {"Z", "K"} => client' = client
  BY DEF PgReadOther, Ended
<1> HIDE DEF m
<1>3. (Pg' <=> Pg) /\ (Good' <=> Good) /\ ConfOK'
  BY <1>1 DEF Pg, Good, Unserved, StartupInv, ConfOK
<1>4. CASE server.verdict = Nil
  <2>1. PICK s \in PgSteps : Question(s, m)
    BY <1>1, <1>4, ReadingFacts DEF m
  <2>2. s = "proof" => Type(m) = "R"
    BY <2>1, QuestionTypes
  <2>3. s # "proof" => ~Question(s, m)
    BY <2>1 DEF Question, Asks, PgSteps
  <2> QED BY <1>1, <2>1, <2>2, <2>3
<1>5. CASE server.verdict = "ready"
  <2>1. PgTail /\ up = <<>> /\ server.step \in {"over", "dead"}
    BY <1>1, <1>5 DEF StartupInv, Granted
  <2>2. CASE down = <<Ready>> /\ client.pid = Pid
    <3>1. Type(m) = "Z" /\ Tail(down) = <<>>
      BY <2>2, OneMessage DEF m, Ready, Msg, Type
    <3>2. Leaves("ok") /\ client'.pid = client.pid
      BY <1>1, <1>2, <3>1, DoneLeaves
    <3>3. Granted'
      BY <1>1, <1>5, <2>1, <2>2, <3>1, <3>2, <1>3 DEF Granted, Leaves, Errors
    <3> QED  BY <1>1, <1>3, <1>5, <3>2, <3>3 DEF StartupInv, Leaves, Undecided, Refused
  <2>3. CASE down = <<Key, Ready>>
    <3>1. Type(m) = "K" /\ Tail(down) = <<Ready>> /\ Body(m)[1][1] = Pid
      BY <2>3 DEF m, Key, Msg, Type, Body
    <3>2. client' = [client EXCEPT !.pid = Pid]
      BY <1>2, <3>1
    <3>3. Types' /\ client'.step = "auth" /\ client'.outcome = Nil /\ client'.pid = Pid
      BY <1>1, <3>2 DEF Types
    <3>4. PgTail'
      BY <1>1, <3>1, <3>3 DEF PgTail, Ready, Msg
    <3>5. Granted'
      BY <1>1, <1>3, <1>5, <2>1, <3>3, <3>4 DEF Granted, Errors
    <3> QED  BY <1>1, <1>3, <1>5, <3>3, <3>5 DEF StartupInv, Undecided, Refused
  <2>4. CASE down = <<Status, Key, Ready>>
    <3>1. Type(m) = "S" /\ Tail(down) = <<Key, Ready>>
      BY <2>4 DEF m, Status, Msg, Type
    <3>2. client' = client
      BY <1>2, <3>1
    <3>3. Types'
      BY <1>1, <3>2 DEF Types
    <3>4. PgTail'
      BY <1>1, <3>1 DEF PgTail, Key, Ready, Msg
    <3>5. Granted'
      BY <1>1, <1>3, <1>5, <2>1, <3>2, <3>4 DEF Granted, Errors
    <3> QED  BY <1>1, <1>3, <1>5, <3>3, <3>5 DEF StartupInv, Undecided, Refused
  <2>5. CASE down = <<Ok0, Status, Key, Ready>>
    BY <1>1, <2>5 DEF m, Ok0, Auth, Msg, Type
  <2>6. CASE down = <<Final, Ok0, Status, Key, Ready>>
    BY <1>1, <2>6 DEF m, Final, Auth, Msg, Type
  <2> QED BY <2>1, <2>2, <2>3, <2>4, <2>5, <2>6 DEF PgTail
<1>6. CASE server.verdict \in {"nodb", "denied", "busy"}
  <2>1. Type(m) \in QuietTypes
    BY <1>1, <1>6, QuietTail DEF StartupInv, Refused, m
  <2>2. client' = client
    BY <1>2, <2>1 DEF QuietTypes
  <2>3. Types'
    BY <1>1, <2>2 DEF Types
  <2> QED BY <1>1, <1>6, <2>2, <2>3, RefusedGoesOn
<1> QED  BY <1>4, <1>5, <1>6, Verdicts

(***************************************************************************)
(* The client of MySQL.                                                    *)
(***************************************************************************)
\* A login that should succeed: what its configuration is.
LEMMA GoodFacts ==
  ASSUME ConfOK, ~Pg, Good
  PROVE  /\ conf.pw = conf.secret /\ conf.db = "app"
         /\ conf.pw # Nil => /\ conf.greet \in {Nil, conf.auth}
                             /\ conf.auth \in {"native", "sha2"}
                             /\ conf.auth = "sha2" => ~conf.salted
  BY ConfFacts DEF Good, Unserved, Databases, MyPlugins

LEMMA MyReadGreetingStep ==
  ASSUME StartupInv, MyReadGreeting
  PROVE  StartupInv'
<1> DEFINE m == Head(down)
           plugin == Body(m)[1][1]
           a == Msg("response", Nil, SeqNo(m) + 1, HandshakeResponse(plugin))
<1>1. /\ client.step = "greeting" /\ down # <<>>
      /\ down' = Tail(down) /\ conf' = conf /\ server' = server
      /\ Types /\ ConfOK
  BY DEF MyReadGreeting, Reading, StartupInv
<1>2. \/ Type(m) # "greeting" /\ Done("protocol") /\ up' = up
      \/ Type(m) = "greeting" /\ ~Supported(plugin, TRUE) /\ Done("auth") /\ up' = up
      \/ client' = [client EXCEPT !.step = "auth"] /\ up' = <<a>>
  BY DEF MyReadGreeting
<1>3. up' = up /\ Done("protocol") => Leaves("protocol")
  BY <1>1, DoneLeaves DEF Errors
<1>4. up' = up /\ Done("auth") => Leaves("auth")
  BY <1>1, DoneLeaves DEF Errors
<1>5. client' = [client EXCEPT !.step = "auth"] =>
        Types' /\ client'.step = "auth" /\ client'.outcome = Nil
  BY <1>1 DEF Types, ClientSteps
<1> HIDE DEF a, m
<1>6. CASE server.verdict = Nil
  <2>1. PICK s \in IF Pg THEN PgSteps ELSE MySteps :
               /\ server.step \in {s, "dead"} /\ (Good => Served(s))
               /\ client.step = Before(s) /\ Question(s, m)
    BY <1>1, <1>6, ReadingFacts DEF m
  <2>2. s = "response" /\ ~Pg
    <3>1. s = "response"
      BY <1>1, <2>1 DEF Before, Question, Asks
    <3> QED  BY <2>1, <3>1 DEF PgSteps
  <2>3. Type(m) = "greeting" /\ plugin = conf.greet
    BY <2>1, <2>2 DEF Question, Asks
  <2>4. CASE ~Supported(plugin, TRUE) /\ Leaves("auth")
    <3>1. ~Good
      BY <1>1, <2>2, <2>3, <2>4, GoodFacts DEF Supported
    <3> QED  BY <1>1, <2>4, <3>1, ClientLeaves
  <2>5. CASE client' = [client EXCEPT !.step = "auth"] /\ up' = <<a>>
    <3>1. Replies(s, a) /\ SeqNo(a) = SeqNo(m) + 1
      BY <2>2, <2>3, MessageParts DEF a, Replies
    <3>2. client'.step = After(s)
      BY <1>5, <2>2, <2>5 DEF After
    <3> QED  BY <1>1, <1>5, <1>6, <2>1, <2>5, <3>1, <3>2, ClientAnswers DEF m
  <2> QED BY <1>2, <1>4, <2>3, <2>4, <2>5
<1>7. CASE server.verdict = "ready"
  BY <1>1, <1>7 DEF StartupInv, Granted
<1>8. CASE server.verdict \in {"nodb", "denied", "busy"}
  <2>1. CASE client' = [client EXCEPT !.step = "auth"]
    BY <1>1, <1>5, <1>8, <2>1, RefusedGoesOn
  <2>2. CASE Leaves("protocol") \/ Leaves("auth")
    BY <1>1, <1>8, <2>2, ClientLeaves DEF StartupInv, Refused
  <2> QED BY <1>2, <1>3, <1>4, <2>1, <2>2
<1> QED  BY <1>6, <1>7, <1>8, Verdicts

\* While the server has not decided, a client of MySQL that waits in the
\* loop, or for the key, reads a switch, a request for the password, or the key.
LEMMA MyReadingFacts ==
  ASSUME StartupInv, server.verdict = Nil, ~Pg, client.step \in {"auth", "key"}, down # <<>>
  PROVE  /\ up = <<>> /\ Tail(down) = <<>>
         /\ \E s \in {"switched", "request", "secret"} :
              /\ server.step \in {s, "dead"} /\ (Good => Served(s))
              /\ client.step = Before(s) /\ Question(s, Head(down))
<1>1. PICK s \in MySteps : /\ server.step \in {s, "dead"} /\ (Good => Served(s))
                           /\ client.step = Before(s) /\ Question(s, Head(down))
  BY ReadingFacts
<1>2. s \in {"switched", "request", "secret"}
  BY <1>1 DEF Before, MySteps
<1> QED  BY <1>1, <1>2, ReadingFacts

LEMMA MyReadOkStep ==
  ASSUME StartupInv, MyReadOk
  PROVE  StartupInv'
<1> DEFINE m == Head(down)
<1>1. /\ ~Pg /\ client.step = "auth" /\ down # <<>> /\ Type(m) = "ok" /\ Done("ok")
      /\ down' = Tail(down) /\ conf' = conf /\ server' = server /\ up' = up
      /\ Types /\ ConfOK
  BY DEF MyReadOk, Reading, StartupInv
<1> HIDE DEF m
<1>2. CASE server.verdict = Nil
  BY <1>1, <1>2, ReadingFacts, QuestionTypes DEF m
<1>3. CASE server.verdict = "ready"
  <2>1. Tail(down) = <<>> /\ up = <<>>
    BY <1>1, <1>3, TailFacts DEF m
  <2>2. Leaves("ok")
    BY <1>1, DoneLeaves
  <2>3. (Pg' <=> Pg) /\ (Good' <=> Good) /\ ConfOK'
    BY <1>1 DEF Pg, Good, Unserved, ConfOK
  <2>4. Granted'
    BY <1>1, <1>3, <2>1, <2>2, <2>3 DEF StartupInv, Granted, Leaves, Errors
  <2> QED BY <1>1, <1>3, <2>2, <2>3, <2>4 DEF StartupInv, Leaves, Undecided, Refused
<1>4. CASE server.verdict \in {"nodb", "denied", "busy"}
  BY <1>1, <1>4, QuietTail DEF StartupInv, Refused, m, QuietTypes
<1> QED  BY <1>2, <1>3, <1>4, Verdicts

LEMMA MyReadSwitchStep ==
  ASSUME StartupInv, MyReadSwitch
  PROVE  StartupInv'
<1> DEFINE m == Head(down)
           plugin == Body(m)[1][1]
           a == Msg("proof", Nil, SeqNo(m) + 1, <<Proof(plugin, Body(m)[1][2])>>)
<1>1. /\ ~Pg /\ client.step = "auth" /\ down # <<>> /\ Type(m) = "switch"
      /\ down' = Tail(down) /\ conf' = conf /\ server' = server
      /\ Types /\ ConfOK
  BY DEF MyReadSwitch, Reading, StartupInv
<1>2. \/ ~Supported(plugin, FALSE) /\ Done("auth") /\ up' = up
      \/ client' = client /\ up' = Append(up, a)
  BY DEF MyReadSwitch
<1>3. Done("auth") /\ up' = up => Leaves("auth")
  BY <1>1, DoneLeaves DEF Errors
<1>4. client' = client => Types' /\ client'.outcome = Nil
  BY <1>1 DEF Types
<1> HIDE DEF a, m
<1>5. CASE server.verdict = Nil
  <2>1. PICK s \in {"switched", "request", "secret"} :
               /\ server.step \in {s, "dead"} /\ (Good => Served(s))
               /\ client.step = Before(s) /\ Question(s, m)
    BY <1>1, <1>5, MyReadingFacts DEF m
  <2>2. s = "switched" /\ Body(m) = <<<<conf.auth, "salt+NUL">>>>
    BY <1>1, <2>1 DEF Question, Asks
  <2>3. CASE ~Supported(plugin, FALSE) /\ Leaves("auth")
    <3>1. Good => conf.pw = Nil
      BY <2>1, <2>2 DEF Served
    <3>2. ~Good
      BY <2>3, <3>1 DEF Supported
    <3> QED  BY <1>1, <2>3, <3>2, ClientLeaves
  <2>4. CASE client' = client /\ up' = Append(up, a)
    <3>1. up' = <<a>>
      <4>1. up = <<>>
        BY <1>1, <1>5, MyReadingFacts
      <4> QED  BY <2>4, <4>1
    <3>2. Replies(s, a) /\ SeqNo(a) = SeqNo(m) + 1
      <4>1. Body(m)[1][1] = conf.auth /\ Body(m)[1][2] = "salt+NUL"
        BY <2>2
      <4> QED  BY <2>2, <4>1, MessageParts DEF a, Replies
    <3>3. client'.step = After(s) /\ s \in IF Pg THEN PgSteps ELSE MySteps
      BY <1>1, <2>2, <2>4 DEF After, MySteps
    <3> QED  BY <1>1, <1>4, <1>5, <2>1, <2>4, <3>1, <3>2, <3>3, ClientAnswers DEF m
  <2> QED BY <1>2, <1>3, <2>3, <2>4
<1>6. CASE server.verdict = "ready"
  BY <1>1, <1>6, TailFacts DEF m
<1>7. CASE server.verdict \in {"nodb", "denied", "busy"}
  <2>1. CASE client' = client
    BY <1>1, <1>4, <1>7, <2>1, RefusedGoesOn
  <2>2. CASE Leaves("auth")
    BY <1>1, <1>7, <2>2, ClientLeaves DEF StartupInv, Refused
  <2> QED BY <1>2, <1>3, <2>1, <2>2
<1> QED  BY <1>5, <1>6, <1>7, Verdicts

LEMMA MyReadMoreStep ==
  ASSUME StartupInv, MyReadMore
  PROVE  StartupInv'
<1> DEFINE m == Head(down)
           a == Msg("request", "2", SeqNo(m) + 1, <<>>)
<1>1. /\ ~Pg /\ client.step = "auth" /\ down # <<>> /\ Type(m) = "more"
      /\ down' = Tail(down) /\ conf' = conf /\ server' = server
      /\ Types /\ ConfOK
  BY DEF MyReadMore, Reading, StartupInv
<1>2. \/ Code(m) = "3" /\ client' = client /\ up' = up
      \/ Code(m) = "4" /\ client' = [client EXCEPT !.step = "key"] /\ up' = Append(up, a)
      \/ Code(m) \notin {"3", "4"} /\ Done("auth") /\ up' = up
  BY DEF MyReadMore
<1>3. Done("auth") /\ up' = up => Leaves("auth")
  BY <1>1, DoneLeaves DEF Errors
<1>4. client' = client => Types' /\ client'.outcome = Nil /\ client'.step = "auth"
  BY <1>1 DEF Types
<1>5. client' = [client EXCEPT !.step = "key"] =>
        Types' /\ client'.outcome = Nil /\ client'.step = "key"
  BY <1>1 DEF Types, ClientSteps
<1> HIDE DEF a, m
<1>6. CASE server.verdict = Nil
  <2>1. PICK s \in {"switched", "request", "secret"} :
               /\ server.step \in {s, "dead"} /\ (Good => Served(s))
               /\ client.step = Before(s) /\ Question(s, m)
    BY <1>1, <1>6, MyReadingFacts DEF m
  <2>2. s = "request" /\ Code(m) = "4"
    BY <1>1, <2>1 DEF Question, Asks, Before
  <2>3. client' = [client EXCEPT !.step = "key"] /\ up' = Append(up, a)
    BY <1>2, <2>2
  <2>4. up' = <<a>>
    <3>1. up = <<>>
      BY <1>1, <1>6, MyReadingFacts
    <3> QED  BY <2>3, <3>1
  <2>5. Replies(s, a) /\ SeqNo(a) = SeqNo(m) + 1
    BY <2>2, MessageParts DEF a, Replies
  <2>6. client'.step = After(s) /\ s \in IF Pg THEN PgSteps ELSE MySteps
    BY <1>1, <1>5, <2>2, <2>3 DEF After, MySteps
  <2> QED BY <1>1, <1>5, <1>6, <2>1, <2>3, <2>4, <2>5, <2>6, ClientAnswers DEF m
<1>7. CASE server.verdict = "ready"
  <2>1. MyTail /\ up = <<>>
    BY <1>1, <1>7 DEF StartupInv, Granted
  <2>2. Len(down) # 1 \/ down # <<down[1]>> \/ Type(down[1]) # "ok"
    BY <1>1, OneMessage DEF m
  <2>3. /\ down = <<down[1], down[2]>>
        /\ Type(down[1]) = "more" /\ Code(down[1]) = "3" /\ Type(down[2]) = "ok"
    BY <2>1, <2>2 DEF MyTail
  <2>4. m = down[1] /\ Tail(down) = <<down[2]>>
    <3> DEFINE x == down[1]
               y == down[2]
    <3>1. down = <<x, y>>
      BY <2>3
    <3> HIDE DEF x, y
    <3>2. Head(down) = x /\ Tail(down) = <<y>>
      BY <3>1, TwoMessages
    <3> QED  BY <3>2 DEF m, x, y
  <2>5. client' = client /\ up' = up /\ down' = <<down[2]>>
    BY <1>1, <1>2, <2>3, <2>4
  <2>6. Len(down') = 1 /\ down' = <<down'[1]>> /\ Type(down'[1]) = "ok"
    <3>1. down'[1] = down[2]
      BY <2>5, OneMessage
    <3> QED  BY <2>3, <2>5, <3>1, OneMessage
  <2>7. MyTail'
    BY <2>6 DEF MyTail, Type
  <2>8. (Pg' <=> Pg) /\ (Good' <=> Good) /\ ConfOK'
    BY <1>1 DEF Pg, Good, Unserved, ConfOK
  <2>9. Granted'
    BY <1>1, <1>7, <2>1, <2>5, <2>7, <2>8, <1>4 DEF StartupInv, Granted, Errors
  <2> QED BY <1>1, <1>4, <1>7, <2>5, <2>8, <2>9 DEF StartupInv, Undecided, Refused
<1>8. CASE server.verdict \in {"nodb", "denied", "busy"}
  <2>1. CASE client' = client \/ client' = [client EXCEPT !.step = "key"]
    BY <1>1, <1>4, <1>5, <1>8, <2>1, RefusedGoesOn
  <2>2. CASE Leaves("auth")
    BY <1>1, <1>8, <2>2, ClientLeaves DEF StartupInv, Refused
  <2> QED BY <1>2, <1>3, <2>1, <2>2
<1> QED  BY <1>6, <1>7, <1>8, Verdicts

LEMMA MyReadKeyStep ==
  ASSUME StartupInv, MyReadKey
  PROVE  StartupInv'
<1> DEFINE m == Head(down)
           a == Msg("secret", Nil, KeySeq(m), <<<<"rsa", conf.pw, Nil>>>>)
<1>1. /\ client.step = "key" /\ down # <<>>
      /\ down' = Tail(down) /\ conf' = conf /\ server' = server
      /\ Types /\ ConfOK
  BY DEF MyReadKey, Reading, StartupInv
<1>2. \/ Type(m) = "more" /\ client' = [client EXCEPT !.step = "auth"] /\ up' = Append(up, a)
      \/ Type(m) # "more" /\ Done("protocol") /\ up' = up
  BY DEF MyReadKey
<1>3. Done("protocol") /\ up' = up => Leaves("protocol")
  BY <1>1, DoneLeaves DEF Errors
<1>4. client' = [client EXCEPT !.step = "auth"] =>
        Types' /\ client'.outcome = Nil /\ client'.step = "auth"
  BY <1>1 DEF Types, ClientSteps
<1> HIDE DEF a, m
<1>5. CASE server.verdict = Nil
  <2>1. PICK s \in IF Pg THEN PgSteps ELSE MySteps :
               /\ server.step \in {s, "dead"} /\ (Good => Served(s))
               /\ client.step = Before(s) /\ Question(s, m)
    BY <1>1, <1>5, ReadingFacts DEF m
  <2>2. s = "secret"
    BY <1>1, <2>1 DEF Before
  <2>3. Type(m) = "more"
    BY <2>1, <2>2 DEF Question, Asks
  <2>4. client' = [client EXCEPT !.step = "auth"] /\ up' = Append(up, a)
    BY <1>2, <2>3
  <2>5. up' = <<a>>
    <3>1. up = <<>>
      BY <1>1, <1>5, ReadingFacts
    <3> QED  BY <2>4, <3>1
  <2>6. Replies(s, a) /\ SeqNo(a) = SeqNo(m) + 1
    BY <2>2, MessageParts DEF a, Replies, KeySeq
  <2>7. client'.step = After(s)
    BY <1>4, <2>2, <2>4 DEF After
  <2> QED BY <1>1, <1>4, <1>5, <2>1, <2>4, <2>5, <2>6, <2>7, ClientAnswers DEF m
<1>6. CASE server.verdict = "ready"
  BY <1>1, <1>6 DEF StartupInv, Granted
<1>7. CASE server.verdict \in {"nodb", "denied", "busy"}
  <2>1. CASE client' = [client EXCEPT !.step = "auth"]
    BY <1>1, <1>4, <1>7, <2>1, RefusedGoesOn
  <2>2. CASE Leaves("protocol")
    BY <1>1, <1>7, <2>2, ClientLeaves DEF StartupInv, Refused
  <2> QED BY <1>2, <1>3, <2>1, <2>2
<1> QED  BY <1>5, <1>6, <1>7, Verdicts
(***************************************************************************)
(* The servers.                                                            *)
(***************************************************************************)
\* A server that still waits has not decided; what it takes is the answer of its step.
LEMMA ServingFacts ==
  ASSUME StartupInv, Waiting
  PROVE  /\ server.verdict = Nil /\ client.step # "idle"
         /\ Stage(server.step)
         /\ server.step \in IF Pg THEN PgSteps ELSE MySteps
<1>1. server.step \notin {"over", "dead", "idle"}
  BY DEF Waiting
<1>2. server.verdict = Nil
  BY <1>1, Verdicts DEF StartupInv, Granted, Refused
<1>3. PICK s \in PgSteps \cup MySteps : server.step \in {s, "dead"} /\ Stage(s)
  BY <1>2 DEF StartupInv, Undecided
<1>4. server.step = s
  BY <1>1, <1>3
<1>5. Before(s) # "idle" /\ After(s) # "idle"
  BY <1>1, <1>4 DEF Before, After
<1>6. client.step # "idle"
  BY <1>1, <1>3, <1>4, <1>5 DEF Stage
<1> QED  BY <1>2, <1>3, <1>4, <1>6 DEF Stage

LEMMA TakingFacts ==
  ASSUME StartupInv, Waiting, up # <<>>
  PROVE  /\ down = <<>> /\ Tail(up) = <<>>
         /\ client.step \in {After(server.step), "done"}
         /\ Good => Served(server.step)
         /\ Answer(server.step, Head(up))
<1>1. Stage(server.step)
  BY ServingFacts
<1>2. /\ down = <<>> /\ client.step \in {After(server.step), "done"}
      /\ up = <<up[1]>> /\ Answer(server.step, up[1])
      /\ Good => Served(server.step)
  BY <1>1 DEF Stage
<1>3. Tail(up) = <<>> /\ Head(up) = up[1]
  BY <1>2, OneMessage
<1> QED  BY <1>2, <1>3

LEMMA ServerRefusesStep ==
  ASSUME StartupInv, ServerRefuses
  PROVE  StartupInv'
<1> DEFINE e == Msg("E", "busy", 0, <<<<Nil>>>>)
<1>1. Quiet(<<e>>)
  <2>1. Type(e) \in QuietTypes
    BY MessageParts DEF QuietTypes
  <2> HIDE DEF e
  <2> QED BY <2>1, QuietOne
<1>2. SeqNo(<<e>>[Len(<<e>>)]) \in Nat
  <2>1. SeqNo(e) = 0
    BY MessageParts
  <2> HIDE DEF e
  <2> QED BY <2>1, OneMessage
<1>3. Serve(Reply("over", "busy", <<e>>), FALSE, server.plugin) /\ Waiting
  BY DEF ServerRefuses, Refuse
<1> HIDE DEF e
<1>4. server.verdict = Nil /\ client.step # "idle" /\ server.plugin \in Plugins
  BY <1>3, ServingFacts DEF StartupInv, Types
<1> DEFINE sent == <<e>>
<1>5. Quiet(sent) /\ SeqNo(sent[Len(sent)]) \in Nat /\ Serve(Reply("over", "busy", sent), FALSE, server.plugin)
  BY <1>1, <1>2, <1>3
<1> HIDE DEF sent
<1> QED  BY <1>4, <1>5, ServeRefusal

LEMMA ServerDiesStep ==
  ASSUME StartupInv, ServerDies
  PROVE  StartupInv'
<1>1. /\ server' = [server EXCEPT !.step = "dead"] /\ server.step # "idle"
      /\ conf' = conf /\ client' = client /\ up' = up /\ down' = down
      /\ Types /\ ConfOK
  BY DEF ServerDies, StartupInv
<1>2. /\ Types' /\ server'.step = "dead" /\ server'.verdict = server.verdict
      /\ server'.due = server.due
  BY <1>1 DEF Types
<1>3. ConfOK' /\ (Pg' <=> Pg) /\ (Good' <=> Good)
  BY <1>1 DEF ConfOK, Pg, Good, Unserved
<1>4. Undecided'
  <2>1. SUFFICES ASSUME server.verdict = Nil
                 PROVE  \E s \in PgSteps \cup MySteps : Stage(s)'
    BY <1>1, <1>2, <1>3 DEF StartupInv, Undecided
  <2>2. PICK s \in PgSteps \cup MySteps : Stage(s)
    BY <2>1 DEF StartupInv, Undecided
  <2>3. Stage(s)'
    BY <1>1, <1>2, <1>3, <2>2
       DEF Stage, Served, Question, Asks, PgAsks, Answer, Replies, PgReplies, Pg, HandshakeResponse, Proof
  <2> QED BY <2>3
<1>5. Granted'
  <2>1. PgTail => PgTail'
    BY <1>1, <1>3 DEF PgTail, Final, Ok0, Status, Key, Ready, Auth, Msg
  <2>2. MyTail => MyTail'
    BY <1>1 DEF MyTail, Type, Code
  <2> QED BY <1>1, <1>2, <1>3, <2>1, <2>2 DEF StartupInv, Granted
<1>6. Refused'
  <2>1. Quiet(down) => Quiet(down)'
    BY <1>1 DEF Quiet
  <2> QED BY <1>1, <1>2, <1>3, <2>1 DEF StartupInv, Refused
<1> QED  BY <1>2, <1>3, <1>4, <1>5, <1>6 DEF StartupInv

\* PostgreSQL lets the role in, unless the database is gone.
Gone == Msg("E", "nodb", 0, <<>>)

LEMMA Prefixed ==
  ASSUME NEW S, NEW s \in Seq(S), NEW t \in Seq(S), NEW q \in Seq(S), Len(s) = 1,
         Len(q) = 1 + Len(t), q[1] = s[1], \A i \in 1..Len(t) : q[i + 1] = t[i]
  PROVE  s \o t = q
<1> DEFINE r == s \o t
<1>1. /\ r \in Seq(S) /\ Len(r) = Len(s) + Len(t)
      /\ \A i \in 1..(Len(s) + Len(t)) : r[i] = IF i <= Len(s) THEN s[i] ELSE t[i - Len(s)]
  BY ConcatProperties
<1> HIDE DEF r
<1>2. Len(t) \in Nat /\ Len(s) = 1
  OBVIOUS
<1>3. Len(r) = 1 + Len(t)
  BY <1>1
<1>4. \A i \in 1..(1 + Len(t)) : r[i] = q[i]
  <2> SUFFICES ASSUME NEW i \in 1..(1 + Len(t)) PROVE r[i] = q[i]
    OBVIOUS
  <2>1. r[i] = IF i <= 1 THEN s[i] ELSE t[i - 1]
    BY <1>1, <1>2
  <2>2. CASE i = 1
    BY <2>1, <2>2
  <2>3. CASE i # 1
    <3>1. i - 1 \in 1..Len(t) /\ (i - 1) + 1 = i /\ ~(i <= 1)
      BY <1>2, <2>3
    <3> QED  BY <2>1, <3>1
  <2> QED BY <2>2, <2>3
<1>5. r = q
  BY <1>1, <1>3, <1>4, SeqEqual
<1> QED  BY <1>5 DEF r

\* What the server sends to let the role in, after its last SCRAM message or without.
LEMMA PgGrantIs ==
  /\ conf.db = "gone" => /\ PgGrant(<<>>) = Reply("over", "nodb", <<Ok0, Gone>>)
                         /\ PgGrant(<<Final>>) = Reply("over", "nodb", <<Final, Ok0, Gone>>)
  /\ conf.db # "gone" =>
       /\ PgGrant(<<>>) = Reply("over", "ready", <<Ok0, Status, Key, Ready>>)
       /\ PgGrant(<<Final>>) = Reply("over", "ready", <<Final, Ok0, Status, Key, Ready>>)
<1>1. /\ <<>> \o <<Ok0, Gone>> = <<Ok0, Gone>>
      /\ <<>> \o <<Ok0, Status, Key, Ready>> = <<Ok0, Status, Key, Ready>>
  OBVIOUS
<1>2. <<Final>> \o <<Ok0, Gone>> = <<Final, Ok0, Gone>>
  <2> DEFINE S == {Final, Ok0, Gone}
             s == <<Final>>
             t == <<Ok0, Gone>>
             q == <<Final, Ok0, Gone>>
  <2>1. s \in Seq(S) /\ t \in Seq(S) /\ q \in Seq(S)
    OBVIOUS
  <2>2. Len(s) = 1 /\ Len(t) = 2 /\ Len(q) = 3 /\ q[1] = s[1] /\ q[2] = t[1] /\ q[3] = t[2]
    OBVIOUS
  <2> HIDE DEF S, s, t, q
  <2>3. \A i \in 1..Len(t) : q[i + 1] = t[i]
    BY <2>2
  <2>5. Len(s) = 1 /\ Len(q) = 1 + Len(t) /\ q[1] = s[1]
    BY <2>2
  <2>4. s \o t = q
    BY <2>1, <2>3, <2>5, Prefixed
  <2> QED BY <2>4 DEF s, t, q
<1>3. <<Final>> \o <<Ok0, Status, Key, Ready>> = <<Final, Ok0, Status, Key, Ready>>
  <2> DEFINE S == {Final, Ok0, Status, Key, Ready}
             s == <<Final>>
             t == <<Ok0, Status, Key, Ready>>
             q == <<Final, Ok0, Status, Key, Ready>>
  <2>1. s \in Seq(S) /\ t \in Seq(S) /\ q \in Seq(S)
    OBVIOUS
  <2>2. /\ Len(s) = 1 /\ Len(t) = 4 /\ Len(q) = 5 /\ q[1] = s[1]
        /\ q[2] = t[1] /\ q[3] = t[2] /\ q[4] = t[3] /\ q[5] = t[4]
    OBVIOUS
  <2> HIDE DEF S, s, t, q
  <2>3. \A i \in 1..Len(t) : q[i + 1] = t[i]
    BY <2>2
  <2>5. Len(s) = 1 /\ Len(q) = 1 + Len(t) /\ q[1] = s[1]
    BY <2>2
  <2>4. s \o t = q
    BY <2>1, <2>3, <2>5, Prefixed
  <2> QED BY <2>4 DEF s, t, q
<1>4. ASSUME NEW before
      PROVE  PgGrant(before) = IF conf.db = "gone" THEN Reply("over", "nodb", before \o <<Ok0, Gone>>)
                               ELSE Reply("over", "ready", before \o <<Ok0, Status, Key, Ready>>)
  BY Zenon DEF PgGrant, Ok0, Gone, Status, Key, Ready
<1> QED  BY <1>1, <1>2, <1>3, <1>4, Zenon

LEMMA EndsOfTails ==
  /\ Quiet(<<Ok0, Gone>>) /\ Quiet(<<Final, Ok0, Gone>>)
  /\ SeqNo(<<Ok0, Gone>>[Len(<<Ok0, Gone>>)]) \in Nat
  /\ SeqNo(<<Final, Ok0, Gone>>[Len(<<Final, Ok0, Gone>>)]) \in Nat
  /\ SeqNo(<<Ok0, Status, Key, Ready>>[Len(<<Ok0, Status, Key, Ready>>)]) \in Nat
  /\ SeqNo(<<Final, Ok0, Status, Key, Ready>>[Len(<<Final, Ok0, Status, Key, Ready>>)]) \in Nat
  /\ <<>> \o <<Ok0, Status, Key, Ready>> = <<Ok0, Status, Key, Ready>>
  /\ <<>> \o <<Final, Ok0, Status, Key, Ready>> = <<Final, Ok0, Status, Key, Ready>>
<1>1. Type(Ok0) \in QuietTypes /\ Type(Final) \in QuietTypes /\ Type(Gone) \in QuietTypes
  BY MessageParts DEF Ok0, Final, Gone, Auth, QuietTypes
<1>2. SeqNo(Gone) = 0 /\ SeqNo(Ready) = 0
  BY MessageParts DEF Gone, Ready
<1>3. Quiet(<<Ok0, Gone>>) /\ Quiet(<<Final, Ok0, Gone>>)
  <2> DEFINE S == {Ok0, Final, Gone}
  <2>1. <<Ok0, Gone>> \in Seq(S) /\ <<Final, Ok0, Gone>> \in Seq(S)
    OBVIOUS
  <2>2. \A m \in S : Type(m) \in QuietTypes
    BY <1>1
  <2> HIDE DEF S
  <2> QED BY <2>1, <2>2, QuietIntro
<1>4. /\ <<Ok0, Gone>>[Len(<<Ok0, Gone>>)] = Gone
      /\ <<Final, Ok0, Gone>>[Len(<<Final, Ok0, Gone>>)] = Gone
      /\ <<Ok0, Status, Key, Ready>>[Len(<<Ok0, Status, Key, Ready>>)] = Ready
      /\ <<Final, Ok0, Status, Key, Ready>>[Len(<<Final, Ok0, Status, Key, Ready>>)] = Ready
  OBVIOUS
<1>5. /\ <<>> \o <<Ok0, Status, Key, Ready>> = <<Ok0, Status, Key, Ready>>
      /\ <<>> \o <<Final, Ok0, Status, Key, Ready>> = <<Final, Ok0, Status, Key, Ready>>
  OBVIOUS
<1>6. 0 \in Nat
  OBVIOUS
<1> QED  BY <1>2, <1>3, <1>4, <1>5, <1>6, Zenon

LEMMA PgGrants ==
  ASSUME StartupInv, Pg, server.verdict = Nil, down = <<>>, Tail(up) = <<>>,
         client.step \in {"auth", "done"}, NEW r, Serve(r, TRUE, Nil),
         r = PgGrant(<<>>) \/ (r = PgGrant(<<Final>>) /\ ~Good)
  PROVE  StartupInv'
<1>1. Nil \in Plugins
  BY DEF Plugins
<1>2. CASE conf.db = "gone"
  <2>1. \E sent : /\ r = Reply("over", "nodb", sent)
                  /\ Quiet(sent) /\ SeqNo(sent[Len(sent)]) \in Nat
    <3>1. CASE r = PgGrant(<<>>)
      <4>1. r = Reply("over", "nodb", <<Ok0, Gone>>)
        BY <1>2, <3>1, PgGrantIs
      <4> QED  BY <4>1, EndsOfTails, Zenon
    <3>2. CASE r = PgGrant(<<Final>>)
      <4>1. r = Reply("over", "nodb", <<Final, Ok0, Gone>>)
        BY <1>2, <3>2, PgGrantIs
      <4> QED  BY <4>1, EndsOfTails, Zenon
    <3> QED  BY <3>1, <3>2
  <2>2. ~Good
    BY <1>2 DEF Good
  <2>3. PICK sent : /\ r = Reply("over", "nodb", sent)
                    /\ Quiet(sent) /\ SeqNo(sent[Len(sent)]) \in Nat
    BY <2>1, Zenon
  <2> QED BY <1>1, <2>2, <2>3, ServeRefusal
<1>3. CASE conf.db # "gone"
  <2>1. CASE r = PgGrant(<<>>)
    <3> DEFINE sent == <<Ok0, Status, Key, Ready>>
    <3>1. /\ r = Reply("over", "ready", sent) /\ sent = <<Ok0, Status, Key, Ready>>
          /\ SeqNo(sent[Len(sent)]) \in Nat /\ <<>> \o sent = sent
      <4>1. r = Reply("over", "ready", <<Ok0, Status, Key, Ready>>)
        BY <1>3, <2>1, PgGrantIs
      <4> QED  BY <4>1, EndsOfTails, Zenon
    <3> HIDE DEF sent
    <3> QED  BY <1>1, <3>1, ServeGrant
  <2>2. CASE r = PgGrant(<<Final>>) /\ ~Good
    <3> DEFINE sent == <<Final, Ok0, Status, Key, Ready>>
    <3>1. /\ r = Reply("over", "ready", sent) /\ sent = <<Final, Ok0, Status, Key, Ready>>
          /\ SeqNo(sent[Len(sent)]) \in Nat /\ <<>> \o sent = sent
      <4>1. r = Reply("over", "ready", <<Final, Ok0, Status, Key, Ready>>)
        BY <1>3, <2>2, PgGrantIs
      <4> QED  BY <4>1, EndsOfTails, Zenon
    <3> HIDE DEF sent
    <3> QED  BY <1>1, <2>2, <3>1, ServeGrant
  <2> QED BY <2>1, <2>2
<1> QED  BY <1>2, <1>3

LEMMA ServeRefuse ==
  ASSUME StartupInv, server.verdict = Nil, client.step # "idle",
         NEW verdict \in {"nodb", "denied"}, ~Good, NEW n \in Nat,
         NEW consumed \in BOOLEAN, NEW plugin \in Plugins, Serve(Refuse(verdict, n), consumed, plugin)
  PROVE  StartupInv'
<1> DEFINE e == Msg("E", verdict, n, <<<<Nil>>>>)
           sent == <<e>>
<1>1. Type(e) \in QuietTypes /\ SeqNo(e) = n
  BY MessageParts DEF QuietTypes
<1>2. Refuse(verdict, n) = Reply("over", verdict, sent)
  BY DEF Refuse
<1> HIDE DEF e
<1>3. Quiet(sent) /\ SeqNo(sent[Len(sent)]) \in Nat
  BY <1>1, QuietOne, OneMessage
<1> HIDE DEF sent
<1> QED  BY <1>2, <1>3, ServeRefusal

LEMMA PgTakeStartupStep ==
  ASSUME StartupInv, PgTakeStartup
  PROVE  StartupInv'
<1>1. Pg /\ server.step = "accepted" /\ up # <<>> /\ Waiting /\ ConfOK
  BY DEF PgTakeStartup, Waiting, StartupInv
<1>2. /\ server.verdict = Nil /\ down = <<>> /\ Tail(up) = <<>> /\ client.step \in {"auth", "done"}
  BY <1>1, ServingFacts, TakingFacts DEF After
<1>3. \/ conf.auth = "trust" /\ Serve(PgGrant(<<>>), TRUE, Nil)
      \/ conf.auth = "cleartext" /\ Serve(Reply("proof", Nil, <<Auth("3", <<>>)>>), TRUE, Nil)
      \/ conf.auth = "md5" /\ Serve(Reply("proof", Nil, <<Auth("5", <<>>)>>), TRUE, Nil)
      \/ conf.auth = "gss" /\ Serve(Reply("proof", Nil, <<Auth("7", <<>>)>>), TRUE, Nil)
      \/ \E b : conf.auth = "scram" /\ Serve(Reply("proof", Nil, <<Auth("10", b)>>), TRUE, Nil)
  <2>1. conf.auth \in {"trust", "cleartext", "md5", "scram", "gss"}
    BY <1>1, ConfFacts DEF PgLogins
  <2> QED BY <2>1 DEF PgTakeStartup
<1>4. CASE Serve(PgGrant(<<>>), TRUE, Nil)
  BY <1>1, <1>2, <1>4, PgGrants
<1>5. ASSUME NEW code \in {"3", "5", "7", "10"}, NEW b,
             Serve(Reply("proof", Nil, <<Auth(code, b)>>), TRUE, Nil),
             conf.auth # "trust", conf.auth = "cleartext" => code = "3", conf.auth = "md5" => code = "5"
      PROVE  StartupInv'
  <2> DEFINE q == Auth(code, b)
  <2>1. Type(q) = "R" /\ Code(q) = code /\ SeqNo(q) = 0
    BY MessageParts DEF Auth
  <2> HIDE DEF q
  <2>2. Asks("proof", q)
    BY <1>5, <2>1 DEF Asks, PgAsks
  <2>3. "proof" \in (IF Pg THEN PgSteps ELSE MySteps) /\ (Good => Served("proof"))
    BY <1>1 DEF PgSteps, Served
  <2>4. client.step \in {Before("proof"), "done"} /\ Nil \in Plugins
    BY <1>2 DEF Before, Plugins
  <2>5. Serve(Reply("proof", Nil, <<q>>), TRUE, Nil)
    BY <1>5 DEF q
  <2>6. (IF TRUE THEN Tail(up) ELSE up) = <<>>
    BY <1>2
  <2> QED BY <1>2, <2>2, <2>3, <2>4, <2>5, <2>6, ServeAsks
<1> QED  BY <1>3, <1>4, <1>5

LEMMA PgTakeProofStep ==
  ASSUME StartupInv, PgTakeProof
  PROVE  StartupInv'
<1> DEFINE m == Head(up)
           kind == Code(m)
           good == Body(m)[1][2] = conf.secret
           q == Auth("11", <<<<"r">>, <<"s">>, <<"i">>>>)
<1>1. Pg /\ server.step = "proof" /\ up # <<>> /\ Waiting /\ ConfOK
  BY DEF PgTakeProof, Waiting, StartupInv
<1>2. /\ server.verdict = Nil /\ down = <<>> /\ Tail(up) = <<>> /\ client.step \in {"auth", "done"}
      /\ PgReplies(m)
  BY <1>1, ServingFacts, TakingFacts DEF After, Answer, Replies
<1>3. \/ kind = "first" /\ Serve(Reply("proof", Nil, <<q>>), TRUE, Nil)
      \/ kind = "scram" /\ good /\ Serve(PgGrant(<<Final>>), TRUE, Nil)
      \/ kind \in {"cleartext", "md5"} /\ good /\ Serve(PgGrant(<<>>), TRUE, Nil)
      \/ ~(kind \in {"cleartext", "md5"} /\ good) /\ Serve(Refuse("denied", 0), TRUE, Nil)
  BY DEF PgTakeProof, Final
<1>4. conf.auth \in {"cleartext", "md5", "scram", "gss"}
  BY <1>1, <1>2, ConfFacts DEF PgReplies, PgLogins
<1>5. conf.auth \in {"scram", "gss"} => ~Good
  BY <1>1 DEF Good, Unserved
<1>6. conf.auth \in {"cleartext", "md5"} => kind = conf.auth /\ Body(m)[1][2] = conf.pw
  <2>1. CASE conf.auth = "cleartext"
    BY <1>2, <2>1 DEF PgReplies, Msg, Code, Body
  <2>2. CASE conf.auth = "md5"
    BY <1>2, <2>2 DEF PgReplies, Msg, Code, Body
  <2> QED BY <2>1, <2>2
<1>7. Good => kind \in {"cleartext", "md5"} /\ good
  BY <1>4, <1>5, <1>6 DEF Good
<1> HIDE DEF m, kind, good
<1>8. CASE kind = "first" /\ Serve(Reply("proof", Nil, <<q>>), TRUE, Nil)
  <2>1. conf.auth \in {"scram", "gss"}
    BY <1>4, <1>6, <1>8
  <2>2. Type(q) = "R" /\ Code(q) = "11" /\ SeqNo(q) = 0
    BY MessageParts DEF Auth
  <2>3. Serve(Reply("proof", Nil, <<q>>), TRUE, Nil)
    BY <1>8
  <2> HIDE DEF q
  <2>4. Asks("proof", q)
    BY <2>1, <2>2 DEF Asks, PgAsks
  <2>5. "proof" \in (IF Pg THEN PgSteps ELSE MySteps) /\ (Good => Served("proof"))
    BY <1>1 DEF PgSteps, Served
  <2>6. client.step \in {Before("proof"), "done"} /\ Nil \in Plugins
    BY <1>2 DEF Before, Plugins
  <2>7. (IF TRUE THEN Tail(up) ELSE up) = <<>>
    BY <1>2
  <2> QED BY <1>2, <2>3, <2>4, <2>5, <2>6, <2>7, ServeAsks
<1>9. CASE kind = "scram" /\ Serve(PgGrant(<<Final>>), TRUE, Nil)
  <2>1. ~Good
    BY <1>7, <1>9
  <2> QED BY <1>1, <1>2, <1>9, <2>1, PgGrants
<1>10. CASE Serve(PgGrant(<<>>), TRUE, Nil)
  BY <1>1, <1>2, <1>10, PgGrants
<1>11. CASE ~(kind \in {"cleartext", "md5"} /\ good) /\ Serve(Refuse("denied", 0), TRUE, Nil)
  <2>1. ~Good /\ client.step # "idle" /\ Nil \in Plugins /\ 0 \in Nat
    BY <1>2, <1>7, <1>11 DEF Plugins
  <2> QED BY <1>2, <1>11, <2>1, ServeRefuse
<1> QED  BY <1>3, <1>8, <1>9, <1>10, <1>11

(***************************************************************************)
(* The MySQL server.                                                       *)
(***************************************************************************)
LEMMA MyGreetStep ==
  ASSUME StartupInv, MyGreet
  PROVE  StartupInv'
<1> DEFINE q == Msg("greeting", Nil, 0, <<<<conf.greet, Salt>>>>)
<1>1. ~Pg /\ server.step = "accepted" /\ Waiting /\ ConfOK
  BY DEF MyGreet, Waiting, StartupInv
<1>2. Stage("accepted") /\ server.verdict = Nil
  BY <1>1, ServingFacts
<1>3. up = <<>> /\ down = <<>> /\ client.step \in {"greeting", "done"}
  BY <1>1, <1>2 DEF Stage, Question, Asks, Answer, Replies
<1>4. Type(q) = "greeting" /\ SeqNo(q) = 0 /\ Body(q) = <<<<conf.greet, Salt>>>>
  BY MessageParts
<1>5. Serve(Reply("response", Nil, <<q>>), FALSE, conf.greet)
  BY DEF MyGreet
<1> HIDE DEF q
<1>6. Asks("response", q)
  BY <1>4 DEF Asks
<1>7. /\ "response" \in (IF Pg THEN PgSteps ELSE MySteps) /\ (Good => Served("response"))
      /\ client.step \in {Before("response"), "done"}
  BY <1>1, <1>3 DEF MySteps, Served, Before
<1>8. conf.greet \in Plugins
  BY <1>1, ConfFacts
<1>9. (IF FALSE THEN Tail(up) ELSE up) = <<>>
  BY <1>3
<1> QED  BY <1>2, <1>3, <1>5, <1>6, <1>7, <1>8, <1>9, ServeAsks

\* MySQL opens the database for a role whose password was right.
LEMMA MyGrants ==
  ASSUME StartupInv, ~Pg, server.verdict = Nil, down = <<>>, Tail(up) = <<>>,
         client.step \in {"auth", "done"}, NEW db, Good => db = "app", NEW n \in Nat,
         NEW before, before = <<>> \/ \E m : before = <<m>> /\ Type(m) = "more" /\ Code(m) = "3",
         NEW plugin \in Plugins, Serve(MyGrant(db, n, before), TRUE, plugin)
  PROVE  StartupInv'
<1>1. CASE db = "app"
  <2> DEFINE k == Msg("ok", Nil, n, <<>>)
             sent == Append(before, k)
  <2>1. Serve(Reply("over", "ready", sent), TRUE, plugin)
    BY <1>1 DEF MyGrant
  <2>2. Type(k) = "ok" /\ SeqNo(k) = n
    BY MessageParts
  <2> HIDE DEF k
  <2>3. CASE before = <<>>
    <3>1. sent = <<k>>
      BY <2>3
    <3>2. SeqNo(sent[Len(sent)]) \in Nat /\ <<>> \o sent = sent
      BY <2>2, <3>1, OneMessage
    <3> HIDE DEF sent
    <3>3. \E m : sent = <<m>> /\ Type(m) = "ok"
      BY <2>2, <3>1
    <3>4. (IF TRUE THEN Tail(up) ELSE up) = <<>>
      OBVIOUS
    <3> QED  BY <2>1, <3>2, <3>3, <3>4, ServeGrant
  <2>4. ASSUME NEW m, before = <<m>>, Type(m) = "more", Code(m) = "3"
        PROVE  StartupInv'
    <3>1. sent = <<m, k>>
      BY <2>4, TwoMessages
    <3>2. SeqNo(sent[Len(sent)]) \in Nat
      BY <2>2, <3>1, TwoMessages
    <3>3. <<>> \o sent = sent
      <4>1. sent \in Seq({m, k})
        BY <3>1
      <4> HIDE DEF sent
      <4> QED  BY <4>1, ConcatEmptySeq
    <3> HIDE DEF sent
    <3>4. \E a, b : sent = <<a, b>> /\ Type(a) = "more" /\ Code(a) = "3" /\ Type(b) = "ok"
      BY <2>2, <2>4, <3>1
    <3>5. (IF TRUE THEN Tail(up) ELSE up) = <<>>
      OBVIOUS
    <3> QED  BY <2>1, <3>2, <3>3, <3>4, <3>5, ServeGrant
  <2> QED BY <2>3, <2>4
<1>2. CASE db # "app"
  <2>1. ~Good /\ client.step # "idle"
    BY <1>2
  <2>2. Serve(Refuse("nodb", n), TRUE, plugin)
    BY <1>2 DEF MyGrant
  <2> QED BY <2>1, <2>2, ServeRefuse
<1> QED  BY <1>1, <1>2

\* It judges a proof: the login goes on, is refused, or the password itself is asked for.
LEMMA MyJudged ==
  ASSUME StartupInv, ~Pg, server.verdict = Nil, down = <<>>, Tail(up) = <<>>,
         client.step \in {"auth", "done"}, NEW proof, NEW pl, NEW db, NEW n \in Nat,
         Good => /\ db = "app" /\ pl = conf.auth
                 /\ conf.pw = Nil => proof = NoProof
                 /\ conf.pw # Nil => proof = IF pl = "sha2" THEN <<"sha2", conf.pw, Nil>>
                                             ELSE <<"native", conf.pw, Salt>>,
         NEW plugin \in Plugins, Serve(MyJudge(proof, pl, db, n), TRUE, plugin)
  PROVE  StartupInv'
<1> DEFINE more == Msg("more", "3", n, <<>>)
           ask == Msg("more", "4", n, <<>>)
           request == Reply("request", Nil, <<ask>>)
<1>0. n + 1 \in Nat /\ ConfOK
  BY DEF StartupInv
<1>1. \/ Serve(MyGrant(db, n, <<>>), TRUE, plugin)
      \/ Serve(MyGrant(db, n + 1, <<more>>), TRUE, plugin)
      \/ Serve(Refuse("denied", n), TRUE, plugin)
      \/ Serve(request, TRUE, plugin)
  BY DEF MyJudge
<1>2. Good /\ conf.pw = Nil => Serve(MyGrant(db, n, <<>>), TRUE, plugin)
  <2> SUFFICES ASSUME Good, conf.pw = Nil PROVE Serve(MyGrant(db, n, <<>>), TRUE, plugin)
    OBVIOUS
  <2>1. conf.secret = Nil /\ proof = NoProof
    BY <1>0, GoodFacts
  <2>2. MyJudge(proof, pl, db, n) = MyGrant(db, n, <<>>)
    BY <2>1, Zenon DEF MyJudge
  <2> QED BY <2>2
<1>3. Good /\ conf.pw # Nil =>
        /\ pl \in {"native", "sha2"} /\ (pl = "sha2" => ~conf.salted)
        /\ proof = MyHash(pl) /\ proof # NoProof /\ conf.secret # Nil
  BY <1>0, GoodFacts DEF MyHash, NoProof
<1>4. Good /\ conf.pw # Nil =>
        \/ Serve(MyGrant(db, n, <<>>), TRUE, plugin)
        \/ Serve(MyGrant(db, n + 1, <<more>>), TRUE, plugin)
        \/ Serve(request, TRUE, plugin) /\ ~conf.salted
  <2> SUFFICES ASSUME Good, conf.pw # Nil
               PROVE  \/ Serve(MyGrant(db, n, <<>>), TRUE, plugin)
                      \/ Serve(MyGrant(db, n + 1, <<more>>), TRUE, plugin)
                      \/ Serve(request, TRUE, plugin) /\ ~conf.salted
    OBVIOUS
  <2>1. CASE pl = "native"
    <3>1. MyJudge(proof, pl, db, n) = MyGrant(db, n, <<>>)
      <4>1. conf.secret # Nil /\ proof # NoProof /\ proof = MyHash(pl)
        BY <1>3
      <4> QED  BY <2>1, <4>1, Zenon DEF MyJudge
    <3> QED  BY <3>1
  <2>2. CASE pl = "sha2"
    <3>1. ~conf.salted
      BY <1>3, <2>2
    <3>2. MyJudge(proof, pl, db, n) \in {MyGrant(db, n + 1, <<more>>), request}
      BY <1>3, <2>2 DEF MyJudge
    <3> QED  BY <3>1, <3>2
  <2> QED BY <1>3, <2>1, <2>2
<1>5. /\ Type(more) = "more" /\ Code(more) = "3"
      /\ Type(ask) = "more" /\ Code(ask) = "4" /\ SeqNo(ask) = n
  BY MessageParts
<1> HIDE DEF more, ask
<1>6. CASE Serve(MyGrant(db, n, <<>>), TRUE, plugin)
  BY <1>6, MyGrants
<1>7. CASE Serve(MyGrant(db, n + 1, <<more>>), TRUE, plugin)
  <2>1. \E m : <<more>> = <<m>> /\ Type(m) = "more" /\ Code(m) = "3"
    BY <1>5
  <2> QED BY <1>0, <1>7, <2>1, MyGrants
<1>8. CASE Serve(request, TRUE, plugin) /\ (Good => ~conf.salted)
  <2>1. Asks("request", ask)
    BY <1>5 DEF Asks
  <2>2. /\ "request" \in (IF Pg THEN PgSteps ELSE MySteps) /\ (Good => Served("request"))
        /\ client.step \in {Before("request"), "done"}
    BY <1>8 DEF MySteps, Served, Before
  <2>3. (IF TRUE THEN Tail(up) ELSE up) = <<>>
    OBVIOUS
  <2> QED BY <1>8, <2>1, <2>2, <2>3, ServeAsks
<1>9. CASE Serve(Refuse("denied", n), TRUE, plugin) /\ ~Good
  <2>1. client.step # "idle"
    OBVIOUS
  <2> QED BY <1>9, <2>1, ServeRefuse
<1> QED  BY <1>1, <1>2, <1>4, <1>6, <1>7, <1>8, <1>9

LEMMA Extended ==
  ASSUME NEW S, NEW s \in Seq(S), NEW e \in S, NEW r, r = s \o <<e>>
  PROVE  /\ r \in Seq(S) /\ Len(r) = Len(s) + 1
         /\ \A i \in 1..Len(s) : r[i] = s[i]
         /\ r[Len(s) + 1] = e
<1> DEFINE t == <<e>>
<1>1. t \in Seq(S) /\ Len(t) = 1 /\ t[1] = e /\ r = s \o t
  OBVIOUS
<1> HIDE DEF t
<1>2. /\ r \in Seq(S) /\ Len(r) = Len(s) + Len(t)
      /\ \A i \in 1..(Len(s) + Len(t)) : r[i] = IF i <= Len(s) THEN s[i] ELSE t[i - Len(s)]
  BY <1>1, ConcatProperties
<1>3. Len(s) \in Nat
  OBVIOUS
<1>4. Len(r) = Len(s) + 1 /\ \A i \in 1..Len(s) : r[i] = s[i]
  BY <1>1, <1>2, <1>3
<1>5. r[Len(s) + 1] = e
  <2>1. Len(s) + 1 \in 1..(Len(s) + Len(t)) /\ ~(Len(s) + 1 <= Len(s)) /\ (Len(s) + 1) - Len(s) = 1
    BY <1>1, <1>3
  <2> QED BY <1>1, <1>2, <2>1
<1> QED  BY <1>2, <1>4, <1>5

\* The parts of the handshake response of a login that names a database.
LEMMA ResponseParts ==
  ASSUME conf.db # Nil, NEW g
  PROVE  /\ HandshakeResponse(g)[1] = Proof(g, Salt)
         /\ HandshakeResponse(g)[2][1] = conf.db
         /\ g # Nil => Len(HandshakeResponse(g)) > 2 /\ HandshakeResponse(g)[3][1] = g
<1> DEFINE a == Proof(g, Salt)
           b == <<conf.db>>
           c == <<g>>
           d == <<Nil>>
           S == {a, b, c, d}
           one == <<a>>
           two == one \o <<b>>
           three == two \o <<c>>
<1>1. HandshakeResponse(g) = <<a>> \o <<b>> \o (IF g = Nil THEN <<>> ELSE <<c>>) \o <<d>>
  BY DEF HandshakeResponse
<1>2. b[1] = conf.db /\ c[1] = g
  OBVIOUS
<1>3. a \in S /\ b \in S /\ c \in S /\ d \in S
  OBVIOUS
<1> HIDE DEF a, b, c, d, S
<1>4. one \in Seq(S) /\ Len(one) = 1 /\ one[1] = a
  BY <1>3
<1> HIDE DEF one
<1>5. two \in Seq(S) /\ Len(two) = 2 /\ two[1] = a /\ two[2] = b
  <2> HIDE DEF two
  <2>1. two = one \o <<b>>
    BY DEF two
  <2>2. /\ two \in Seq(S) /\ Len(two) = Len(one) + 1 /\ two[Len(one) + 1] = b
        /\ \A i \in 1..Len(one) : two[i] = one[i]
    BY <1>3, <1>4, <2>1, Extended
  <2> QED BY <1>4, <2>2
<1> HIDE DEF two
<1>6. three \in Seq(S) /\ Len(three) = 3 /\ three[1] = a /\ three[2] = b /\ three[3] = c
  <2> HIDE DEF three
  <2>1. three = two \o <<c>>
    BY DEF three
  <2>2. /\ three \in Seq(S) /\ Len(three) = Len(two) + 1 /\ three[Len(two) + 1] = c
        /\ \A i \in 1..Len(two) : three[i] = two[i]
    BY <1>3, <1>5, <2>1, Extended
  <2> QED BY <1>5, <2>2
<1> HIDE DEF three
<1> DEFINE r == HandshakeResponse(g)
<1>7. CASE g = Nil
  <2>1. r = two \o <<d>>
    <3>1. two \o <<>> = two
      BY <1>5, ConcatEmptySeq
    <3> QED  BY <1>1, <1>7, <3>1 DEF two, one
  <2> HIDE DEF r
  <2>2. \A i \in 1..Len(two) : r[i] = two[i]
    BY <1>3, <1>5, <2>1, Extended
  <2>3. r[1] = a /\ r[2] = b
    BY <1>5, <2>2
  <2> QED BY <1>2, <1>7, <2>3 DEF a, r
<1>8. CASE g # Nil
  <2>1. r = three \o <<d>>
    BY <1>1, <1>8 DEF three, two, one
  <2> HIDE DEF r
  <2>2. Len(r) = Len(three) + 1 /\ \A i \in 1..Len(three) : r[i] = three[i]
    BY <1>3, <1>6, <2>1, Extended, SMTT(60)
  <2>3. r[1] = a /\ r[2] = b /\ r[3] = c /\ Len(r) = 4
    BY <1>6, <2>2
  <2> QED BY <1>2, <2>3 DEF a, r
<1> QED  BY <1>7, <1>8

LEMMA MyTakeResponseStep ==
  ASSUME StartupInv, MyTakeResponse
  PROVE  StartupInv'
<1> DEFINE m == Head(up)
           db == Body(m)[2][1]
           plugin == IF conf.greet = Nil THEN "native"
                     ELSE IF Len(Body(m)) > 2 THEN Body(m)[3][1] ELSE Nil
           n == SeqNo(m) + 1
           q == Msg("switch", Nil, n, <<<<conf.auth, "salt+NUL">>>>)
<1>1. server.step = "response" /\ up # <<>> /\ Waiting /\ ConfOK
  BY DEF MyTakeResponse, Waiting, StartupInv
<1>2. /\ ~Pg /\ server.verdict = Nil /\ down = <<>> /\ Tail(up) = <<>>
      /\ client.step \in {"auth", "done"}
      /\ Body(m) = HandshakeResponse(conf.greet) /\ SeqNo(m) = server.due
  <2>1. ~Pg
    BY <1>1, ServingFacts DEF PgSteps
  <2> QED BY <1>1, <2>1, ServingFacts, TakingFacts DEF After, Answer, Replies
<1>3. SeqNo(m) \in Nat /\ n \in Nat
  BY <1>2 DEF StartupInv, Types
<1>4. conf.auth \in Plugins
  BY <1>1, <1>2, ConfFacts DEF MyPlugins, Plugins
<1>5. \/ plugin = conf.auth /\ Serve(MyJudge(Body(m)[1], plugin, db, n), TRUE, conf.auth)
      \/ plugin # conf.auth /\ Serve(Reply("switched", Nil, <<q>>), TRUE, conf.auth)
  BY <1>2 DEF MyTakeResponse, InOrder
<1>6. Good => /\ Body(m)[1] = Proof(conf.greet, Salt) /\ db = "app"
              /\ conf.greet = Nil => plugin = "native" /\ conf.auth = "native"
              /\ conf.greet # Nil => plugin = conf.greet
  <2> SUFFICES ASSUME Good
               PROVE  /\ Body(m)[1] = Proof(conf.greet, Salt) /\ db = "app"
                      /\ conf.greet = Nil => plugin = "native" /\ conf.auth = "native"
                      /\ conf.greet # Nil => plugin = conf.greet
    OBVIOUS
  <2>1. conf.db = "app" /\ conf.db # Nil
    BY <1>1, <1>2, GoodFacts
  <2>2. conf.greet = Nil => conf.auth = "native"
    BY <1>1, <1>2, ConfFacts
  <2> QED BY <1>2, <2>1, <2>2, ResponseParts
<1>7. Good /\ plugin # conf.auth => conf.pw = Nil
  BY <1>1, <1>2, <1>6, GoodFacts
<1>8. CASE plugin = conf.auth /\ Serve(MyJudge(Body(m)[1], plugin, db, n), TRUE, conf.auth)
  <2>1. Good => /\ db = "app" /\ plugin = conf.auth
                /\ conf.pw = Nil => Body(m)[1] = NoProof
                /\ conf.pw # Nil => Body(m)[1] = IF plugin = "sha2" THEN <<"sha2", conf.pw, Nil>>
                                                 ELSE <<"native", conf.pw, Salt>>
    <3>1. Good /\ conf.pw # Nil => (conf.greet = "sha2" <=> plugin = "sha2")
      BY <1>6
    <3> QED  BY <1>6, <1>8, <3>1 DEF Proof
  <2> HIDE DEF m, db, plugin, n
  <2> QED BY <1>2, <1>3, <1>4, <1>8, <2>1, MyJudged
<1>9. CASE plugin # conf.auth /\ Serve(Reply("switched", Nil, <<q>>), TRUE, conf.auth)
  <2>1. Type(q) = "switch" /\ SeqNo(q) = n /\ Body(q) = <<<<conf.auth, "salt+NUL">>>>
    BY MessageParts
  <2> HIDE DEF q, m, n, plugin, db
  <2>2. Asks("switched", q)
    BY <1>3, <2>1 DEF Asks
  <2>3. /\ "switched" \in (IF Pg THEN PgSteps ELSE MySteps) /\ (Good => Served("switched"))
        /\ client.step \in {Before("switched"), "done"}
    BY <1>2, <1>7, <1>9 DEF MySteps, Served, Before
  <2>4. (IF TRUE THEN Tail(up) ELSE up) = <<>>
    BY <1>2
  <2> QED BY <1>2, <1>4, <1>9, <2>2, <2>3, <2>4, ServeAsks
<1> QED  BY <1>5, <1>8, <1>9

\* What is known of the client's message when the server takes the next one.
LEMMA MyTakingFacts ==
  ASSUME StartupInv, server.step \in {"switched", "request", "secret"}, up # <<>>
  PROVE  /\ ~Pg /\ server.verdict = Nil /\ down = <<>> /\ Tail(up) = <<>>
         /\ client.step \in {After(server.step), "done"}
         /\ Good => Served(server.step)
         /\ Replies(server.step, Head(up)) /\ SeqNo(Head(up)) = server.due
         /\ SeqNo(Head(up)) \in Nat /\ SeqNo(Head(up)) + 1 \in Nat
         /\ server.plugin \in Plugins
         /\ Good => NamedDb = "app"
<1>1. Waiting /\ ConfOK
  BY DEF Waiting, StartupInv
<1>2. ~Pg
  BY <1>1, ServingFacts DEF PgSteps
<1>3. Replies(server.step, Head(up)) /\ SeqNo(Head(up)) = server.due
  BY <1>1, <1>2, TakingFacts DEF Answer
<1>4. server.due \in Nat /\ server.plugin \in Plugins
  BY DEF StartupInv, Types
<1>5. Good => NamedDb = "app"
  BY <1>1, <1>2, GoodFacts DEF NamedDb
<1> QED  BY <1>1, <1>2, <1>3, <1>4, <1>5, ServingFacts, TakingFacts

LEMMA MyTakeProofStep ==
  ASSUME StartupInv, MyTakeProof
  PROVE  StartupInv'
<1> DEFINE m == Head(up)
           n == SeqNo(m) + 1
<1>1. server.step = "switched" /\ up # <<>>
  BY DEF MyTakeProof
<1>2. /\ ~Pg /\ server.verdict = Nil /\ down = <<>> /\ Tail(up) = <<>>
      /\ client.step \in {"auth", "done"} /\ (Good => conf.pw = Nil)
      /\ Body(m) = <<Proof(conf.auth, "salt+NUL")>> /\ SeqNo(m) = server.due
      /\ n \in Nat /\ server.plugin \in Plugins /\ (Good => NamedDb = "app")
  BY <1>1, MyTakingFacts DEF After, Served, Replies
<1>3. Serve(MyJudge(Body(m)[1], conf.auth, NamedDb, n), TRUE, server.plugin)
  BY <1>2 DEF MyTakeProof, InOrder
<1>4. Good => Body(m)[1] = NoProof /\ conf.pw = Nil
  BY <1>2 DEF Proof
<1> HIDE DEF m, n
<1> QED  BY <1>2, <1>3, <1>4, MyJudged

LEMMA MyTakeKeyRequestStep ==
  ASSUME StartupInv, MyTakeKeyRequest
  PROVE  StartupInv'
<1> DEFINE m == Head(up)
           n == SeqNo(m) + 1
           q == Msg("more", "key", n, <<>>)
<1>1. server.step = "request" /\ up # <<>>
  BY DEF MyTakeKeyRequest
<1>2. /\ ~Pg /\ server.verdict = Nil /\ down = <<>> /\ Tail(up) = <<>>
      /\ client.step \in {"key", "done"} /\ (Good => ~conf.salted)
      /\ SeqNo(m) = server.due /\ n \in Nat /\ server.plugin \in Plugins
  BY <1>1, MyTakingFacts DEF After, Served
<1>3. Serve(Reply("secret", Nil, <<q>>), TRUE, server.plugin)
  BY <1>2 DEF MyTakeKeyRequest, InOrder
<1>4. Type(q) = "more" /\ SeqNo(q) = n
  BY MessageParts
<1> HIDE DEF q, m, n
<1>5. Asks("secret", q)
  BY <1>2, <1>4 DEF Asks
<1>6. /\ "secret" \in (IF Pg THEN PgSteps ELSE MySteps) /\ (Good => Served("secret"))
      /\ client.step \in {Before("secret"), "done"}
  BY <1>2 DEF MySteps, Served, Before
<1>7. (IF TRUE THEN Tail(up) ELSE up) = <<>>
  BY <1>2
<1> QED  BY <1>2, <1>3, <1>5, <1>6, <1>7, ServeAsks

LEMMA MyTakeSecretStep ==
  ASSUME StartupInv, MyTakeSecret
  PROVE  StartupInv'
<1> DEFINE m == Head(up)
           n == SeqNo(m) + 1
           good == Body(m)[1] = <<"rsa", conf.secret, IF conf.salted THEN Salt ELSE Nil>>
<1>1. server.step = "secret" /\ up # <<>>
  BY DEF MyTakeSecret
<1>2. /\ ~Pg /\ server.verdict = Nil /\ down = <<>> /\ Tail(up) = <<>>
      /\ client.step \in {"auth", "done"} /\ (Good => ~conf.salted)
      /\ Body(m) = <<<<"rsa", conf.pw, Nil>>>> /\ SeqNo(m) = server.due
      /\ n \in Nat /\ server.plugin \in Plugins /\ (Good => NamedDb = "app")
  BY <1>1, MyTakingFacts DEF After, Served, Replies
<1>3. \/ good /\ Serve(MyGrant(NamedDb, n, <<>>), TRUE, server.plugin)
      \/ ~good /\ Serve(Refuse("denied", n), TRUE, server.plugin)
  BY <1>2 DEF MyTakeSecret, InOrder
<1>4. Good => good
  BY <1>2 DEF Good
<1> HIDE DEF m, n, good
<1>5. CASE Serve(MyGrant(NamedDb, n, <<>>), TRUE, server.plugin)
  BY <1>2, <1>5, MyGrants
<1>6. CASE ~good /\ Serve(Refuse("denied", n), TRUE, server.plugin)
  <2>1. ~Good /\ client.step # "idle"
    BY <1>2, <1>4, <1>6
  <2> QED BY <1>2, <1>6, <2>1, ServeRefuse
<1> QED  BY <1>3, <1>5, <1>6

LEMMA StutterStep ==
  ASSUME StartupInv, UNCHANGED vars
  PROVE  StartupInv'
<1>1. conf' = conf /\ client' = client /\ server' = server /\ up' = up /\ down' = down
  BY DEF vars
<1>2. ConfOK' /\ Types'
  BY <1>1 DEF StartupInv, ConfOK, Types
<1>3. (Pg' <=> Pg) /\ (Good' <=> Good)
  BY <1>1 DEF Pg, Good, Unserved
<1>4. Undecided'
  <2>1. \A s \in PgSteps \cup MySteps : Stage(s) => Stage(s)'
    <3> SUFFICES ASSUME NEW s \in PgSteps \cup MySteps, Stage(s)
                 PROVE  Stage(s)'
      OBVIOUS
    <3>1. Served(s)' <=> Served(s)
      BY <1>1 DEF Served
    <3>2. Question(s, down[1])' <=> Question(s, down[1])
      BY <1>1, <1>3 DEF Question, Asks, PgAsks
    <3>3. Answer(s, up[1])' <=> Answer(s, up[1])
      BY <1>1, <1>3 DEF Answer, Replies, PgReplies, HandshakeResponse, Proof
    <3>4. QED BY <1>1, <1>3, <3>1, <3>2, <3>3 DEF Stage
  <2> QED BY <1>1, <1>3, <2>1 DEF StartupInv, Undecided
<1>5. Granted'
  <2>1. PgTail => PgTail'
    BY <1>1, <1>3 DEF PgTail, Final, Ok0, Status, Key, Ready, Auth, Msg
  <2>2. MyTail => MyTail'
    BY <1>1 DEF MyTail, Type, Code
  <2> QED BY <1>1, <1>3, <2>1, <2>2 DEF StartupInv, Granted
<1>6. Refused'
  <2>1. Quiet(down) => Quiet(down)'
    BY <1>1 DEF Quiet
  <2> QED BY <1>1, <1>3, <2>1 DEF StartupInv, Refused
<1> QED  BY <1>2, <1>4, <1>5, <1>6 DEF StartupInv

LEMMA NextPreserves == StartupInv /\ [Next]_vars => StartupInv'
<1> SUFFICES ASSUME StartupInv, [Next]_vars PROVE StartupInv'
  OBVIOUS
<1>1. CASE Dial
  BY <1>1, DialStep
<1>2. CASE DialFails
  BY <1>2, DialFailsStep
<1>3. CASE ReadFails
  BY <1>3, ReadFailsStep
<1>4. CASE ReadError
  BY <1>4, ReadErrorStep
<1>5. CASE PgReadAuthentication
  BY <1>5, PgReadAuthenticationStep
<1>6. CASE PgReadOther
  BY <1>6, PgReadOtherStep
<1>7. CASE MyReadGreeting
  BY <1>7, MyReadGreetingStep
<1>8. CASE MyReadOk
  BY <1>8, MyReadOkStep
<1>9. CASE MyReadSwitch
  BY <1>9, MyReadSwitchStep
<1>10. CASE MyReadMore
  BY <1>10, MyReadMoreStep
<1>11. CASE MyReadKey
  BY <1>11, MyReadKeyStep
<1>12. CASE PgTakeStartup
  BY <1>12, PgTakeStartupStep
<1>13. CASE PgTakeProof
  BY <1>13, PgTakeProofStep
<1>14. CASE MyGreet
  BY <1>14, MyGreetStep
<1>15. CASE MyTakeResponse
  BY <1>15, MyTakeResponseStep
<1>16. CASE MyTakeProof
  BY <1>16, MyTakeProofStep
<1>17. CASE MyTakeKeyRequest
  BY <1>17, MyTakeKeyRequestStep
<1>18. CASE MyTakeSecret
  BY <1>18, MyTakeSecretStep
<1>19. CASE ServerRefuses
  BY <1>19, ServerRefusesStep
<1>20. CASE ServerDies
  BY <1>20, ServerDiesStep
<1>21. CASE UNCHANGED vars
  BY <1>21, StutterStep
<1> QED  BY <1>1, <1>2, <1>3, <1>4, <1>5, <1>6, <1>7, <1>8, <1>9, <1>10, <1>11, <1>12, <1>13,
            <1>14, <1>15, <1>16, <1>17, <1>18, <1>19, <1>20, <1>21 DEF Next, Over

-----------------------------------------------------------------------------
\* The dialogue keeps to its course, whatever the configuration and wherever
\* the server breaks it off (connect_and_authenticate of both drivers).
THEOREM StartupInvariant == Spec => []StartupInv
<1>1. Init => StartupInv
  BY InitStartup
<1>2. StartupInv /\ [Next]_vars => StartupInv'
  BY NextPreserves
<1> QED  BY <1>1, <1>2, PTL DEF Spec

\* A connection handed to the application is one the server has granted and
\* left idle, with nothing unread between the two (the loops to ReadyForQuery
\* of postgresql.rs and to OK of mysql.rs).
THEOREM StartupReady == Spec => []ReadyMeansReady
<1>1. StartupInv => ReadyMeansReady
  BY Verdicts DEF StartupInv, Undecided, Granted, Refused, ReadyMeansReady
<1> QED  BY <1>1, StartupInvariant, PTL

\* The right password gets in, but for the logins listed by Unserved, and the
\* packets of MySQL's client are in sequence (mysql.rs, connect_and_authenticate).
THEOREM StartupRightPassword == Spec => []RightPasswordGetsIn
<1>1. StartupInv => RightPasswordGetsIn
  <2> SUFFICES ASSUME StartupInv PROVE RightPasswordGetsIn
    OBVIOUS
  <2>1. server.verdict # "order"
    BY DEF StartupInv, Types
  <2>2. client.outcome \in Errors => ~Good \/ server.verdict = "busy"
    BY Verdicts DEF StartupInv, Undecided, Granted, Refused
  <2> QED BY <2>1, <2>2 DEF RightPasswordGetsIn, Good, Errors
<1> QED  BY <1>1, StartupInvariant, PTL

-----------------------------------------------------------------------------
(* The pool: what holds between its steps.                                 *)

\* A task that is not closing a connection has none in its close loop: without
\* it the next turn of the loop could forget one.
DrainOnlyClosing == \A t \in Tasks : pc[t] # "closing" => drain[t] = {}

\* Only a Pool runs close loops: a connection a task opens for a SimplePool is in
\* none of them.
LoopsArePools == \A t \in Tasks : pc[t] \in {"draining", "closing"} => api = "Pool"

PoolInv == TypeOK /\ OnePlace /\ WithinSize /\ DrainOnlyClosing /\ LoopsArePools

Distinct(q) == \A i, j \in DOMAIN q : q[i] = q[j] => i = j

-----------------------------------------------------------------------------
(* The two ends of the queue.                                              *)

LEMMA SizeIsNat == MaxSize \in Nat
BY FS_CardinalityType, PoolAssumption DEF MaxSize

LEMMA PopFacts ==
  ASSUME NEW S, NEW q \in Seq(S), q # <<>>, Distinct(q)
  PROVE  /\ Head(q) \in S /\ Tail(q) \in Seq(S)
         /\ Len(Tail(q)) = Len(q) - 1
         /\ Distinct(Tail(q))
         /\ ToSet(Tail(q)) = ToSet(q) \ {Head(q)}
         /\ Head(q) \in ToSet(q)
<1>1. /\ Len(q) \in Nat /\ Len(q) > 0 /\ Head(q) = q[1] /\ 1 \in DOMAIN q
      /\ DOMAIN q = 1..Len(q)
  OBVIOUS
<1>2. /\ Head(q) \in S /\ Tail(q) \in Seq(S) /\ Len(Tail(q)) = Len(q) - 1
      /\ DOMAIN Tail(q) = 1..(Len(q) - 1)
      /\ \A j \in 1..(Len(q) - 1) : Tail(q)[j] = q[j + 1]
  OBVIOUS
<1>3. Distinct(Tail(q))
  <2> SUFFICES ASSUME NEW i \in 1..(Len(q) - 1), NEW j \in 1..(Len(q) - 1), Tail(q)[i] = Tail(q)[j]
               PROVE  i = j
    BY <1>2 DEF Distinct
  <2>1. i + 1 \in DOMAIN q /\ j + 1 \in DOMAIN q /\ q[i + 1] = q[j + 1]
    BY <1>1, <1>2
  <2>2. i + 1 = j + 1
    BY <2>1 DEF Distinct
  <2>3. QED BY <2>2
<1>4. ASSUME NEW x PROVE x \in ToSet(Tail(q)) <=> x \in ToSet(q) /\ x # Head(q)
  <2>1. ASSUME x \in ToSet(Tail(q)) PROVE x \in ToSet(q) /\ x # Head(q)
    <3>1. PICK j \in 1..(Len(q) - 1) : x = q[j + 1]
      BY <2>1, <1>2 DEF ToSet
    <3>2. j + 1 \in DOMAIN q /\ j + 1 # 1
      BY <1>1
    <3>3. QED BY <3>1, <3>2, <1>1 DEF ToSet, Distinct
  <2>2. ASSUME x \in ToSet(q), x # Head(q) PROVE x \in ToSet(Tail(q))
    <3>1. PICK i \in 1..Len(q) : x = q[i]
      BY <2>2, <1>1 DEF ToSet
    <3>2. i - 1 \in 1..(Len(q) - 1) /\ (i - 1) + 1 = i
      BY <3>1, <2>2, <1>1
    <3>3. Tail(q)[i - 1] = x
      BY <3>1, <3>2, <1>2
    <3>4. QED BY <3>2, <3>3, <1>2 DEF ToSet
  <2>3. QED BY <2>1, <2>2
<1>5. Head(q) \in ToSet(q)
  BY <1>1 DEF ToSet
<1>6. QED BY <1>2, <1>3, <1>4, <1>5

LEMMA AppendFacts ==
  ASSUME NEW S, NEW q \in Seq(S), NEW c \in S, Distinct(q), c \notin ToSet(q)
  PROVE  /\ Append(q, c) \in Seq(S)
         /\ Len(Append(q, c)) = Len(q) + 1
         /\ Distinct(Append(q, c))
         /\ ToSet(Append(q, c)) = ToSet(q) \cup {c}
<1>1. /\ Len(q) \in Nat /\ DOMAIN q = 1..Len(q)
      /\ Append(q, c) \in Seq(S) /\ Len(Append(q, c)) = Len(q) + 1
      /\ DOMAIN Append(q, c) = 1..(Len(q) + 1)
      /\ \A j \in 1..Len(q) : Append(q, c)[j] = q[j]
      /\ Append(q, c)[Len(q) + 1] = c
  OBVIOUS
<1>2. \A j \in 1..(Len(q) + 1) : j \in 1..Len(q) \/ j = Len(q) + 1
  BY <1>1
<1>3. \A j \in 1..Len(q) : q[j] # c
  BY <1>1 DEF ToSet
<1>4. Distinct(Append(q, c))
  <2> SUFFICES ASSUME NEW i \in 1..(Len(q) + 1), NEW j \in 1..(Len(q) + 1),
                      Append(q, c)[i] = Append(q, c)[j]
               PROVE  i = j
    BY <1>1 DEF Distinct
  <2>1. CASE i \in 1..Len(q) /\ j \in 1..Len(q)
    BY <2>1, <1>1 DEF Distinct
  <2>2. CASE i \in 1..Len(q) /\ j = Len(q) + 1
    BY <2>2, <1>1, <1>3
  <2>3. CASE i = Len(q) + 1 /\ j \in 1..Len(q)
    BY <2>3, <1>1, <1>3
  <2>4. QED BY <2>1, <2>2, <2>3, <1>2
<1>5. ASSUME NEW x PROVE x \in ToSet(Append(q, c)) <=> x \in ToSet(q) \/ x = c
  <2>1. ASSUME x \in ToSet(Append(q, c)) PROVE x \in ToSet(q) \/ x = c
    BY <2>1, <1>1, <1>2 DEF ToSet
  <2>2. ASSUME x \in ToSet(q) \/ x = c PROVE x \in ToSet(Append(q, c))
    <3>1. Len(q) + 1 \in 1..(Len(q) + 1) /\ \A j \in 1..Len(q) : j \in 1..(Len(q) + 1)
      BY <1>1
    <3>2. QED BY <2>2, <3>1, <1>1 DEF ToSet
  <2>3. QED BY <2>1, <2>2
<1>6. QED BY <1>1, <1>4, <1>5

\* OnePlace, said of the set of queued connections.
Places(q, h, d, g) ==
  /\ \A t \in Tasks : (h[t] \cup d[t]) \cap (q \cup g) = {}
  /\ \A t \in Tasks : h[t] \cap d[t] = {}
  /\ \A t, u \in Tasks : t # u => (h[t] \cup d[t]) \cap (h[u] \cup d[u]) = {}
  /\ q \cap g = {}
  /\ \A c \in Pooled : c \in q \cup g \/ \E t \in Tasks : c \in h[t] \cup d[t]

LEMMA OnePlaceParts == OnePlace <=> Distinct(idle) /\ Places(ToSet(idle), held, drain, gone)
BY DEF OnePlace, Distinct, Places, Hands

LEMMA OnePlacePartsNext ==
  OnePlace' <=> Distinct(idle') /\ Places(ToSet(idle'), held', drain', gone')
BY DEF OnePlace, Distinct, Places, Hands

-----------------------------------------------------------------------------
(* Each way the connections move keeps every one of them in one place.     *)

LEMMA Movable ==
  ASSUME PoolInv
  PROVE  /\ idle \in Seq(Conns) /\ Distinct(idle) /\ Len(idle) \in Nat
         /\ Places(ToSet(idle), held, drain, gone)
         /\ held \in [Tasks -> SUBSET Conns] /\ drain \in [Tasks -> SUBSET Conns]
BY OnePlaceParts DEF PoolInv, TypeOK

\* From the front of the queue into the hands of a task.
LEMMA PopToHeld ==
  ASSUME PoolInv, NEW t \in Tasks, PopFront,
         held' = [held EXCEPT ![t] = @ \cup {Head(idle)}], UNCHANGED <<drain, gone>>
  PROVE  OnePlace' /\ WithinSize' /\ idle' \in Seq(Conns) /\ held' \in [Tasks -> SUBSET Conns]
<1>1. /\ idle' = Tail(idle) /\ Head(idle) \in Conns /\ idle' \in Seq(Conns)
      /\ Len(idle') = Len(idle) - 1 /\ Distinct(idle')
      /\ ToSet(idle') = ToSet(idle) \ {Head(idle)} /\ Head(idle) \in ToSet(idle)
  BY Movable, PopFacts DEF PopFront
<1>2. Places(ToSet(idle) \ {Head(idle)}, held', drain', gone')
  <2>1. \A u \in Tasks : held'[u] = IF u = t THEN held[t] \cup {Head(idle)} ELSE held[u]
    BY Movable
  <2>2. QED BY <2>1, <1>1, Movable DEF Places
<1>3. held' \in [Tasks -> SUBSET Conns]
  BY <1>1, Movable
<1>4. WithinSize'
  BY <1>1, Movable, SizeIsNat DEF PoolInv, WithinSize, MaxSize
<1>5. QED BY <1>1, <1>2, <1>3, <1>4, OnePlacePartsNext

\* From the front of the queue into the close loop of a task.
LEMMA PopToDrain ==
  ASSUME PoolInv, NEW t \in Tasks, PopFront, drain[t] = {},
         drain' = [drain EXCEPT ![t] = {Head(idle)}], UNCHANGED <<held, gone>>
  PROVE  OnePlace' /\ WithinSize' /\ idle' \in Seq(Conns) /\ drain' \in [Tasks -> SUBSET Conns]
<1>1. /\ idle' = Tail(idle) /\ Head(idle) \in Conns /\ idle' \in Seq(Conns)
      /\ Len(idle') = Len(idle) - 1 /\ Distinct(idle')
      /\ ToSet(idle') = ToSet(idle) \ {Head(idle)} /\ Head(idle) \in ToSet(idle)
  BY Movable, PopFacts DEF PopFront
<1>2. Places(ToSet(idle) \ {Head(idle)}, held', drain', gone')
  <2>1. \A u \in Tasks : drain'[u] = IF u = t THEN {Head(idle)} ELSE drain[u]
    BY Movable
  <2>2. QED BY <2>1, <1>1, Movable DEF Places
<1>3. drain' \in [Tasks -> SUBSET Conns]
  BY <1>1, Movable
<1>4. WithinSize'
  BY <1>1, Movable, SizeIsNat DEF PoolInv, WithinSize, MaxSize
<1>5. QED BY <1>1, <1>2, <1>3, <1>4, OnePlacePartsNext

\* From the hands of a task back into a queue with room.
LEMMA HeldToIdle ==
  ASSUME PoolInv, NEW t \in Tasks, NEW c \in Conns, c \in held[t], LetGo(t, c),
         Len(idle) < MaxSize, idle' = Append(idle, c), UNCHANGED <<drain, gone>>
  PROVE  OnePlace' /\ WithinSize' /\ idle' \in Seq(Conns) /\ held' \in [Tasks -> SUBSET Conns]
<1>1. c \notin ToSet(idle)
  BY Movable DEF Places
<1>2. /\ idle' \in Seq(Conns) /\ Len(idle') = Len(idle) + 1 /\ Distinct(idle')
      /\ ToSet(idle') = ToSet(idle) \cup {c}
  BY <1>1, Movable, AppendFacts
<1>3. \A u \in Tasks : held'[u] = IF u = t THEN held[t] \ {c} ELSE held[u]
  BY Movable DEF LetGo
<1>4. Places(ToSet(idle) \cup {c}, held', drain', gone')
  BY <1>3, Movable, SMTT(60) DEF Places
<1>5. held' \in [Tasks -> SUBSET Conns]
  BY Movable DEF LetGo
<1>6. WithinSize'
  BY <1>2, Movable, SizeIsNat DEF WithinSize, MaxSize
<1>7. QED BY <1>2, <1>4, <1>5, <1>6, OnePlacePartsNext

\* From the hands of a task to where nobody sees it again.
LEMMA HeldToGone ==
  ASSUME PoolInv, NEW t \in Tasks, NEW c \in Conns, c \in held[t], LetGo(t, c),
         gone' = gone \cup {c}, UNCHANGED <<idle, drain>>
  PROVE  OnePlace' /\ held' \in [Tasks -> SUBSET Conns]
<1>1. \A u \in Tasks : held'[u] = IF u = t THEN held[t] \ {c} ELSE held[u]
  BY Movable DEF LetGo
<1>2. Places(ToSet(idle), held', drain', gone')
  BY <1>1, Movable DEF Places
<1>3. held' \in [Tasks -> SUBSET Conns]
  BY Movable DEF LetGo
<1>4. QED BY <1>2, <1>3, Movable, OnePlacePartsNext

\* The connection a close loop was closing.
LEMMA DrainToGone ==
  ASSUME PoolInv, NEW t \in Tasks, drain' = [drain EXCEPT ![t] = {}],
         gone' = gone \cup drain[t], UNCHANGED <<idle, held>>
  PROVE  OnePlace' /\ drain' \in [Tasks -> SUBSET Conns]
<1>1. \A u \in Tasks : drain'[u] = IF u = t THEN {} ELSE drain[u]
  BY Movable
<1>2. Places(ToSet(idle), held', drain', gone')
  BY <1>1, Movable DEF Places
<1>3. drain' \in [Tasks -> SUBSET Conns]
  BY Movable
<1>4. QED BY <1>2, <1>3, Movable, OnePlacePartsNext

\* A connection a task opened by itself was nowhere before.
LEMMA NowhereToHeld ==
  ASSUME PoolInv, NEW t \in Tasks, NEW c \in Conns, OpenSpare(t, c)
  PROVE  OnePlace' /\ held' \in [Tasks -> SUBSET Conns]
<1>1. /\ c \in Spares /\ c \notin gone /\ c \notin ToSet(idle) /\ \A u \in Tasks : c \notin held[u]
      /\ held' = [held EXCEPT ![t] = @ \cup {c}] /\ UNCHANGED <<idle, gone, drain>>
  BY DEF OpenSpare
<1>2. \A u \in Tasks : c \notin drain[u]
  <2>1. \A u \in Tasks : pc[u] # "closing"
    BY DEF OpenSpare, PoolInv, LoopsArePools
  <2>2. QED BY <2>1 DEF PoolInv, DrainOnlyClosing
<1>3. \A u \in Tasks : held'[u] = IF u = t THEN held[t] \cup {c} ELSE held[u]
  BY <1>1, Movable
<1>4. Places(ToSet(idle), held', drain', gone')
  BY <1>1, <1>2, <1>3, Movable DEF Places
<1>5. held' \in [Tasks -> SUBSET Conns]
  BY <1>1, Movable
<1>6. QED BY <1>1, <1>4, <1>5, Movable, OnePlacePartsNext

\* Clearing the queue drops what was in it.
LEMMA IdleToGone ==
  ASSUME PoolInv, gone' = gone \cup ToSet(idle), idle' = <<>>, UNCHANGED <<held, drain>>
  PROVE  OnePlace' /\ WithinSize' /\ idle' \in Seq(Conns) /\ gone' \subseteq Conns
<1>1. idle' \in Seq(Conns) /\ Len(idle') = 0 /\ ToSet(idle') = {} /\ Distinct(idle')
  BY DEF ToSet, Distinct
<1>2. ToSet(idle) \subseteq Conns
  BY Movable DEF ToSet
<1>3. Places({}, held', drain', gone')
  BY Movable DEF Places
<1>4. WithinSize'
  BY <1>1, SizeIsNat DEF WithinSize, MaxSize
<1>5. gone' \subseteq Conns
  BY <1>2 DEF PoolInv, TypeOK
<1>6. QED BY <1>1, <1>3, <1>4, <1>5, OnePlacePartsNext

-----------------------------------------------------------------------------
(* Each action keeps the invariant.                                        *)

Outcomes == {"none", "conn", "timeout", "closed", "close_error"}
ControlType ==
  /\ api \in {"SimplePool", "Pool"}
  /\ pc \in [Tasks -> Phases]
  /\ tried \in [Tasks -> BOOLEAN]
  /\ todo \in [Tasks -> 0..MaxSize]
  /\ outcome \in [Tasks -> Outcomes]
DataType ==
  /\ idle \in Seq(Conns)
  /\ held \in [Tasks -> SUBSET Conns]
  /\ drain \in [Tasks -> SUBSET Conns]
  /\ gone \subseteq Conns

LEMMA TypeParts == TypeOK <=> ControlType /\ DataType
BY DEF TypeOK, ControlType, DataType, Outcomes

LEMMA TypePartsNext == TypeOK' <=> ControlType' /\ DataType'
BY DEF TypeOK, ControlType, DataType, Outcomes

LEMMA SameData ==
  ASSUME PoolInv, UNCHANGED <<idle, held, drain, gone>>
  PROVE  OnePlace' /\ WithinSize' /\ DataType'
<1>1. OnePlace' /\ WithinSize'
  BY DEF PoolInv, OnePlace, WithinSize, Hands, MaxSize
<1>2. DataType'
  BY TypeParts DEF PoolInv, DataType
<1>3. QED BY <1>1, <1>2

\* A call that returns: in a place where no close loop is.
LEMMA EndsFacts ==
  ASSUME PoolInv, NEW t \in Tasks, NEW how \in Outcomes, Ends(t, how), UNCHANGED api,
         tried' \in [Tasks -> BOOLEAN], drain' \in [Tasks -> SUBSET Conns],
         drain'[t] = {}, \A u \in Tasks \ {t} : drain'[u] = drain[u]
  PROVE  ControlType' /\ DrainOnlyClosing' /\ LoopsArePools'
<1>1. ControlType
  BY TypeParts DEF PoolInv
<1>2. pc' \in [Tasks -> Phases] /\ \A u \in Tasks : pc'[u] = IF u = t THEN "idle" ELSE pc[u]
  BY <1>1 DEF Ends, ControlType, Phases
<1>3. todo' \in [Tasks -> 0..MaxSize] /\ outcome' \in [Tasks -> Outcomes]
  BY <1>1, SizeIsNat DEF Ends, ControlType
<1>4. ControlType'
  BY <1>1, <1>2, <1>3 DEF ControlType, MaxSize
<1>5. DrainOnlyClosing'
  BY <1>2 DEF PoolInv, DrainOnlyClosing
<1>6. LoopsArePools'
  BY <1>2 DEF PoolInv, LoopsArePools
<1>7. QED BY <1>4, <1>5, <1>6

\* A call that goes on to another phase.
LEMMA PhaseFacts ==
  ASSUME PoolInv, NEW t \in Tasks, NEW phase \in Phases, pc' = [pc EXCEPT ![t] = phase],
         UNCHANGED api, phase \in {"draining", "closing"} => api = "Pool",
         tried' \in [Tasks -> BOOLEAN], todo' \in [Tasks -> 0..MaxSize],
         outcome' \in [Tasks -> Outcomes],
         phase # "closing" => drain'[t] = {}, \A u \in Tasks \ {t} : drain'[u] = drain[u]
  PROVE  ControlType' /\ DrainOnlyClosing' /\ LoopsArePools'
<1>1. ControlType
  BY TypeParts DEF PoolInv
<1>2. pc' \in [Tasks -> Phases] /\ \A u \in Tasks : pc'[u] = IF u = t THEN phase ELSE pc[u]
  BY <1>1 DEF ControlType
<1>3. ControlType'
  BY <1>1, <1>2 DEF ControlType, MaxSize
<1>4. DrainOnlyClosing'
  BY <1>2 DEF PoolInv, DrainOnlyClosing
<1>5. LoopsArePools'
  BY <1>2 DEF PoolInv, LoopsArePools
<1>6. QED BY <1>3, <1>4, <1>5

LEMMA SameControl ==
  ASSUME PoolInv, UNCHANGED <<api, pc, tried, todo, outcome, drain>>
  PROVE  ControlType' /\ DrainOnlyClosing' /\ LoopsArePools'
<1>1. ControlType
  BY TypeParts DEF PoolInv
<1>2. QED BY <1>1 DEF PoolInv, ControlType, DrainOnlyClosing, LoopsArePools, MaxSize

LEMMA PollKeeps ==
  ASSUME PoolInv, NEW t \in Tasks, Poll(t)
  PROVE  PoolInv'
<1>0. ControlType /\ DataType
  BY TypeParts DEF PoolInv
<1>1. CASE pc[t] = "getting" /\ PopFront
  <2>1. /\ held' = [held EXCEPT ![t] = @ \cup {Head(idle)}] /\ Ends(t, "conn")
        /\ UNCHANGED <<drain, tried, api, gone>>
    BY <1>1 DEF Poll, PopFront, Polling
  <2>2. OnePlace' /\ WithinSize' /\ idle' \in Seq(Conns) /\ held' \in [Tasks -> SUBSET Conns]
    BY <1>1, <2>1, PopToHeld
  <2>3. drain[t] = {}
    BY <1>1 DEF PoolInv, DrainOnlyClosing
  <2>4. ControlType' /\ DrainOnlyClosing' /\ LoopsArePools'
    BY <2>1, <2>3, <1>0, EndsFacts DEF ControlType, DataType, Outcomes
  <2>5. DataType'
    BY <2>1, <2>2, <1>0 DEF DataType
  <2>6. QED BY <2>2, <2>4, <2>5, TypePartsNext DEF PoolInv
<1>2. CASE pc[t] = "draining" /\ PopFront
  <2>1. /\ drain' = [drain EXCEPT ![t] = {Head(idle)}] /\ pc' = [pc EXCEPT ![t] = "closing"]
        /\ UNCHANGED <<held, tried, todo, outcome, api, gone>>
    BY <1>2 DEF Poll, PopFront, Polling
  <2>2. drain[t] = {} /\ api = "Pool"
    BY <1>2 DEF PoolInv, DrainOnlyClosing, LoopsArePools
  <2>3. OnePlace' /\ WithinSize' /\ idle' \in Seq(Conns) /\ drain' \in [Tasks -> SUBSET Conns]
    BY <1>2, <2>1, <2>2, PopToDrain
  <2>4. \A u \in Tasks \ {t} : drain'[u] = drain[u]
    BY <2>1, <1>0 DEF DataType
  <2>5. ControlType' /\ DrainOnlyClosing' /\ LoopsArePools'
    BY <2>1, <2>2, <2>4, <1>0, PhaseFacts DEF ControlType, Phases
  <2>6. DataType'
    BY <2>1, <2>3, <1>0 DEF DataType
  <2>7. QED BY <2>3, <2>5, <2>6, TypePartsNext DEF PoolInv
<1>3. CASE idle = <<>>
  <2>1. tried' = [tried EXCEPT ![t] = TRUE] /\ UNCHANGED <<api, idle, held, drain, gone, pc, todo, outcome>>
    BY <1>3 DEF Poll, PopFront
  <2>2. ControlType' /\ DrainOnlyClosing' /\ LoopsArePools'
    BY <2>1, <1>0 DEF PoolInv, ControlType, DrainOnlyClosing, LoopsArePools, MaxSize
  <2>3. QED BY <2>1, <2>2, SameData, TypePartsNext DEF PoolInv
<1>4. QED BY <1>1, <1>2, <1>3 DEF Poll, Polling

LEMMA CallKeeps ==
  ASSUME PoolInv, NEW t \in Tasks, StartGet(t) \/ Expire(t) \/ StartClose(t)
  PROVE  PoolInv'
<1>0. ControlType /\ DataType
  BY TypeParts DEF PoolInv
<1>1. UNCHANGED <<api, idle, held, drain, gone>>
  BY DEF StartGet, Expire, StartClose
<1>2. OnePlace' /\ WithinSize' /\ DataType'
  BY <1>1, SameData
<1>3. pc[t] # "closing" /\ drain[t] = {}
  BY DEF StartGet, Expire, StartClose, Polling, PoolInv, DrainOnlyClosing
<1>4. CASE StartGet(t)
  <2>1. /\ tried' \in [Tasks -> BOOLEAN] /\ todo' \in [Tasks -> 0..MaxSize]
        /\ outcome' \in [Tasks -> Outcomes]
    BY <1>4, <1>0 DEF StartGet, ControlType, Outcomes
  <2>2. pc' = [pc EXCEPT ![t] = "getting"]
    BY <1>4 DEF StartGet
  <2>3. ControlType' /\ DrainOnlyClosing' /\ LoopsArePools'
    BY <2>1, <2>2, <1>1, <1>3, PhaseFacts DEF Phases
  <2>4. QED BY <2>3, <1>2, TypePartsNext DEF PoolInv
<1>5. CASE Expire(t)
  <2>1. tried' \in [Tasks -> BOOLEAN]
    BY <1>5, <1>0 DEF Expire, ControlType
  <2>2. CASE Ends(t, "timeout") \/ Ends(t, "closed")
    BY <2>1, <2>2, <1>0, <1>1, <1>2, <1>3, EndsFacts, TypePartsNext DEF PoolInv, Outcomes, DataType
  <2>3. CASE todo[t] > 1 /\ todo' = [todo EXCEPT ![t] = @ - 1] /\ UNCHANGED <<pc, outcome>>
    <3>1. todo[t] \in 0..MaxSize /\ todo[t] - 1 \in 0..MaxSize
      BY <2>3, <1>0, SizeIsNat DEF ControlType
    <3>2. ControlType'
      BY <2>1, <2>3, <3>1, <1>0, <1>1 DEF ControlType, MaxSize
    <3>3. DrainOnlyClosing' /\ LoopsArePools'
      BY <2>3, <1>1 DEF PoolInv, DrainOnlyClosing, LoopsArePools
    <3>4. QED BY <3>2, <3>3, <1>2, TypePartsNext DEF PoolInv
  <2>4. QED BY <2>2, <2>3, <1>5 DEF Expire
<1>6. CASE StartClose(t)
  <2>1. tried' \in [Tasks -> BOOLEAN]
    BY <1>6, <1>0 DEF StartClose, ControlType
  <2>2. CASE Ends(t, "closed")
    BY <2>1, <2>2, <1>0, <1>1, <1>2, <1>3, EndsFacts, TypePartsNext DEF PoolInv, Outcomes, DataType
  <2>3. CASE /\ pc' = [pc EXCEPT ![t] = "draining"]
             /\ todo' = [todo EXCEPT ![t] = MaxSize]
             /\ outcome' = [outcome EXCEPT ![t] = "none"]
    <3>1. todo' \in [Tasks -> 0..MaxSize] /\ outcome' \in [Tasks -> Outcomes]
      BY <2>3, <1>0, SizeIsNat DEF ControlType, Outcomes
    <3>2. api = "Pool"
      BY <1>6 DEF StartClose
    <3>3. ControlType' /\ DrainOnlyClosing' /\ LoopsArePools'
      BY <2>1, <2>3, <3>1, <3>2, <1>1, <1>3, PhaseFacts DEF Phases
    <3>4. QED BY <3>3, <1>2, TypePartsNext DEF PoolInv
  <2>4. QED BY <2>2, <2>3, <1>6 DEF StartClose
<1>7. QED BY <1>4, <1>5, <1>6

LEMMA GiveBackKeeps ==
  ASSUME PoolInv, NEW t \in Tasks, NEW c \in Conns,
         Put(t, c) \/ ReturnConnection(t, c) \/ Drop(t, c)
  PROVE  PoolInv'
<1>0. DataType /\ Len(idle) \in Nat /\ MaxSize \in Nat
  BY TypeParts, Movable, SizeIsNat DEF PoolInv
<1>1. c \in held[t] /\ LetGo(t, c) /\ UNCHANGED <<api, drain, pc, tried, todo, outcome>>
  BY DEF Put, ReturnConnection, Drop
<1>2. ControlType' /\ DrainOnlyClosing' /\ LoopsArePools'
  BY <1>1, SameControl
<1>3. CASE Len(idle) < MaxSize /\ idle' = Append(idle, c) /\ UNCHANGED gone
  <2>1. OnePlace' /\ WithinSize' /\ idle' \in Seq(Conns) /\ held' \in [Tasks -> SUBSET Conns]
    BY <1>1, <1>3, HeldToIdle
  <2>2. DataType'
    BY <2>1, <1>0, <1>1, <1>3 DEF DataType
  <2>3. QED BY <2>1, <2>2, <1>2, TypePartsNext DEF PoolInv
<1>4. CASE gone' = gone \cup {c} /\ UNCHANGED idle
  <2>1. OnePlace' /\ held' \in [Tasks -> SUBSET Conns]
    BY <1>1, <1>4, HeldToGone
  <2>2. DataType'
    BY <2>1, <1>0, <1>1, <1>4 DEF DataType
  <2>3. WithinSize'
    BY <1>4 DEF PoolInv, WithinSize, MaxSize
  <2>4. QED BY <2>1, <2>2, <2>3, <1>2, TypePartsNext DEF PoolInv
<1>5. QED BY <1>3, <1>4 DEF Put, ReturnConnection, Drop

LEMMA CloseConnKeeps ==
  ASSUME PoolInv, NEW t \in Tasks, CloseConn(t)
  PROVE  PoolInv'
<1>0. ControlType /\ DataType
  BY TypeParts DEF PoolInv
<1>1. /\ pc[t] = "closing" /\ drain' = [drain EXCEPT ![t] = {}]
      /\ gone' = gone \cup drain[t] /\ UNCHANGED <<api, idle, held>>
  BY DEF CloseConn
<1>2. OnePlace' /\ drain' \in [Tasks -> SUBSET Conns]
  BY <1>1, DrainToGone
<1>3. /\ drain'[t] = {} /\ \A u \in Tasks \ {t} : drain'[u] = drain[u]
      /\ drain[t] \subseteq Conns
  BY <1>1, <1>0 DEF DataType
<1>4. DataType' /\ WithinSize'
  BY <1>0, <1>1, <1>2, <1>3 DEF DataType, PoolInv, WithinSize, MaxSize
<1>5. tried' \in [Tasks -> BOOLEAN]
  BY <1>0 DEF CloseConn, ControlType
<1>6. CASE Ends(t, "closed") \/ Ends(t, "close_error")
  <2>1. ControlType' /\ DrainOnlyClosing' /\ LoopsArePools'
    BY <1>1, <1>2, <1>3, <1>5, <1>6, EndsFacts DEF Outcomes
  <2>2. QED BY <2>1, <1>2, <1>4, TypePartsNext DEF PoolInv
<1>7. CASE /\ todo[t] > 1 /\ pc' = [pc EXCEPT ![t] = "draining"]
           /\ todo' = [todo EXCEPT ![t] = @ - 1] /\ UNCHANGED outcome
  <2>1. todo[t] \in 0..MaxSize /\ todo[t] - 1 \in 0..MaxSize
    BY <1>7, <1>0, SizeIsNat DEF ControlType
  <2>2. todo' \in [Tasks -> 0..MaxSize] /\ outcome' \in [Tasks -> Outcomes]
    BY <2>1, <1>7, <1>0 DEF ControlType
  <2>3. api = "Pool"
    BY <1>1 DEF PoolInv, LoopsArePools
  <2>4. ControlType' /\ DrainOnlyClosing' /\ LoopsArePools'
    BY <2>2, <2>3, <1>1, <1>3, <1>5, <1>7, PhaseFacts DEF Phases
  <2>5. QED BY <2>4, <1>2, <1>4, TypePartsNext DEF PoolInv
<1>8. QED BY <1>6, <1>7 DEF CloseConn

LEMMA OtherKeeps ==
  ASSUME PoolInv, \/ \E t \in Tasks, c \in Conns : OpenSpare(t, c)
                  \/ ClearIdle
                  \/ UNCHANGED poolVars
  PROVE  PoolInv'
<1>0. DataType
  BY TypeParts DEF PoolInv
<1>1. UNCHANGED <<api, drain, pc, tried, todo, outcome>>
  BY DEF OpenSpare, ClearIdle, poolVars
<1>2. ControlType' /\ DrainOnlyClosing' /\ LoopsArePools'
  BY <1>1, SameControl
<1>3. ASSUME NEW t \in Tasks, NEW c \in Conns, OpenSpare(t, c)
      PROVE  PoolInv'
  <2>1. OnePlace' /\ held' \in [Tasks -> SUBSET Conns] /\ UNCHANGED <<idle, gone>>
    BY <1>3, NowhereToHeld DEF OpenSpare
  <2>2. DataType' /\ WithinSize'
    BY <2>1, <1>0, <1>1 DEF DataType, PoolInv, WithinSize, MaxSize
  <2>3. QED BY <2>1, <2>2, <1>2, TypePartsNext DEF PoolInv
<1>4. CASE ClearIdle
  <2>1. gone' = gone \cup ToSet(idle) /\ idle' = <<>> /\ UNCHANGED <<held, drain>>
    BY <1>4 DEF ClearIdle
  <2>2. OnePlace' /\ WithinSize' /\ idle' \in Seq(Conns) /\ gone' \subseteq Conns
    BY <2>1, IdleToGone
  <2>3. DataType'
    BY <2>1, <2>2, <1>0 DEF DataType
  <2>4. QED BY <2>2, <2>3, <1>2, TypePartsNext DEF PoolInv
<1>5. CASE UNCHANGED poolVars
  BY <1>2, <1>5, SameData, TypePartsNext DEF poolVars, PoolInv
<1>6. QED BY <1>3, <1>4, <1>5

LEMMA PoolStep ==
  ASSUME PoolInv, [PoolNext]_poolVars
  PROVE  PoolInv'
<1>1. ASSUME NEW t \in Tasks, StartGet(t) \/ Poll(t) \/ Expire(t) \/ StartClose(t) \/ CloseConn(t)
      PROVE  PoolInv'
  BY <1>1, CallKeeps, PollKeeps, CloseConnKeeps
<1>2. ASSUME NEW t \in Tasks, NEW c \in Conns,
             Put(t, c) \/ ReturnConnection(t, c) \/ Drop(t, c) \/ OpenSpare(t, c)
      PROVE  PoolInv'
  BY <1>2, GiveBackKeeps, OtherKeeps
<1>3. CASE ClearIdle \/ UNCHANGED poolVars
  BY <1>3, OtherKeeps
<1>4. QED BY <1>1, <1>2, <1>3 DEF PoolNext

\* SimplePool::new takes the vector every constructor has filled.
LEMMA PoolInitially ==
  ASSUME PoolInit PROVE PoolInv
<1>0. MaxSize \in Nat
  BY SizeIsNat
<1>1. /\ idle \in [1..MaxSize -> Pooled]
      /\ \A i, j \in 1..MaxSize : i # j => idle[i] # idle[j]
  BY DEF PoolInit, SetToSeqs, MaxSize
<1>2. idle \in Seq(Conns) /\ Distinct(idle) /\ Len(idle) = MaxSize
  BY <1>0, <1>1 DEF Distinct, Conns
<1>3. ToSet(idle) = Pooled
  <2>1. idle \in Injection(1..MaxSize, Pooled)
    BY <1>1 DEF Injection, IsInjective
  <2>2. Cardinality(1..MaxSize) = Cardinality(Pooled)
    BY <1>0, FS_Interval DEF MaxSize
  <2>3. idle \in Surjection(1..MaxSize, Pooled)
    BY <2>1, <2>2, FS_Injection, PoolAssumption
  <2>4. QED BY <2>3, <1>1 DEF Surjection, ToSet
<1>4. Places(ToSet(idle), held, drain, gone)
  BY <1>3 DEF PoolInit, Places
<1>5. OnePlace
  BY <1>2, <1>4, OnePlaceParts
<1>6. ControlType /\ DataType /\ DrainOnlyClosing /\ LoopsArePools
  BY <1>0, <1>2 DEF PoolInit, ControlType, DataType, DrainOnlyClosing, LoopsArePools, Phases, Outcomes
<1>7. WithinSize
  BY <1>0, <1>2 DEF WithinSize
<1>8. QED BY <1>5, <1>6, <1>7, TypeParts DEF PoolInv

-----------------------------------------------------------------------------
(* Pool::close: the iterations it has left are enough for the queue.       *)

\* What a close loop knows of the queue, wherever it stands: nobody puts into a
\* Pool, so what it has seen empty stays empty, and every other turn of the loop
\* takes one connection out.
CloseOK(t) ==
  /\ pc[t] \in Polling /\ tried[t] => idle = <<>>
  /\ pc[t] = "draining" => Len(idle) <= todo[t]
  /\ pc[t] = "closing" => Len(idle) < todo[t]
  /\ outcome[t] = "closed" => idle = <<>>

CloseInv == api = "Pool" => \A t \in Tasks : CloseOK(t)

\* The queue of a Pool is only ever taken from.
Shrinks == \/ idle' = idle
           \/ idle # <<>> /\ idle' = Tail(idle)

LEMMA PoolShrinks ==
  ASSUME PoolInv, api = "Pool", [PoolNext]_poolVars
  PROVE  Shrinks /\ api' = api
<1>1. ASSUME NEW t \in Tasks, StartGet(t) \/ Poll(t) \/ Expire(t) \/ StartClose(t) \/ CloseConn(t)
      PROVE  Shrinks /\ api' = api
  BY <1>1 DEF StartGet, Poll, PopFront, Expire, StartClose, CloseConn, Shrinks
<1>2. ASSUME NEW t \in Tasks, NEW c \in Conns,
             Put(t, c) \/ ReturnConnection(t, c) \/ Drop(t, c) \/ OpenSpare(t, c)
      PROVE  Shrinks /\ api' = api
  BY <1>2 DEF Put, ReturnConnection, Drop, OpenSpare, Shrinks
<1>3. CASE ClearIdle \/ UNCHANGED poolVars
  BY <1>3 DEF ClearIdle, poolVars, Shrinks
<1>4. QED BY <1>1, <1>2, <1>3 DEF PoolNext

LEMMA ShrinksFacts ==
  ASSUME PoolInv, Shrinks
  PROVE  /\ Len(idle) \in Nat /\ Len(idle') \in Nat /\ Len(idle') <= Len(idle)
         /\ idle = <<>> => idle' = <<>>
         /\ idle # <<>> /\ idle' = Tail(idle) => Len(idle') = Len(idle) - 1
BY Movable DEF Shrinks

\* A task that does nothing only sees the queue shrink.
LEMMA OthersClose ==
  ASSUME PoolInv, Shrinks, NEW u \in Tasks, CloseOK(u),
         pc'[u] = pc[u], tried'[u] = tried[u], todo'[u] = todo[u], outcome'[u] = outcome[u]
  PROVE  CloseOK(u)'
<1>1. todo[u] \in Nat
  BY SizeIsNat DEF PoolInv, TypeOK
<1>2. QED BY <1>1, ShrinksFacts DEF CloseOK

LEMMA CallerCloses ==
  ASSUME PoolInv, CloseInv, api = "Pool", Shrinks, NEW t \in Tasks,
         StartGet(t) \/ Poll(t) \/ Expire(t) \/ StartClose(t) \/ CloseConn(t)
  PROVE  \A u \in Tasks : CloseOK(u)'
<1>1. /\ ControlType /\ todo[t] \in Nat /\ MaxSize \in Nat /\ idle \in Seq(Conns)
      /\ Len(idle) \in Nat /\ Len(idle) <= MaxSize
      /\ \A u \in Tasks : CloseOK(u)
  BY SizeIsNat, TypeParts DEF PoolInv, ControlType, CloseInv, DataType, WithinSize
<1>2. \A u \in Tasks \ {t} : /\ pc'[u] = pc[u] /\ tried'[u] = tried[u]
                            /\ todo'[u] = todo[u] /\ outcome'[u] = outcome[u]
  <2>1. CASE StartGet(t) \/ Poll(t)
    BY <2>1, <1>1 DEF StartGet, Poll, Ends, ControlType
  <2>2. CASE Expire(t) \/ CloseConn(t)
    BY <2>2, <1>1 DEF Expire, CloseConn, Ends, ControlType
  <2>3. CASE StartClose(t)
    BY <2>3, <1>1 DEF StartClose, Ends, ControlType
  <2>4. QED BY <2>1, <2>2, <2>3
<1>3. Len(idle) = 0 => idle = <<>>
  BY <1>1
<1>4. CloseOK(t)'
  <2>1. CASE StartGet(t)
    <3>1. pc'[t] = "getting" /\ ~tried'[t] /\ outcome'[t] = "none"
      BY <2>1, <1>1 DEF StartGet, ControlType
    <3>2. QED BY <3>1 DEF CloseOK
  <2>2. CASE pc[t] = "getting" /\ PopFront /\ Ends(t, "conn")
    <3>1. pc'[t] = "idle" /\ outcome'[t] = "conn"
      BY <2>2, <1>1 DEF Ends, ControlType
    <3>2. QED BY <3>1 DEF CloseOK, Polling
  <2>3. CASE /\ pc[t] = "draining" /\ PopFront /\ pc' = [pc EXCEPT ![t] = "closing"]
             /\ UNCHANGED <<todo, outcome>>
    <3>1. pc'[t] = "closing" /\ Len(idle') = Len(idle) - 1 /\ idle # <<>>
      BY <2>3, <1>1, ShrinksFacts DEF PopFront, ControlType
    <3>2. Len(idle) <= todo[t] /\ outcome[t] # "closed"
      BY <2>3, <3>1, <1>1 DEF CloseOK
    <3>3. QED BY <2>3, <3>1, <3>2, <1>1 DEF CloseOK, Polling
  <2>4. CASE idle = <<>> /\ idle' = <<>> /\ UNCHANGED <<pc, todo, outcome>>
    BY <2>4, <1>1 DEF CloseOK
  <2>5. CASE Expire(t)
    <3>1. idle = <<>> /\ idle' = <<>>
      BY <2>5, <1>1 DEF Expire, CloseOK
    <3>2. CASE Ends(t, "timeout") \/ Ends(t, "closed")
      <4>1. pc'[t] = "idle"
        BY <3>2, <1>1 DEF Ends, ControlType
      <4>2. QED BY <3>1, <4>1 DEF CloseOK, Polling
    <3>3. CASE /\ pc[t] = "draining" /\ todo[t] > 1 /\ todo' = [todo EXCEPT ![t] = @ - 1]
               /\ UNCHANGED <<pc, outcome>>
      <4>1. todo'[t] = todo[t] - 1 /\ todo[t] - 1 \in Nat /\ Len(idle') = 0
        BY <3>3, <3>1, <1>1 DEF ControlType
      <4>2. QED BY <3>1, <3>3, <4>1, <1>1 DEF CloseOK
    <3>4. QED BY <2>5, <3>2, <3>3 DEF Expire
  <2>6. CASE StartClose(t)
    <3>1. idle' = idle
      BY <2>6 DEF StartClose
    <3>2. CASE MaxSize = 0 /\ Ends(t, "closed")
      <4>1. idle = <<>> /\ pc'[t] = "idle"
        BY <3>2, <1>1, <1>3 DEF Ends, ControlType
      <4>2. QED BY <3>1, <4>1 DEF CloseOK, Polling
    <3>3. CASE /\ pc' = [pc EXCEPT ![t] = "draining"]
               /\ todo' = [todo EXCEPT ![t] = MaxSize]
               /\ tried' = [tried EXCEPT ![t] = FALSE]
               /\ outcome' = [outcome EXCEPT ![t] = "none"]
      <4>1. pc'[t] = "draining" /\ todo'[t] = MaxSize /\ ~tried'[t] /\ outcome'[t] = "none"
        BY <3>3, <1>1 DEF ControlType
      <4>2. QED BY <3>1, <4>1, <1>1 DEF CloseOK
    <3>4. QED BY <2>6, <3>2, <3>3 DEF StartClose
  <2>7. CASE CloseConn(t)
    <3>1. /\ idle' = idle /\ Len(idle) < todo[t]
          /\ outcome[t] = "closed" => idle = <<>>
      BY <2>7, <1>1 DEF CloseConn, CloseOK
    <3>2. CASE /\ todo[t] > 1 /\ pc' = [pc EXCEPT ![t] = "draining"]
               /\ todo' = [todo EXCEPT ![t] = @ - 1]
               /\ tried' = [tried EXCEPT ![t] = FALSE] /\ UNCHANGED outcome
      <4>1. pc'[t] = "draining" /\ todo'[t] = todo[t] - 1 /\ ~tried'[t] /\ outcome'[t] = outcome[t]
        BY <3>2, <1>1 DEF ControlType
      <4>2. Len(idle') <= todo'[t]
        BY <3>1, <4>1, <1>1
      <4>3. QED BY <3>1, <4>1, <4>2 DEF CloseOK
    <3>3. CASE todo[t] = 1 /\ Ends(t, "closed")
      <4>1. idle' = <<>> /\ pc'[t] = "idle"
        BY <3>1, <3>3, <1>1, <1>3 DEF Ends, ControlType
      <4>2. QED BY <4>1 DEF CloseOK, Polling
    <3>4. CASE Ends(t, "close_error")
      <4>1. pc'[t] = "idle" /\ outcome'[t] = "close_error"
        BY <3>4, <1>1 DEF Ends, ControlType
      <4>2. QED BY <4>1 DEF CloseOK, Polling
    <3>5. QED BY <2>7, <3>2, <3>3, <3>4 DEF CloseConn
  <2>8. CASE Poll(t)
    BY <2>8, <2>2, <2>3, <2>4 DEF Poll
  <2>9. QED BY <2>1, <2>5, <2>6, <2>7, <2>8
<1>5. QED BY <1>1, <1>2, <1>4, OthersClose

LEMMA CloseStep ==
  ASSUME PoolInv, CloseInv, [PoolNext]_poolVars
  PROVE  CloseInv'
<1>1. CASE api # "Pool"
  <2>1. api' = api
    BY DEF PoolNext, poolVars, StartGet, Poll, Expire, StartClose, CloseConn, Put, ReturnConnection,
           Drop, OpenSpare, ClearIdle
  <2>2. QED BY <2>1, <1>1 DEF CloseInv
<1>2. CASE api = "Pool"
  <2>1. Shrinks /\ api' = api
    BY <1>2, PoolShrinks
  <2>2. ASSUME NEW t \in Tasks, StartGet(t) \/ Poll(t) \/ Expire(t) \/ StartClose(t) \/ CloseConn(t)
        PROVE  CloseInv'
    BY <2>1, <2>2, <1>2, CallerCloses DEF CloseInv
  <2>3. CASE UNCHANGED <<pc, tried, todo, outcome>>
    BY <2>1, <2>3, <1>2, OthersClose DEF CloseInv
  <2>4. ASSUME NEW t \in Tasks, NEW c \in Conns,
               Put(t, c) \/ ReturnConnection(t, c) \/ Drop(t, c) \/ OpenSpare(t, c)
        PROVE  UNCHANGED <<pc, tried, todo, outcome>>
    BY <2>4 DEF Put, ReturnConnection, Drop, OpenSpare
  <2>5. CASE ClearIdle \/ UNCHANGED poolVars
    BY <2>3, <2>5 DEF ClearIdle, poolVars
  <2>6. QED BY <2>2, <2>3, <2>4, <2>5 DEF PoolNext
<1>3. QED BY <1>1, <1>2

-----------------------------------------------------------------------------
(* The theorems.                                                           *)

\* The invariant the three theorems below are read off.
THEOREM PoolInvariant == PoolSpec => []PoolInv
<1>1. PoolInit => PoolInv
  BY PoolInitially
<1>2. PoolInv /\ [PoolNext]_poolVars => PoolInv'
  BY PoolStep
<1>3. QED BY <1>1, <1>2, PTL DEF PoolSpec

\* Every connection is queued once, or with one task, or dropped, and none of the
\* pool's is lost from sight, however gets, puts, losses, timeouts and closes of
\* any number of tasks interleave.
THEOREM PoolOnePlace == PoolSpec => []OnePlace
<1>1. PoolInv => OnePlace
  BY DEF PoolInv
<1>2. QED BY <1>1, PoolInvariant, PTL

\* max_size - idle never underflows in status(), whatever the tasks put.
THEOREM PoolWithinSize == PoolSpec => []WithinSize
<1>1. PoolInv => WithinSize
  BY DEF PoolInv
<1>2. QED BY <1>1, PoolInvariant, PTL

\* Every variable of the pool keeps its type.
THEOREM PoolTyped == PoolSpec => []TypeOK
<1>1. PoolInv => TypeOK
  BY DEF PoolInv
<1>2. QED BY <1>1, PoolInvariant, PTL

\* A Pool::close that returned Ok has emptied the pool and nothing comes back into
\* it, whoever else takes from it meanwhile and however many connections are lost.
THEOREM PoolCloseDrains == PoolSpec => []CloseDrains
<1>1. PoolInit => CloseInv
  BY DEF PoolInit, CloseInv, CloseOK, Polling
<1>2. PoolInv /\ CloseInv /\ [PoolNext]_poolVars => CloseInv'
  BY CloseStep
<1>3. CloseInv => CloseDrains
  BY DEF CloseInv, CloseOK, CloseDrains
<1>4. QED BY <1>1, <1>2, <1>3, PoolInvariant, PTL DEF PoolSpec
=============================================================================
