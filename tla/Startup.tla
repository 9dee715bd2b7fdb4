------------------------------ MODULE Startup ------------------------------
(***************************************************************************)
(* connect_and_authenticate of src/db/postgresql.rs and src/db/mysql.rs:   *)
(* one task and one new stream, from the TCP connection to the message     *)
(* after which the connection serves statements.  PgConnection and         *)
(* MySqlConnection begin where this module ends.                           *)
(*                                                                         *)
(* A message is <<t, code, seq, body>>: its type byte, its sub-code, its   *)
(* sequence number (MySQL) and its content as a tuple of parts.  A proof   *)
(* of the password is a term, <<hash, password, salt>>: equal terms are    *)
(* equal digests.  The servers are external: PostgreSQL's and MySQL's      *)
(* login dialogues, reduced to one role, one database "app" and one salt.  *)
(***************************************************************************)
EXTENDS Naturals, Sequences

CONSTANTS Passwords,   \* passwords a configuration or a role may have
          Salt,        \* the salt the server draws for the dialogue
          Pid          \* the backend's process id

\* The empty string: no password, no plugin, no database, nothing yet.
Nil == "nil"

ASSUME PasswordsAssumption == Nil \in Passwords

VARIABLES conf,        \* the connection's configuration and the server's
          client,      \* the task: step, SCRAM state, backend id, outcome
          server,      \* the server: step, sequence number due, plugin, verdict
          up, down     \* bytes under way to the server and to the client

vars == <<conf, client, server, up, down>>

(***************************************************************************)
(* Configurations.  "gone" is a database the server does not have, Nil     *)
(* none named.  "greet" is the plugin of MySQL's greeting (Nil before      *)
(* plugins existed), "auth" what the role needs, "salted" whether the      *)
(* server's caching_sha2_password mixes the salt in, "cached" whether its  *)
(* cache knows the role, "offers" the SASL mechanisms in its order.        *)
(***************************************************************************)
Conf(srv, auth, greet, offers, flags, pw, secret, db) ==
  [srv |-> srv, auth |-> auth, greet |-> greet, offers |-> offers,
   salted |-> flags[1], cached |-> flags[2], pw |-> pw, secret |-> secret, db |-> db]

ScramPlus == "SCRAM-SHA-256-PLUS"
Scram == "SCRAM-SHA-256"

PgLogins == {"trust", "cleartext", "md5", "scram", "gss"}
Mechanisms == {<<Scram>>, <<ScramPlus, Scram>>}
MyPlugins == {"native", "sha2", "dialog"}
Databases == {"app", "gone"}
Flags == BOOLEAN \X BOOLEAN
NoFlags == <<FALSE, FALSE>>

PgConf(auth, offers, pw, secret, db) ==
  Conf("pg", auth, Nil, offers, NoFlags, pw, secret, db)
MyConf(auth, greet, flags, pw, secret, db) ==
  Conf("mysql", auth, greet, <<>>, flags, pw, secret, db)
MyConfOld(pw, secret, db) == MyConf("native", Nil, NoFlags, pw, secret, db)

PgConfs ==
  { PgConf(auth, offers, pw, secret, db) :
      auth \in PgLogins, offers \in Mechanisms,
      pw \in Passwords, secret \in Passwords \ {Nil}, db \in Databases }

MyConfs ==
  { MyConf(auth, greet, flags, pw, secret, db) :
      auth \in MyPlugins, greet \in MyPlugins, flags \in Flags,
      pw \in Passwords, secret \in Passwords, db \in Databases \cup {Nil} }
  \cup
  { MyConfOld(pw, secret, db) :
      pw \in Passwords, secret \in Passwords, db \in Databases }

Msg(t, code, seq, body) == <<t, code, seq, body>>
Type(m) == m[1]
Code(m) == m[2]
SeqNo(m) == m[3]
Body(m) == m[4]

Pg == conf.srv = "pg"
Reading(step) == client.step = step /\ down # <<>>
\* Passwords are sent as proofs; an empty one is sent as an empty response.
NoProof == <<Nil, Nil, Nil>>

(***************************************************************************)
(* The client, PostgreSQL: what an Authentication message is answered.     *)
(***************************************************************************)
Goes(scram, said) == [outcome |-> Nil, scram |-> scram, said |-> said]
Fails(kind) == [outcome |-> kind, scram |-> client.scram, said |-> <<>>]
Says(kind, salt) == <<Msg("p", kind, 0, <<<<kind, conf.pw, salt>>>>)>>

\* The handlers of codes 10, 11 and 12 split the whole payload, the four
\* bytes of the code included: the first part has them in front of it, and
\* no longer the name it had.
NamesRead(m) == { IF i = 1 THEN "code+" ELSE Body(m)[i][1] : i \in DOMAIN Body(m) }

PgSasl(m) ==
  IF Scram \in NamesRead(m) THEN Goes("started", Says("first", Nil)) ELSE Fails("auth")

PgSaslContinue(m) ==
  IF client.scram = Nil THEN Fails("protocol")
  ELSE IF {"r", "s", "i"} \subseteq NamesRead(m) THEN Goes("signed", Says("scram", Salt))
  ELSE Fails("auth")

PgSaslFinal(m) ==
  IF client.scram = Nil THEN Fails("protocol")
  ELSE IF "v" \in NamesRead(m) THEN Goes(client.scram, <<>>)
  ELSE Fails("auth")

PgAuthenticate(m) ==
  CASE Code(m) = "0"  -> Goes(client.scram, <<>>)
    [] Code(m) = "3"  -> Goes(client.scram, Says("cleartext", Nil))
    [] Code(m) = "5"  -> Goes(client.scram, Says("md5", Salt))
    [] Code(m) = "10" -> PgSasl(m)
    [] Code(m) = "11" -> PgSaslContinue(m)
    [] Code(m) = "12" -> PgSaslFinal(m)
    [] OTHER          -> Fails("auth")

(***************************************************************************)
(* The client, MySQL: the proofs, the parts of the handshake response, the *)
(* sequence number after the RSA key has come.                             *)
(***************************************************************************)
\* caching_sha2_password_hash does not read the salt; any other plugin is
\* refused before a byte is written.
Proof(plugin, salt) ==
  IF conf.pw = Nil THEN NoProof
  ELSE IF plugin = "sha2" THEN <<"sha2", conf.pw, Nil>>
  ELSE <<"native", conf.pw, salt>>
Supported(plugin, initial) ==
  conf.pw = Nil \/ plugin \in {"native", "sha2"} \/ (initial /\ plugin = Nil)

\* The flags say that a database and a plugin name follow; each is left out
\* when it is empty.  The last part is the count of attributes, zero.
HandshakeResponse(plugin) ==
  <<Proof(plugin, Salt)>>
    \o (IF conf.db = Nil THEN <<>> ELSE <<<<conf.db>>>>)
    \o (IF plugin = Nil THEN <<>> ELSE <<<<plugin>>>>)
    \o <<<<Nil>>>>

KeySeqStale(m) == SeqNo(m)
KeySeq(m) == SeqNo(m) + 1

(***************************************************************************)
(* The client's steps.                                                     *)
(***************************************************************************)
Done(kind) == client' = [client EXCEPT !.step = "done", !.outcome = kind]

Dial ==
  /\ client.step = "idle"
  /\ client' = [client EXCEPT !.step = IF Pg THEN "auth" ELSE "greeting"]
  /\ up' = IF Pg THEN <<Msg("startup", Nil, 0, <<<<conf.db>>>>)>> ELSE <<>>
  /\ server' = [server EXCEPT !.step = "accepted"]
  /\ UNCHANGED <<conf, down>>

\* Only the TCP connection has the configured timeout.
DialFails ==
  /\ client.step = "idle"
  /\ \E kind \in {"refused", "timeout"} : Done(kind)
  /\ UNCHANGED <<conf, server, up, down>>

\* A reset loses what had not been read, an orderly end does not.
ReadFails ==
  /\ client.step \in {"greeting", "auth", "key"} /\ server.step = "dead"
  /\ Done("io")
  /\ UNCHANGED <<conf, server, up, down>>

\* The message after which PostgreSQL's loop ends.
EndedAtAuthenticationOk(m) == Type(m) = "R" /\ Code(m) = "0"
Ended(m) == Type(m) = "Z"

PgReadAuthentication ==
  /\ Pg /\ Reading("auth") /\ Type(Head(down)) = "R"
  /\ LET m == Head(down)
         r == PgAuthenticate(m)
         over == r.outcome # Nil \/ Ended(m)
     IN /\ client' = [client EXCEPT !.scram = r.scram,
                        !.step = IF over THEN "done" ELSE "auth",
                        !.outcome = IF Ended(m) THEN "ok" ELSE r.outcome]
        /\ up' = up \o r.said
  /\ down' = Tail(down)
  /\ UNCHANGED <<conf, server>>

PgReadOther ==
  /\ Pg /\ Reading("auth") /\ Type(Head(down)) \notin {"R", "E"}
  /\ LET m == Head(down)
     IN CASE Ended(m)      -> Done("ok")
          [] Type(m) = "K" -> client' = [client EXCEPT !.pid = Body(m)[1][1]]
          [] OTHER         -> UNCHANGED client
  /\ down' = Tail(down)
  /\ UNCHANGED <<conf, server, up>>

ReadError ==
  /\ Reading("auth") /\ Type(Head(down)) = "E"
  /\ Done("server")
  /\ down' = Tail(down)
  /\ UNCHANGED <<conf, server, up>>

\* An ERR packet instead of the greeting has no protocol version 10.
MyReadGreeting ==
  /\ Reading("greeting")
  /\ LET m == Head(down)
         plugin == Body(m)[1][1]
     IN IF Type(m) # "greeting" THEN Done("protocol") /\ UNCHANGED up
        ELSE IF ~Supported(plugin, TRUE) THEN Done("auth") /\ UNCHANGED up
        ELSE /\ client' = [client EXCEPT !.step = "auth"]
             /\ up' = <<Msg("response", Nil, SeqNo(m) + 1, HandshakeResponse(plugin))>>
  /\ down' = Tail(down)
  /\ UNCHANGED <<conf, server>>

MyReadOk ==
  /\ ~Pg /\ Reading("auth") /\ Type(Head(down)) = "ok"
  /\ Done("ok")
  /\ down' = Tail(down)
  /\ UNCHANGED <<conf, server, up>>

\* The salt of a switch keeps the NUL that ends it; the greeting's loses it.
MyReadSwitch ==
  /\ ~Pg /\ Reading("auth") /\ Type(Head(down)) = "switch"
  /\ LET m == Head(down)
         plugin == Body(m)[1][1]
     IN IF Supported(plugin, FALSE)
        THEN /\ up' = Append(up, Msg("proof", Nil, SeqNo(m) + 1,
                                     <<Proof(plugin, Body(m)[1][2])>>))
             /\ UNCHANGED client
        ELSE Done("auth") /\ UNCHANGED up
  /\ down' = Tail(down)
  /\ UNCHANGED <<conf, server>>

MyReadMore ==
  /\ ~Pg /\ Reading("auth") /\ Type(Head(down)) = "more"
  /\ LET m == Head(down)
     IN CASE Code(m) = "3" -> UNCHANGED <<client, up>>
          [] Code(m) = "4" ->
               /\ client' = [client EXCEPT !.step = "key"]
               /\ up' = Append(up, Msg("request", "2", SeqNo(m) + 1, <<>>))
          [] OTHER -> Done("auth") /\ UNCHANGED up
  /\ down' = Tail(down)
  /\ UNCHANGED <<conf, server>>

MyReadKey ==
  /\ Reading("key")
  /\ LET m == Head(down)
     IN IF Type(m) = "more"
        THEN /\ client' = [client EXCEPT !.step = "auth"]
             /\ up' = Append(up, Msg("secret", Nil, KeySeq(m), <<<<"rsa", conf.pw, Nil>>>>))
        ELSE Done("protocol") /\ UNCHANGED up
  /\ down' = Tail(down)
  /\ UNCHANGED <<conf, server>>

(***************************************************************************)
(* The servers (external).  A reply names the step that follows, the       *)
(* verdict and the messages sent.                                          *)
(***************************************************************************)
Reply(step, verdict, sent) == [step |-> step, verdict |-> verdict, sent |-> sent]
Refuse(verdict, seq) == Reply("over", verdict, <<Msg("E", verdict, seq, <<<<Nil>>>>)>>)

Serve(r, consumed, plugin) ==
  /\ server' = [server EXCEPT !.step = r.step, !.verdict = r.verdict, !.plugin = plugin,
                              !.due = SeqNo(r.sent[Len(r.sent)]) + 1]
  /\ down' = down \o r.sent
  /\ up' = IF consumed THEN Tail(up) ELSE up
  /\ UNCHANGED <<conf, client>>

Auth(code, body) == Msg("R", code, 0, body)

PgGrant(before) ==
  IF conf.db = "gone"
  THEN Reply("over", "nodb", before \o <<Auth("0", <<>>), Msg("E", "nodb", 0, <<>>)>>)
  ELSE Reply("over", "ready", before \o <<Auth("0", <<>>), Msg("S", Nil, 0, <<>>),
                                           Msg("K", Nil, 0, <<<<Pid>>>>), Msg("Z", Nil, 0, <<>>)>>)

PgTakeStartup ==
  /\ Pg /\ server.step = "accepted" /\ up # <<>>
  /\ Serve(CASE conf.auth = "trust"     -> PgGrant(<<>>)
             [] conf.auth = "cleartext" -> Reply("proof", Nil, <<Auth("3", <<>>)>>)
             [] conf.auth = "md5"       -> Reply("proof", Nil, <<Auth("5", <<>>)>>)
             [] conf.auth = "gss"       -> Reply("proof", Nil, <<Auth("7", <<>>)>>)
             [] conf.auth = "scram"     ->
                  Reply("proof", Nil,
                        <<Auth("10", [i \in DOMAIN conf.offers |-> <<conf.offers[i]>>])>>),
           TRUE, Nil)

PgTakeProof ==
  /\ Pg /\ server.step = "proof" /\ up # <<>>
  /\ LET kind == Code(Head(up))
         proof == Body(Head(up))[1]
         good == proof[2] = conf.secret
     IN Serve(CASE kind = "first" -> Reply("proof", Nil, <<Auth("11", <<<<"r">>, <<"s">>, <<"i">>>>)>>)
                [] kind = "scram" /\ good -> PgGrant(<<Auth("12", <<<<"v">>>>)>>)
                [] kind \in {"cleartext", "md5"} /\ good -> PgGrant(<<>>)
                [] OTHER -> Refuse("denied", 0),
              TRUE, Nil)

MyGreet ==
  /\ ~Pg /\ server.step = "accepted"
  /\ Serve(Reply("response", Nil, <<Msg("greeting", Nil, 0, <<<<conf.greet, Salt>>>>)>>),
           FALSE, conf.greet)

\* The database is opened once the password is right.
MyGrant(db, seq, before) ==
  IF db = "app" THEN Reply("over", "ready", Append(before, Msg("ok", Nil, seq, <<>>)))
  ELSE Refuse("nodb", seq)

\* The hash the server computes over its own salt, and what a proof earns.
MyHash(plugin) ==
  <<plugin, conf.secret, IF plugin = "native" \/ conf.salted THEN Salt ELSE Nil>>
MyJudge(proof, plugin, db, seq) ==
  LET granted == MyGrant(db, seq, <<>>)
      denied == Refuse("denied", seq)
  IN IF conf.secret = Nil \/ proof = NoProof
     THEN IF conf.secret = Nil /\ proof = NoProof THEN granted ELSE denied
     ELSE IF plugin = "native"
     THEN IF proof = MyHash(plugin) THEN granted ELSE denied
     ELSE IF conf.cached /\ proof = MyHash(plugin)
     THEN MyGrant(db, seq + 1, <<Msg("more", "3", seq, <<>>)>>)
     ELSE Reply("request", Nil, <<Msg("more", "4", seq, <<>>)>>)

\* A packet with another sequence number ends the dialogue.
InOrder(m, reply) == IF SeqNo(m) = server.due THEN reply ELSE Refuse("order", server.due + 1)

MyTakeResponse ==
  /\ server.step = "response" /\ up # <<>>
  /\ LET m == Head(up)
         db == Body(m)[2][1]
         plugin == IF conf.greet = Nil THEN "native"
                   ELSE IF Len(Body(m)) > 2 THEN Body(m)[3][1] ELSE Nil
         switch == Reply("switched", Nil, <<Msg("switch", Nil, SeqNo(m) + 1,
                                               <<<<conf.auth, "salt+NUL">>>>)>>)
     IN /\ Serve(InOrder(m, IF plugin = conf.auth
                            THEN MyJudge(Body(m)[1], plugin, db, SeqNo(m) + 1)
                            ELSE switch), TRUE, conf.auth)

\* The database named in the response is the one opened after a switch.
NamedDb == IF conf.db = Nil THEN conf.greet ELSE conf.db

MyTakeProof ==
  /\ server.step = "switched" /\ up # <<>>
  /\ LET m == Head(up)
     IN Serve(InOrder(m, MyJudge(Body(m)[1], conf.auth, NamedDb, SeqNo(m) + 1)),
              TRUE, server.plugin)

MyTakeKeyRequest ==
  /\ server.step = "request" /\ up # <<>>
  /\ LET m == Head(up)
     IN Serve(InOrder(m, Reply("secret", Nil, <<Msg("more", "key", SeqNo(m) + 1, <<>>)>>)),
              TRUE, server.plugin)

MyTakeSecret ==
  /\ server.step = "secret" /\ up # <<>>
  /\ LET m == Head(up)
         good == Body(m)[1] = <<"rsa", conf.secret, IF conf.salted THEN Salt ELSE Nil>>
     IN Serve(InOrder(m, IF good THEN MyGrant(NamedDb, SeqNo(m) + 1, <<>>)
                         ELSE Refuse("denied", SeqNo(m) + 1)),
              TRUE, server.plugin)

Waiting == server.step \in {"accepted", "proof", "response", "switched", "request", "secret"}

\* Too many connections, a shutdown, an administrator.
ServerRefuses ==
  /\ Waiting
  /\ Serve(Refuse("busy", 0), FALSE, server.plugin)

ServerDies ==
  /\ server.step \notin {"idle", "dead"}
  /\ server' = [server EXCEPT !.step = "dead"]
  /\ UNCHANGED <<conf, client, up, down>>

----------------------------------------------------------------------------
Init ==
  /\ conf \in PgConfs \cup MyConfs
  /\ client = [step |-> "idle", scram |-> Nil, pid |-> Nil, outcome |-> Nil]
  /\ server = [step |-> "idle", due |-> 0, plugin |-> Nil, verdict |-> Nil]
  /\ up = <<>> /\ down = <<>>

Over == client.step = "done" /\ UNCHANGED vars

Next ==
  \/ Dial \/ DialFails \/ ReadFails \/ ReadError
  \/ PgReadAuthentication \/ PgReadOther
  \/ MyReadGreeting \/ MyReadOk \/ MyReadSwitch \/ MyReadMore \/ MyReadKey
  \/ PgTakeStartup \/ PgTakeProof
  \/ MyGreet \/ MyTakeResponse \/ MyTakeProof \/ MyTakeKeyRequest \/ MyTakeSecret
  \/ ServerRefuses \/ ServerDies \/ Over

Spec == Init /\ [][Next]_vars

----------------------------------------------------------------------------
\* A connection handed to the application is one the server holds open and
\* idle: it has granted the login and the database, nothing sent by either
\* side is still unread (the first statement would take it for its answer),
\* and the backend's id is the one PostgreSQL gave.
\* (postgresql.rs: the loop to ReadyForQuery; mysql.rs: the loop to OK)
ReadyMeansReady ==
  client.outcome = "ok" =>
    /\ server.verdict = "ready"
    /\ up = <<>> /\ down = <<>>
    /\ Pg => client.pid = Pid

\* Logins this code cannot complete with the right password (see README, 6):
\* SCRAM and GSS; a plugin it does not have; a plugin other than the greeting's
\* (the salt of a switch); a salted caching_sha2_password; MySQL with no database.
Unserved ==
  IF Pg THEN conf.auth \in {"scram", "gss"}
  ELSE \/ conf.db = Nil
       \/ /\ conf.pw # Nil
          /\ \/ conf.greet \notin {Nil, conf.auth}
             \/ conf.auth = "dialog"
             \/ conf.auth = "sha2" /\ conf.salted

\* The right password gets in: a dialogue that the server did not break off
\* ends in a refusal only for a wrong password, for a database the server
\* does not have, or for one of the logins above; and no packet of the
\* client is ever out of sequence, whichever way the dialogue goes.
\* (the sequence numbers of mysql.rs, one answer to each server message)
RightPasswordGetsIn ==
  /\ server.verdict # "order"
  /\ client.outcome \in {"auth", "protocol", "server"} =>
       \/ server.verdict = "busy"
       \/ conf.pw # conf.secret
       \/ conf.db = "gone"
       \/ Unserved
============================================================================
