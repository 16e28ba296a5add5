----------------------------- MODULE Sessions -----------------------------
(***************************************************************************)
(* internal/server/gateway_server.go and login_server.go with the session, *)
(* online and user keys of internal/database/redis.go: clients that log in *)
(* through the gateway's TCP connections, the calls the login server       *)
(* executes concurrently, the keys they share in Redis and their time to   *)
(* live.  A step holds one access to Redis or MongoDB.  Tokens are numbers *)
(* in the order in which they are generated; the user a token was signed   *)
(* for is owner[t].  Messages the gateway refuses without changing         *)
(* anything (a header that is not the connection's own, no login service)  *)
(* are left out.                                                           *)
(***************************************************************************)
EXTENDS Integers, FiniteSets

CONSTANTS
  Conns,       \* connections the gateway has at a time
  Slots,       \* bound: calls that the login server executes at a time
  Users,       \* user names; a user's id is as good as its name
  Registered,  \* the users with an account when the model starts
  MaxTokens,   \* bound: tokens generated
  MaxDirect,   \* bound: calls to the login server that are not the gateway's
  MaxFaults,   \* bound: failed operations of Redis and MongoDB
  NoUser, NoCall

ASSUME SessionsAssumption ==
  /\ Registered \subseteq Users /\ NoUser \notin Users
  /\ Conns \cap (Users \cup {NoCall}) = {} /\ NoCall \notin Users
  /\ MaxTokens \in Nat /\ MaxDirect \in Nat /\ MaxFaults \in Nat

Tokens      == 1..MaxTokens
NoToken     == 0
SessionLife == 2    \* SessionCache.expiry, 2 h, in ticks
OnlineLife  == 1    \* SetUserOnline: 30 min, less than a session's life

VARIABLES
  accounts,   \* MongoDB: documents per user name
  owner,      \* the user a token was signed for
  stored,     \* Redis session:<t>, the user id; its last value when it is gone
  left,       \* time to live of session:<t>; 0 when there is no such key
  online,     \* time to live of online:<user>; 0 when there is no such key
  conn,       \* Connection: open, UserID, SessionID
  pc,         \* what the handler of a connection does next
  call,       \* the calls the login server executes
  held,       \* the tokens the clients of a user were given
  direct, faults

redis == <<stored, left, online>>
vars  == <<accounts, owner, redis, conn, pc, call, held, direct, faults>>

Free   == [op |-> "none", at |-> "free", user |-> NoUser, token |-> NoToken,
           new |-> NoToken, by |-> NoCall]
Closed == [open |-> FALSE, user |-> NoUser, session |-> NoToken]

Init ==
  /\ accounts = [u \in Users |-> IF u \in Registered THEN 1 ELSE 0]
  /\ owner = [t \in Tokens |-> NoUser]
  /\ stored = [t \in Tokens |-> NoUser] /\ left = [t \in Tokens |-> 0]
  /\ online = [u \in Users |-> 0]
  /\ conn = [c \in Conns |-> Closed] /\ pc = [c \in Conns |-> "idle"]
  /\ call = [s \in Slots |-> Free]
  /\ held = [u \in Users |-> {}] /\ direct = 0 /\ faults = 0

Fault == faults < MaxFaults /\ faults' = faults + 1

(* One operation on Redis or MongoDB: it has its effect, or fails.         *)
Do(effect, failure) ==
  \/ effect /\ UNCHANGED faults
  \/ failure /\ Fault

(* session:<t> := u with the session's time to live.                       *)
SetSession(t, u) ==
  /\ stored' = [stored EXCEPT ![t] = u]
  /\ left' = [left EXCEPT ![t] = SessionLife]
DeleteSession(t) == left' = [left EXCEPT ![t] = 0]
(* EXPIRE has no effect on a key that is gone.                             *)
RefreshSession(t) ==
  left' = [left EXCEPT ![t] = IF @ > 0 THEN SessionLife ELSE 0]
SetOnline(u)  == online' = [online EXCEPT ![u] = OnlineLife]
SetOffline(u) == online' = [online EXCEPT ![u] = 0]

Give(u, t) == held' = [held EXCEPT ![u] = @ \cup {t}]

-----------------------------------------------------------------------------
(* The gateway: one handler per connection, one message at a time.         *)

Accept(c) ==
  /\ conn[c] = Closed /\ pc[c] = "idle"
  /\ conn' = [conn EXCEPT ![c].open = TRUE]
  /\ UNCHANGED <<accounts, owner, redis, pc, call, held, direct, faults>>

(* The handler is done with a message; it leaves when the connection, x,   *)
(* is closed.                                                              *)
Concludes(c, x) ==
  /\ pc' = [pc EXCEPT ![c] = "idle"]
  /\ conn' = [conn EXCEPT ![c] = IF x.open THEN x ELSE Closed]

(* The client goes, or heartbeatLoop closes the connection; a handler that *)
(* is busy ends its message first.  The online key stays.                  *)
Drop(c) ==
  /\ conn[c].open
  /\ conn' = [conn EXCEPT ![c] =
       IF pc[c] = "idle" THEN Closed ELSE [@ EXCEPT !.open = FALSE]]
  /\ UNCHANGED <<accounts, owner, redis, pc, call, held, direct, faults>>

(* handleLogin: the call of LoginService.Login.                            *)
LoginRequest(c, u, s) ==
  /\ conn[c].open /\ pc[c] = "idle" /\ call[s] = Free
  /\ call' = [call EXCEPT ![s] =
       [Free EXCEPT !.op = "Login", !.at = "find", !.user = u, !.by = c]]
  /\ pc' = [pc EXCEPT ![c] = "login"]
  /\ UNCHANGED <<accounts, owner, redis, conn, held, direct, faults>>

(* The answer: the connection is bound to the session, the user set online *)
(* (a failure is only logged) and the token sent to the client.            *)
LoginAnswer(c, s) ==
  LET u == call[s].user  t == call[s].new IN
  /\ pc[c] = "login" /\ call[s].by = c
  /\ \/ /\ call[s].at = "done"
        /\ Do(SetOnline(u), UNCHANGED online)
        /\ IF conn[c].open THEN Give(u, t) ELSE UNCHANGED held
        /\ Concludes(c, [conn[c] EXCEPT !.user = u, !.session = t])
     \/ /\ call[s].at = "failed"
        /\ Concludes(c, conn[c])
        /\ UNCHANGED <<online, held, faults>>
  /\ call' = [call EXCEPT ![s] = Free]
  /\ UNCHANGED <<accounts, owner, stored, left, direct>>

(* Five seconds pass, or the client fails; the login server works on.      *)
LoginTimeout(c, s) ==
  /\ pc[c] = "login" /\ call[s].by = c
  /\ call' = [call EXCEPT ![s] =
                IF @.at \in {"done", "failed"} THEN Free ELSE [@ EXCEPT !.by = NoCall]]
  /\ Concludes(c, conn[c])
  /\ UNCHANGED <<accounts, owner, redis, held, direct, faults>>

(* A message with the header of the connection's own session, and its      *)
(* GetSession in validateSession: refused, or about to be refreshed.       *)
Request(c) ==
  LET t == conn[c].session IN
  /\ conn[c].open /\ pc[c] = "idle" /\ t # NoToken
  /\ left[t] > 0 /\ stored[t] = conn[c].user
  /\ \E next \in {"refresh", "refreshLogout"} : pc' = [pc EXCEPT ![c] = next]
  /\ UNCHANGED <<accounts, owner, redis, conn, call, held, direct, faults>>

Validated(c) ==
  IF pc[c] = "refreshLogout"
  THEN pc' = [pc EXCEPT ![c] = "logout"] /\ UNCHANGED conn
  ELSE Concludes(c, conn[c])

(* Mutant: the session is stored again to make it last.                    *)
RefreshBySet(c) ==
  /\ pc[c] \in {"refresh", "refreshLogout"}
  /\ SetSession(conn[c].session, conn[c].user)
  /\ Validated(c)
  /\ UNCHANGED <<accounts, owner, online, call, held, direct, faults>>

(* validateSession: RefreshSession, whose failure is only logged.  A       *)
(* heartbeat is answered; other messages are not forwarded yet.            *)
Refresh(c) ==
  /\ pc[c] \in {"refresh", "refreshLogout"}
  /\ Do(RefreshSession(conn[c].session), UNCHANGED left)
  /\ Validated(c)
  /\ UNCHANGED <<accounts, owner, stored, online, call, held, direct>>

(* handleLogout: the online key goes, the session in Redis stays.          *)
Logout(c) ==
  /\ pc[c] = "logout"
  /\ Do(SetOffline(conn[c].user), UNCHANGED online)
  /\ Concludes(c, Closed)
  /\ UNCHANGED <<accounts, owner, stored, left, call, held, direct>>

-----------------------------------------------------------------------------
(* The login server: a call advances by one access to MongoDB or Redis.    *)

Goes(s, to) == call' = [call EXCEPT ![s].at = to] /\ UNCHANGED held

(* The call returns: to the gateway's handler, to a client of the service, *)
(* which is given the new token, or to nobody.                             *)
Returns(s, outcome) ==
  /\ call' = [call EXCEPT ![s] =
       IF @.by \in Conns THEN [@ EXCEPT !.at = outcome] ELSE Free]
  /\ IF outcome = "done" /\ call[s].by \in Users /\ call[s].new # NoToken
     THEN Give(call[s].by, call[s].new) ELSE UNCHANGED held
Fails(s) == Returns(s, "failed")

(* Calls of other clients of the service; a header holds a token that the  *)
(* client, one of u's, was given and a user id.                            *)
DirectCall(s, u) ==
  /\ call[s] = Free /\ direct < MaxDirect
  /\ direct' = direct + 1
  /\ \/ call' = [call EXCEPT ![s] =
          [Free EXCEPT !.op = "Register", !.at = "find", !.user = u, !.by = u]]
     \/ \E v \in Users, t \in held[u], op \in {"Logout", "Validate", "RefreshToken"} :
          call' = [call EXCEPT ![s] =
            [Free EXCEPT !.op = op, !.user = v, !.token = t, !.by = u,
                         !.at = CASE op = "Logout" -> "delete"
                                  [] op = "Validate" -> "get"
                                  [] OTHER -> "claims"]]
  /\ UNCHANGED <<accounts, owner, redis, conn, pc, held, faults>>

(* A token is signed for the user of the call.                             *)
Generate(s, to) ==
  \E t \in Tokens :
    /\ owner[t] = NoUser /\ \A o \in 1..(t - 1) : owner[o] # NoUser
    /\ owner' = [owner EXCEPT ![t] = call[s].user]
    /\ call' = [call EXCEPT ![s].at = to, ![s].new = t]
    /\ UNCHANGED held

(* The users collection; the unique index on the name refuses a second     *)
(* document.                                                               *)
GetByUsername(u) == accounts[u] > 0
CreateContext(u) ==
  ~GetByUsername(u) /\ accounts' = [accounts EXCEPT ![u] = 1]

(* Login: GetByUsername, the password and the token.  The writes of the    *)
(* password hash, the login time and the user cache decide nothing.        *)
Find(s) ==
  /\ call[s].op = "Login" /\ call[s].at = "find"
  /\ \/ GetByUsername(call[s].user) /\ Generate(s, "set")   \* the right password
     \/ Fails(s) /\ UNCHANGED owner
  /\ UNCHANGED <<accounts, redis, conn, pc, direct, faults>>

(* Register: an error of the lookup is taken for "no such user".           *)
FindFree(s) ==
  /\ call[s].op = "Register" /\ call[s].at = "find"
  /\ Do(IF GetByUsername(call[s].user) THEN Fails(s) ELSE Goes(s, "create"),
        Goes(s, "create"))
  /\ UNCHANGED <<accounts, owner, redis, conn, pc, direct>>

(* Mutant: user names without their unique index.                          *)
CreateAnyway(s) ==
  /\ call[s].at = "create"
  /\ accounts' = [accounts EXCEPT ![call[s].user] = @ + 1]
  /\ Generate(s, "set")
  /\ UNCHANGED <<redis, conn, pc, direct, faults>>

(* The account, refused when the name was taken since.                     *)
Create(s) ==
  LET u == call[s].user
      refused == Fails(s) /\ UNCHANGED <<accounts, owner>>
  IN
  /\ call[s].at = "create"
  /\ Do(\/ CreateContext(u) /\ Generate(s, "set")
        \/ GetByUsername(u) /\ refused,
        refused)
  /\ UNCHANGED <<redis, conn, pc, direct>>

(* SetSession ends Login, Register and RefreshToken.                       *)
Store(s) ==
  /\ call[s].at = "set"
  /\ Do(SetSession(call[s].new, call[s].user) /\ Returns(s, "done"),
        Fails(s) /\ UNCHANGED <<stored, left>>)
  /\ UNCHANGED <<accounts, owner, online, conn, pc, direct>>

(* Mutant: the token's signature is checked, its user is not.              *)
ClaimsOfAnyone(s) ==
  /\ call[s].at = "claims"
  /\ \/ Generate(s, "delete")
     \/ Fails(s) /\ UNCHANGED owner
  /\ UNCHANGED <<accounts, redis, conn, pc, direct, faults>>

(* RefreshToken: validateToken, which an expired token fails, and the new  *)
(* token; whether the session is in Redis is not asked.                    *)
Claims(s) ==
  /\ call[s].at = "claims"
  /\ \/ owner[call[s].token] = call[s].user /\ Generate(s, "delete")
     \/ Fails(s) /\ UNCHANGED owner
  /\ UNCHANGED <<accounts, redis, conn, pc, direct, faults>>

(* DeleteSession of RefreshToken and of Logout, which does not compare the *)
(* session's user with the header's; a failure is only logged.             *)
Delete(s) ==
  /\ call[s].at = "delete"
  /\ Do(DeleteSession(call[s].token), UNCHANGED left)
  /\ Goes(s, IF call[s].op = "Logout" THEN "offline" ELSE "set")
  /\ UNCHANGED <<accounts, owner, stored, online, conn, pc, direct>>

(* Logout: SetUserOffline, whose error is dropped.                         *)
Offline(s) ==
  /\ call[s].at = "offline"
  /\ Do(SetOffline(call[s].user), UNCHANGED online)
  /\ Returns(s, "done")
  /\ UNCHANGED <<accounts, owner, stored, left, conn, pc, direct>>

(* ValidateToken: the token, which may have expired, then the session.     *)
Validate(s) ==
  LET t == call[s].token IN
  /\ call[s].at = "get"
  /\ \/ left[t] > 0 /\ stored[t] = owner[t] /\ Goes(s, "touch")
     \/ Fails(s)
  /\ UNCHANGED <<accounts, owner, redis, conn, pc, direct, faults>>

Touch(s) ==
  /\ call[s].at = "touch"
  /\ Do(RefreshSession(call[s].token), UNCHANGED left)
  /\ Returns(s, "done")
  /\ UNCHANGED <<accounts, owner, stored, online, conn, pc, direct>>

-----------------------------------------------------------------------------
Less(k) == IF k = 0 THEN 0 ELSE k - 1

(* Mutant: the online key is stored without a time to live.                *)
TickSessions ==
  /\ left' = [t \in Tokens |-> Less(left[t])]
  /\ UNCHANGED <<accounts, owner, stored, online, conn, pc, call, held, direct,
                 faults>>

(* Time passes in Redis.                                                   *)
Tick ==
  /\ left' = [t \in Tokens |-> Less(left[t])]
  /\ online' = [u \in Users |-> Less(online[u])]
  /\ UNCHANGED <<accounts, owner, stored, conn, pc, call, held, direct, faults>>

Handler(c) == Refresh(c) \/ Logout(c)
              \/ \E s \in Slots : LoginAnswer(c, s) \/ LoginTimeout(c, s)
Work(s) == Find(s) \/ FindFree(s) \/ Create(s) \/ Store(s) \/ Claims(s)
           \/ Delete(s) \/ Offline(s) \/ Validate(s) \/ Touch(s)

Next ==
  \/ \E c \in Conns : Accept(c) \/ Drop(c) \/ Request(c) \/ Handler(c)
  \/ \E c \in Conns, u \in Users, s \in Slots : LoginRequest(c, u, s)
  \/ \E s \in Slots, u \in Users : DirectCall(s, u)
  \/ \E s \in Slots : Work(s)
  \/ Tick

Spec == Init /\ [][Next]_vars

(* A handler concludes its message, within the timeouts of its calls, and  *)
(* the clock of Redis runs.                                                *)
FairSpec == Spec /\ (\A c \in Conns : WF_vars(Handler(c))) /\ WF_vars(Tick)

-----------------------------------------------------------------------------
(* Type correctness; among it that a user name never has two accounts,     *)
(* whatever registrations race (login_server.go:192), and that exactly the *)
(* handlers that wait for a login are waited on by a call.                 *)
TypeOK ==
  /\ accounts \in [Users -> 0..1]
  /\ owner \in [Tokens -> Users \cup {NoUser}]
  /\ stored \in [Tokens -> Users \cup {NoUser}]
  /\ left \in [Tokens -> 0..SessionLife] /\ online \in [Users -> 0..OnlineLife]
  /\ conn \in [Conns -> [open : BOOLEAN, user : Users \cup {NoUser},
                         session : Tokens \cup {NoToken}]]
  /\ pc \in [Conns -> {"idle", "login", "refresh", "refreshLogout", "logout"}]
  /\ \A c \in Conns : conn[c].user = NoUser <=> conn[c].session = NoToken
  /\ \A c \in Conns : pc[c] = "login" <=> \E s \in Slots : call[s].by = c
  /\ held \in [Users -> SUBSET Tokens]
  /\ direct \in 0..MaxDirect /\ faults \in 0..MaxFaults

(* A client is only ever given, and a connection only ever bound to, a     *)
(* session that Redis keeps as that user's own: no interleaving of logins, *)
(* timeouts and refreshed tokens hands one user the session of another     *)
(* (gateway_server.go:210, login_server.go:345).                           *)
OwnSessions ==
  /\ \A u \in Users : \A t \in held[u] : stored[t] = u
  /\ \A c \in Conns : conn[c].session # NoToken
                      => stored[conn[c].session] = conn[c].user

(* A session that was deleted or ran out is not there again, although a    *)
(* validation that saw it refreshes it later (gateway_server.go:284,       *)
(* login_server.go:318): a refresh never undoes a logout.                  *)
DeadStayDead ==
  [][\A t \in Tokens : stored[t] # NoUser /\ left[t] = 0 => left'[t] = 0]_vars

(* A user all of whose connections are gone, with or without a logout, is  *)
(* in the end no longer online (gateway_server.go:214, redis.go:545).      *)
Here(u) == \E c \in Conns : conn[c].user = u
GoneGoOffline ==
  \A u \in Users : (<>[]~Here(u)) => (<>[](online[u] = 0))
=============================================================================
