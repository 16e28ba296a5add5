--------------------------- MODULE SessionsProofs ---------------------------
(***************************************************************************)
(* Theorems about Sessions.  Whose session a client is given depends on    *)
(* what the login server knows of a call in each of its steps (Proper),    *)
(* and on no two calls being about to store the same token (Distinct).     *)
(***************************************************************************)
EXTENDS Sessions, TLAPS

Ops    == {"none", "Login", "Register", "Logout", "Validate", "RefreshToken"}
Places == {"free", "find", "create", "claims", "set", "delete", "offline", "get", "touch",
           "done", "failed"}
Calls  == [op : Ops, at : Places, user : Users \cup {NoUser}, token : Tokens \cup {NoToken},
           new : Tokens \cup {NoToken}, by : Conns \cup Users \cup {NoCall}]

(* The call has generated a token that is not stored yet.                  *)
Pending(k) == k.at = "set" \/ (k.at = "delete" /\ k.op = "RefreshToken")

(* Which steps a call of each operation goes through, on whose behalf.     *)
Shape(k) ==
  /\ k.at = "free" \/ k.op = "none" => k = Free
  /\ k.at # "free" => k.user \in Users
  /\ k.op = "Login" => k.at \in {"find", "set", "done", "failed"} /\ k.by \in Conns \cup {NoCall}
  /\ k.op = "Register" => k.at \in {"find", "create", "set"} /\ k.by = k.user
  /\ k.op = "Logout" => k.at \in {"delete", "offline"} /\ k.new = NoToken /\ k.by \in Users
  /\ k.op = "Validate" => k.at \in {"get", "touch"} /\ k.new = NoToken /\ k.by \in Users
  /\ k.op = "RefreshToken" => k.at \in {"claims", "delete", "set"} /\ k.by \in Users
                              /\ k.token \in Tokens

(* Whose the tokens of a call are: the old one is the caller's own, the    *)
(* new one the call's user's.                                              *)
Proper(k) ==
  /\ k.op = "RefreshToken" => owner[k.token] = k.by
  /\ Pending(k) => /\ k.new \in Tokens /\ owner[k.new] = k.user /\ stored[k.new] = NoUser
                   /\ k.by \in Users => k.by = k.user
  /\ k.at = "done" => k.new \in Tokens /\ stored[k.new] = k.user

CallsOK  == call \in [Slots -> Calls] /\ \A s \in Slots : Shape(call[s])
TokensOK == \A s \in Slots : Proper(call[s])

(* No two calls hold the same new token or answer the same handler.        *)
Distinct ==
  \A r, s \in Slots : r # s =>
    /\ Pending(call[r]) /\ Pending(call[s]) => call[r].new # call[s].new
    /\ call[r].by \in Conns => call[r].by # call[s].by

(* A session is stored under the user its token was signed for.            *)
Signed == \A t \in Tokens : stored[t] # NoUser => owner[t] = stored[t]

IInv == TypeOK /\ CallsOK /\ TokensOK /\ Distinct /\ Signed /\ OwnSessions

-----------------------------------------------------------------------------
(* Facts about the constants and the empty call that every step needs.     *)
LEMMA FreeCall ==
  /\ Free \in Calls /\ Shape(Free) /\ Proper(Free) /\ ~Pending(Free)
  /\ Free.by = NoCall /\ Free.new = NoToken /\ Free.at = "free" /\ Free.token = NoToken
  /\ NoCall \notin Conns /\ NoCall \notin Users /\ Conns \cap Users = {}
  /\ NoToken \notin Tokens /\ NoUser \notin Users
<1>1. /\ NoCall \notin Conns /\ NoCall \notin Users /\ Conns \cap Users = {}
      /\ NoToken \notin Tokens /\ NoUser \notin Users
  BY SessionsAssumption DEF NoToken, Tokens
<1>2. Free \in Calls
  BY DEF Free, Calls, Ops, Places
<1>3. QED
  BY <1>1, <1>2 DEF Free, Shape, Proper, Pending

(* Init establishes the inductive invariant.                               *)
LEMMA InitInv == Init => IInv
<1> SUFFICES ASSUME Init PROVE IInv
  OBVIOUS
<1> USE SessionsAssumption, FreeCall
<1>1. TypeOK
  <2>1. held \in [Users -> SUBSET Tokens]
    BY DEF Init
  <2>2. Closed \in [open : BOOLEAN, user : Users \cup {NoUser}, session : Tokens \cup {NoToken}]
    BY DEF Closed
  <2>3. \A c \in Conns : pc[c] # "login" /\ conn[c].user = NoUser /\ conn[c].session = NoToken
    BY DEF Init, Closed
  <2>4. \A s \in Slots : call[s].by = NoCall
    BY DEF Init
  <2>5. \A c \in Conns : pc[c] = "login" <=> \E s \in Slots : call[s].by = c
    BY <2>3, <2>4
  <2>6. QED
    BY <2>1, <2>2, <2>3, <2>5 DEF Init, TypeOK, SessionLife, OnlineLife, Tokens, NoToken
<1>2. \A s \in Slots : call[s] = Free
  BY DEF Init
<1>3. CallsOK
  BY <1>2 DEF Init, CallsOK
<1>4. TokensOK /\ Distinct
  BY <1>2 DEF TokensOK, Distinct
<1>5. Signed
  BY DEF Init, Signed
<1>6. OwnSessions
  BY DEF Init, OwnSessions, Closed
<1>7. QED
  BY <1>1, <1>3, <1>4, <1>5, <1>6 DEF IInv

-----------------------------------------------------------------------------
(* What is recorded of a token is never changed, only added to, and a      *)
(* token another call is about to store stays as it is.                    *)
Recorded(s) ==
  /\ \A t \in Tokens : owner[t] # NoUser => owner'[t] = owner[t]
  /\ \A t \in Tokens : stored[t] # NoUser => stored'[t] = stored[t]
  /\ \A r \in Slots \ {s} : Pending(call[r]) => stored'[call[r].new] = stored[call[r].new]

(* Only the call in slot s changes, into one that may be there.            *)
Turn(s) ==
  /\ call' \in [Slots -> Calls] /\ \A r \in Slots \ {s} : call'[r] = call[r]
  /\ Shape(call'[s]) /\ Proper(call[s])'
  /\ \A r \in Slots \ {s} :
       /\ Pending(call'[s]) /\ Pending(call[r]) => call'[s].new # call[r].new
       /\ call'[s].by \in Conns => call'[s].by # call[r].by

(* A step that turns one call keeps the invariants of the calls.           *)
LEMMA Turned ==
  ASSUME IInv, NEW s \in Slots, Turn(s), Recorded(s)
  PROVE  CallsOK' /\ TokensOK' /\ Distinct'
<1> USE FreeCall DEF Turn
<1>1. TypeOK /\ CallsOK /\ TokensOK /\ Distinct
  BY DEF IInv
<1>2. \A r \in Slots \ {s} : call'[r] = call[r]
  OBVIOUS
<1>3. CallsOK'
  BY <1>1 DEF CallsOK
<1>4. TokensOK'
  <2> SUFFICES ASSUME NEW r \in Slots, r # s PROVE Proper(call[r])'
    BY DEF TokensOK
  <2>1. call'[r] = call[r] /\ Proper(call[r]) /\ Shape(call[r]) /\ call[r] \in Calls
    BY <1>1 DEF TokensOK, CallsOK
  <2>2. call[r].op = "RefreshToken" => owner'[call[r].token] = call[r].by
    BY <2>1 DEF Proper, Shape, Recorded
  <2>3. Pending(call[r]) => call[r].user \in Users
    BY <2>1 DEF Shape, Pending
  <2>4. Pending(call[r]) => /\ call[r].new \in Tokens /\ owner'[call[r].new] = call[r].user
                            /\ stored'[call[r].new] = NoUser
                            /\ call[r].by \in Users => call[r].by = call[r].user
    BY <2>1, <2>3 DEF Proper, Recorded
  <2>5. call[r].at = "done" => call[r].new \in Tokens /\ stored'[call[r].new] = call[r].user
    BY <2>1 DEF Proper, Recorded, Shape
  <2>6. QED
    BY <2>1, <2>2, <2>4, <2>5 DEF Proper, Pending
<1>5. Distinct'
  <2> SUFFICES ASSUME NEW q \in Slots, NEW r \in Slots, q # r
               PROVE  /\ Pending(call'[q]) /\ Pending(call'[r]) => call'[q].new # call'[r].new
                      /\ call'[q].by \in Conns => call'[q].by # call'[r].by
    BY DEF Distinct, Pending
  <2>1. CASE q = s
    BY <2>1
  <2>2. CASE r = s
    BY <2>2
  <2>3. CASE q # s /\ r # s
    BY <1>1, <1>2, <2>3 DEF Distinct
  <2>4. QED
    BY <2>1, <2>2, <2>3
<1>6. QED
  BY <1>3, <1>4, <1>5

(* A call that goes on to its next step, with the token it has.            *)
LEMMA GoesTurn ==
  ASSUME IInv, NEW s \in Slots, NEW to \in Places, Goes(s, to), UNCHANGED <<owner, stored>>,
         Shape([call[s] EXCEPT !.at = to]), Proper([call[s] EXCEPT !.at = to]),
         Pending([call[s] EXCEPT !.at = to]) => Pending(call[s])
  PROVE  /\ CallsOK' /\ TokensOK' /\ Distinct'
         /\ \A c \in Conns, r \in Slots : call'[r].by = c <=> call[r].by = c
<1>1. CallsOK /\ Distinct
  BY DEF IInv
<1>2. /\ call' = [call EXCEPT ![s] = [call[s] EXCEPT !.at = to]]
      /\ call[s] \in Calls /\ [call[s] EXCEPT !.at = to] \in Calls
  BY <1>1 DEF Goes, CallsOK, Calls
<1>3. /\ call' \in [Slots -> Calls] /\ call'[s] = [call[s] EXCEPT !.at = to]
      /\ \A r \in Slots \ {s} : call'[r] = call[r]
      /\ call'[s].new = call[s].new /\ call'[s].by = call[s].by
  BY <1>1, <1>2 DEF CallsOK, Calls
<1>4. Proper(call[s])'
  BY <1>3 DEF Proper, Pending
<1>5. Recorded(s)
  BY DEF Recorded
<1>6. Turn(s)
  BY <1>1, <1>3, <1>4 DEF Turn, Distinct
<1>7. QED
  BY <1>3, <1>5, <1>6, Turned

(* A call that generates a token, which no other call has.                 *)
LEMMA GenerateTurn ==
  ASSUME IInv, NEW s \in Slots, NEW to \in {"set", "delete"}, Generate(s, to), UNCHANGED stored,
         call[s].at \in {"find", "create", "claims"}, call[s].op \in {"Login", "Register", "RefreshToken"},
         call[s].op = "RefreshToken" => to = "delete" /\ owner[call[s].token] = call[s].user,
         to = "delete" => call[s].op = "RefreshToken"
  PROVE  /\ CallsOK' /\ TokensOK' /\ Distinct'
         /\ owner' \in [Tokens -> Users \cup {NoUser}]
         /\ \A t \in Tokens : owner[t] # NoUser => owner'[t] = owner[t]
         /\ \A c \in Conns, r \in Slots : call'[r].by = c <=> call[r].by = c
<1> USE FreeCall
<1>1. TypeOK /\ CallsOK /\ TokensOK /\ Distinct /\ Signed
  BY DEF IInv
<1>2. call[s] \in Calls /\ Shape(call[s]) /\ Proper(call[s]) /\ call[s].user \in Users
  BY <1>1 DEF CallsOK, TokensOK, Shape
<1>3. PICK t \in Tokens : /\ owner[t] = NoUser /\ owner' = [owner EXCEPT ![t] = call[s].user]
                          /\ call' = [call EXCEPT ![s].at = to, ![s].new = t]
  BY DEF Generate
<1>4. /\ call' \in [Slots -> Calls] /\ \A r \in Slots \ {s} : call'[r] = call[r]
      /\ call'[s] = [call[s] EXCEPT !.at = to, !.new = t]
  <2>1. call \in [Slots -> Calls]
    BY <1>1 DEF CallsOK
  <2>2. PICK k : k = [call[s] EXCEPT !.at = to, !.new = t]
    OBVIOUS
  <2>3. k \in Calls
    <3>1. call[s] \in Calls /\ to \in Places /\ t \in Tokens \cup {NoToken}
      BY <1>2 DEF Places
    <3> HIDE DEF Free
    <3>2. [call[s] EXCEPT !.at = to, !.new = t] \in Calls
      BY <3>1 DEF Calls
    <3>3. QED
      BY <2>2, <3>2, Zenon
  <2>4. call' = [call EXCEPT ![s] = k]
    BY <1>3, <2>1, <2>2
  <2>5. QED
    BY <2>1, <2>2, <2>3, <2>4
<1>5. /\ call'[s].at = to /\ call'[s].new = t /\ call'[s].op = call[s].op
      /\ call'[s].by = call[s].by /\ call'[s].user = call[s].user /\ call'[s].token = call[s].token
  BY <1>2, <1>4 DEF Calls
<1>6. Shape(call'[s])
  BY <1>2, <1>5 DEF Shape
<1>7. \A u \in Tokens : owner[u] # NoUser => owner'[u] = owner[u]
  BY <1>1, <1>3 DEF TypeOK
<1>8. stored[t] = NoUser /\ owner'[t] = call[s].user
  BY <1>1, <1>3 DEF Signed, TypeOK
<1>9. call[s].by \in Users => call[s].by = call[s].user
  BY <1>2 DEF Shape, Proper
<1>10. call[s].op = "RefreshToken" => owner'[call[s].token] = call[s].by
  BY <1>2, <1>7 DEF Shape, Proper
<1>11. Proper(call[s])'
  BY <1>5, <1>8, <1>9, <1>10 DEF Proper, Pending
<1>12. Recorded(s)
  BY <1>7 DEF Recorded
<1>13. \A r \in Slots : Pending(call[r]) => call[r].new # t
  BY <1>1, <1>3 DEF CallsOK, TokensOK, Proper, Shape, Pending
<1>14. Turn(s)
  BY <1>1, <1>4, <1>5, <1>6, <1>11, <1>13 DEF Turn, Distinct
<1>15. owner' \in [Tokens -> Users \cup {NoUser}]
  BY <1>1, <1>2, <1>3 DEF TypeOK
<1>16. QED
  BY <1>4, <1>5, <1>7, <1>12, <1>14, <1>15, Turned

(* A call that returns, to the handler that waits for it or for good.      *)
LEMMA ReturnsTurn ==
  ASSUME IInv, NEW s \in Slots, NEW outcome \in {"done", "failed"}, Returns(s, outcome),
         call[s].at # "free", owner' = owner, Recorded(s),
         outcome = "done" /\ call[s].by \in Conns
           => call[s].new \in Tokens /\ stored'[call[s].new] = call[s].user
  PROVE  /\ CallsOK' /\ TokensOK' /\ Distinct'
         /\ \A c \in Conns, r \in Slots : call'[r].by = c <=> call[r].by = c
<1> USE FreeCall
<1>1. CallsOK /\ Distinct
  BY DEF IInv
<1>2. call[s] \in Calls /\ Shape(call[s])
  BY <1>1 DEF CallsOK
<1>3. CASE call[s].by \in Conns
  <2>1. /\ call' = [call EXCEPT ![s] = [call[s] EXCEPT !.at = outcome]]
        /\ [call[s] EXCEPT !.at = outcome] \in Calls
    BY <1>2, <1>3 DEF Returns, Calls, Places
  <2>2. /\ call' \in [Slots -> Calls] /\ \A r \in Slots \ {s} : call'[r] = call[r]
        /\ call'[s] = [call[s] EXCEPT !.at = outcome]
    BY <1>1, <2>1 DEF CallsOK
  <2>3. /\ call'[s].at = outcome /\ call'[s].new = call[s].new /\ call'[s].op = call[s].op
        /\ call'[s].by = call[s].by /\ call'[s].user = call[s].user
        /\ call'[s].token = call[s].token
    BY <1>2, <2>2 DEF Calls
  <2>4. call[s].op = "Login" /\ call[s].user \in Users
    BY <1>2, <1>3 DEF Shape, Calls, Ops
  <2>5. Shape(call'[s])
    BY <1>3, <2>3, <2>4 DEF Shape
  <2>6. Proper(call[s])'
    BY <1>3, <2>3, <2>4 DEF Proper, Pending
  <2>7. Turn(s)
    BY <1>1, <2>2, <2>3, <2>5, <2>6 DEF Turn, Distinct, Pending
  <2>8. QED
    BY <2>2, <2>3, <2>7, Turned
<1>4. CASE call[s].by \notin Conns
  <2>1. call' = [call EXCEPT ![s] = Free]
    BY <1>4 DEF Returns
  <2>2. /\ call' \in [Slots -> Calls] /\ \A r \in Slots \ {s} : call'[r] = call[r]
        /\ call'[s] = Free
    BY <1>1, <2>1 DEF CallsOK
  <2>3. Proper(call[s])'
    BY <2>2 DEF Proper, Pending, Free
  <2>4. Turn(s)
    BY <2>2, <2>3 DEF Turn
  <2>5. QED
    BY <1>4, <2>2, <2>4, Turned
<1>5. QED
  BY <1>3, <1>4

-----------------------------------------------------------------------------
(* What a step keeps of the calls, and of who waits for one.               *)
CallsKept ==
  /\ CallsOK' /\ TokensOK' /\ Distinct'
  /\ \A c \in Conns, r \in Slots : call'[r].by = c <=> call[r].by = c
  /\ owner' \in [Tokens -> Users \cup {NoUser}]
  /\ \A t \in Tokens : owner[t] # NoUser => owner'[t] = owner[t]

(* A call that fails and changes no token keeps the calls.                 *)
LEMMA FailsKept ==
  ASSUME IInv, NEW s \in Slots, Fails(s), call[s].at # "free", UNCHANGED <<owner, stored>>
  PROVE  CallsKept
<1>1. Recorded(s) /\ Returns(s, "failed")
  BY DEF Recorded, Fails
<1>2. /\ CallsOK' /\ TokensOK' /\ Distinct'
      /\ \A c \in Conns, r \in Slots : call'[r].by = c <=> call[r].by = c
  BY <1>1, ReturnsTurn
<1>3. QED
  BY <1>2 DEF CallsKept, IInv, TypeOK

(* A call that generates its token keeps the calls.                        *)
LEMMA GenerateKept ==
  ASSUME IInv, NEW s \in Slots, NEW to \in {"set", "delete"}, Generate(s, to), UNCHANGED stored,
         call[s].at \in {"find", "create", "claims"}, call[s].op \in {"Login", "Register", "RefreshToken"},
         call[s].op = "RefreshToken" => to = "delete" /\ owner[call[s].token] = call[s].user,
         to = "delete" => call[s].op = "RefreshToken"
  PROVE  CallsKept
BY GenerateTurn DEF CallsKept

(* A call that goes on without changing a token keeps the calls.           *)
LEMMA GoesKept ==
  ASSUME IInv, NEW s \in Slots, NEW to \in Places, Goes(s, to), UNCHANGED <<owner, stored>>,
         Shape([call[s] EXCEPT !.at = to]), Proper([call[s] EXCEPT !.at = to]),
         Pending([call[s] EXCEPT !.at = to]) => Pending(call[s])
  PROVE  CallsKept
BY GoesTurn DEF CallsKept, IInv, TypeOK

(* Every step of the login server keeps the calls (login_server.go).       *)
LEMMA WorkCalls ==
  ASSUME IInv, NEW s \in Slots, Work(s)
  PROVE  CallsKept
<1> USE FreeCall
<1>1. TypeOK /\ CallsOK /\ TokensOK /\ Distinct
  BY DEF IInv
<1>2. call[s] \in Calls /\ Shape(call[s]) /\ Proper(call[s])
  BY <1>1 DEF CallsOK, TokensOK
<1>3. CASE Find(s)
  <2>1. UNCHANGED stored /\ call[s].op = "Login" /\ call[s].at = "find"
    BY <1>3 DEF Find, redis
  <2>2. CASE Generate(s, "set")
    BY <2>1, <2>2, GenerateKept
  <2>3. CASE Fails(s) /\ UNCHANGED owner
    BY <2>1, <2>3, FailsKept
  <2>4. QED
    BY <1>3, <2>2, <2>3 DEF Find
<1>4. CASE FindFree(s)
  <2>1. UNCHANGED <<owner, stored>> /\ call[s].op = "Register" /\ call[s].at = "find"
    BY <1>4 DEF FindFree, redis
  <2>2. CASE Fails(s)
    BY <2>1, <2>2, FailsKept
  <2>3. CASE Goes(s, "create")
    <3>1. [call[s] EXCEPT !.at = "create"] \in Calls /\ "create" \in Places
      BY <1>2 DEF Calls, Places
    <3>2. Shape([call[s] EXCEPT !.at = "create"])
      BY <1>2, <2>1, <3>1 DEF Shape, Calls
    <3>3. Proper([call[s] EXCEPT !.at = "create"]) /\ ~Pending([call[s] EXCEPT !.at = "create"])
      BY <1>2, <2>1 DEF Proper, Pending, Calls
    <3>4. QED
      BY <2>1, <2>3, <3>1, <3>2, <3>3, GoesKept
  <2>4. QED
    BY <1>4, <2>2, <2>3 DEF FindFree, Do
<1>5. CASE Create(s)
  <2>1. UNCHANGED stored /\ call[s].op = "Register" /\ call[s].at = "create"
    BY <1>2, <1>5 DEF Create, redis, Shape, Calls, Ops
  <2>2. CASE Generate(s, "set")
    BY <2>1, <2>2, GenerateKept
  <2>3. CASE Fails(s) /\ UNCHANGED owner
    BY <2>1, <2>3, FailsKept
  <2>4. QED
    BY <1>5, <2>2, <2>3 DEF Create, Do
<1>6. CASE Store(s)
  <2>1. UNCHANGED owner /\ Pending(call[s]) /\ call[s].at = "set"
    BY <1>6 DEF Store, Pending
  <2>2. CASE SetSession(call[s].new, call[s].user) /\ Returns(s, "done")
    <3>1. /\ stored' = [stored EXCEPT ![call[s].new] = call[s].user]
          /\ call[s].new \in Tokens /\ stored[call[s].new] = NoUser
      BY <1>2, <2>1, <2>2 DEF SetSession, Proper
    <3>2. \A t \in Tokens : t # call[s].new => stored'[t] = stored[t]
      BY <1>1, <3>1 DEF TypeOK
    <3>3. stored'[call[s].new] = call[s].user
      BY <1>1, <3>1 DEF TypeOK
    <3>4. \A r \in Slots \ {s} : Pending(call[r]) => call[r].new # call[s].new /\ call[r].new \in Tokens
      BY <1>1, <2>1 DEF Distinct, TokensOK, Proper
    <3>5. Recorded(s)
      BY <2>1, <3>1, <3>2, <3>4 DEF Recorded
    <3>6. /\ CallsOK' /\ TokensOK' /\ Distinct'
          /\ \A c \in Conns, r \in Slots : call'[r].by = c <=> call[r].by = c
      BY <2>1, <2>2, <3>1, <3>3, <3>5, ReturnsTurn
    <3>7. QED
      BY <1>1, <2>1, <3>6 DEF CallsKept, TypeOK
  <2>3. CASE Fails(s) /\ UNCHANGED <<stored, left>>
    BY <2>1, <2>3, FailsKept
  <2>4. QED
    BY <1>6, <2>2, <2>3 DEF Store, Do
<1>7. CASE Claims(s)
  <2>1. UNCHANGED stored /\ call[s].op = "RefreshToken" /\ call[s].at = "claims"
    BY <1>2, <1>7 DEF Claims, redis, Shape, Calls, Ops
  <2>2. CASE owner[call[s].token] = call[s].user /\ Generate(s, "delete")
    BY <2>1, <2>2, GenerateKept
  <2>3. CASE Fails(s) /\ UNCHANGED owner
    BY <2>1, <2>3, FailsKept
  <2>4. QED
    BY <1>7, <2>2, <2>3 DEF Claims
<1>8. CASE Delete(s)
  <2>1. UNCHANGED <<owner, stored>> /\ call[s].at = "delete"
    BY <1>8 DEF Delete
  <2>2. CASE call[s].op = "Logout"
    <3>1. Goes(s, "offline") /\ "offline" \in Places
      BY <1>8, <2>2 DEF Delete, Places
    <3>2. Shape([call[s] EXCEPT !.at = "offline"])
      BY <1>2, <2>1, <2>2 DEF Shape, Calls
    <3>3. Proper([call[s] EXCEPT !.at = "offline"]) /\ ~Pending([call[s] EXCEPT !.at = "offline"])
      BY <1>2, <2>1, <2>2 DEF Proper, Pending, Calls
    <3>4. QED
      BY <2>1, <3>1, <3>2, <3>3, GoesKept
  <2>3. CASE call[s].op # "Logout"
    <3>1. Goes(s, "set") /\ "set" \in Places
      BY <1>8, <2>3 DEF Delete, Places
    <3>2. call[s].op = "RefreshToken" /\ Pending(call[s])
      BY <1>2, <2>1, <2>3 DEF Shape, Calls, Ops, Pending
    <3>3. Shape([call[s] EXCEPT !.at = "set"])
      BY <1>2, <2>1, <3>2 DEF Shape, Calls
    <3>4. Proper([call[s] EXCEPT !.at = "set"])
      BY <1>2, <2>1, <3>2 DEF Proper, Pending, Calls
    <3>5. QED
      BY <2>1, <3>1, <3>2, <3>3, <3>4, GoesKept
  <2>4. QED
    BY <2>2, <2>3
<1>9. CASE Offline(s) \/ Touch(s)
  <2>1. /\ UNCHANGED <<owner, stored>> /\ Returns(s, "done")
        /\ call[s].at \in {"offline", "touch"}
    BY <1>9 DEF Offline, Touch
  <2>2. call[s].by \notin Conns
    BY <1>2, <2>1 DEF Shape, Calls, Ops
  <2>3. Recorded(s)
    BY <2>1 DEF Recorded
  <2>4. /\ CallsOK' /\ TokensOK' /\ Distinct'
        /\ \A c \in Conns, r \in Slots : call'[r].by = c <=> call[r].by = c
    BY <2>1, <2>2, <2>3, ReturnsTurn
  <2>5. QED
    BY <1>1, <2>1, <2>4 DEF CallsKept, TypeOK
<1>10. CASE Validate(s)
  <2>1. UNCHANGED <<owner, stored>> /\ call[s].op = "Validate" /\ call[s].at = "get"
    BY <1>2, <1>10 DEF Validate, redis, Shape, Calls, Ops
  <2>2. CASE Goes(s, "touch")
    <3>1. "touch" \in Places
      BY DEF Places
    <3>2. Shape([call[s] EXCEPT !.at = "touch"])
      BY <1>2, <2>1 DEF Shape, Calls
    <3>3. Proper([call[s] EXCEPT !.at = "touch"]) /\ ~Pending([call[s] EXCEPT !.at = "touch"])
      BY <1>2, <2>1 DEF Proper, Pending, Calls
    <3>4. QED
      BY <2>1, <2>2, <3>1, <3>2, <3>3, GoesKept
  <2>3. CASE Fails(s)
    BY <2>1, <2>3, FailsKept
  <2>4. QED
    BY <1>10, <2>2, <2>3 DEF Validate
<1>11. QED
  BY <1>3, <1>4, <1>5, <1>6, <1>7, <1>8, <1>9, <1>10 DEF Work

(* A step of the login server stores at most the call's own new token, and *)
(* gives it to nobody but the call's client.                               *)
LEMMA WorkStores ==
  ASSUME IInv, NEW s \in Slots, Work(s)
  PROVE  /\ UNCHANGED <<conn, pc, direct>>
         /\ \/ stored' = stored /\ held' = held
            \/ /\ Pending(call[s]) /\ SetSession(call[s].new, call[s].user)
               /\ held' = held \/ (call[s].by \in Users /\ Give(call[s].by, call[s].new))
<1>1. CallsOK /\ TokensOK
  BY DEF IInv
<1>2. call[s] \in Calls /\ Shape(call[s])
  BY <1>1 DEF CallsOK
<1>3. Fails(s) => held' = held
  BY DEF Fails, Returns
<1>4. CASE Find(s)
  BY <1>3, <1>4 DEF Find, redis, Generate
<1>5. CASE FindFree(s)
  BY <1>3, <1>5 DEF FindFree, Do, redis, Goes
<1>6. CASE Create(s)
  BY <1>3, <1>6 DEF Create, Do, redis, Generate
<1>7. CASE Store(s)
  BY <1>3, <1>7 DEF Store, Do, Returns, Pending
<1>8. CASE Claims(s)
  BY <1>3, <1>8 DEF Claims, redis, Generate
<1>9. CASE Delete(s)
  BY <1>9 DEF Delete, Goes
<1>10. CASE Offline(s) \/ Touch(s)
  <2>1. call[s].new = NoToken
    BY <1>2, <1>10, FreeCall DEF Offline, Touch, Shape, Calls, Ops
  <2>2. QED
    BY <1>10, <2>1 DEF Offline, Touch, Returns
<1>11. CASE Validate(s)
  BY <1>3, <1>11 DEF Validate, redis, Goes
<1>12. QED
  BY <1>4, <1>5, <1>6, <1>7, <1>8, <1>9, <1>10, <1>11 DEF Work

(* A step of the login server keeps the types of accounts, of the times to *)
(* live and of the fault count.                                            *)
LEMMA WorkTypes ==
  ASSUME IInv, NEW s \in Slots, Work(s)
  PROVE  /\ accounts' \in [Users -> 0..1] /\ left' \in [Tokens -> 0..SessionLife]
         /\ online' \in [Users -> 0..OnlineLife] /\ faults' \in 0..MaxFaults
<1> USE SessionsAssumption DEF SessionLife, OnlineLife
<1>1. /\ accounts \in [Users -> 0..1] /\ left \in [Tokens -> 0..SessionLife]
      /\ online \in [Users -> 0..OnlineLife] /\ faults \in 0..MaxFaults
  BY DEF IInv, TypeOK
<1>2. Fault => faults' \in 0..MaxFaults
  BY <1>1 DEF Fault
<1>3. CASE Find(s) \/ Claims(s) \/ Validate(s)
  BY <1>1, <1>3 DEF Find, Claims, Validate, redis
<1>4. CASE FindFree(s)
  BY <1>1, <1>2, <1>4 DEF FindFree, Do, redis
<1>5. CASE Create(s)
  BY <1>1, <1>2, <1>5 DEF Create, Do, redis, CreateContext
<1>6. CASE Store(s)
  BY <1>1, <1>2, <1>6 DEF Store, Do, SetSession
<1>7. CASE Delete(s)
  BY <1>1, <1>2, <1>7 DEF Delete, Do, DeleteSession
<1>8. CASE Offline(s)
  BY <1>1, <1>2, <1>8 DEF Offline, Do, SetOffline
<1>9. CASE Touch(s)
  BY <1>1, <1>2, <1>9 DEF Touch, Do, RefreshSession
<1>10. QED
  BY <1>3, <1>4, <1>5, <1>6, <1>7, <1>8, <1>9 DEF Work

(* A token that is given to its user, or stored for it, keeps the session  *)
(* of everybody else what it was.                                          *)
LEMMA StoreOwn ==
  ASSUME IInv, NEW t \in Tokens, NEW u \in Users, stored[t] = NoUser, owner[t] = u,
         stored' = [stored EXCEPT ![t] = u], owner' = owner, conn' = conn,
         held' = held \/ Give(u, t)
  PROVE  /\ Signed' /\ OwnSessions' /\ held' \in [Users -> SUBSET Tokens]
         /\ stored' \in [Tokens -> Users \cup {NoUser}]
<1>1. TypeOK /\ Signed /\ OwnSessions
  BY DEF IInv
<1>2. stored' \in [Tokens -> Users \cup {NoUser}] /\ held' \in [Users -> SUBSET Tokens]
  BY <1>1 DEF TypeOK, Give
<1>3. Signed'
  BY <1>1 DEF Signed, TypeOK
<1>4. \A v \in Users : \A x \in held'[v] : stored'[x] = v
  <2> SUFFICES ASSUME NEW v \in Users, NEW x \in held'[v] PROVE stored'[x] = v
    OBVIOUS
  <2>1. CASE x = t /\ v = u
    BY <1>1, <2>1 DEF TypeOK
  <2>2. CASE ~(x = t /\ v = u)
    <3>1. x \in held[v]
      BY <1>1, <2>2 DEF Give, TypeOK
    <3>2. x \in Tokens /\ stored[x] = v
      BY <1>1, <3>1 DEF OwnSessions, TypeOK
    <3>3. x # t
      BY <3>2, SessionsAssumption
    <3>4. QED
      BY <1>1, <3>2, <3>3 DEF TypeOK
  <2>3. QED
    BY <2>1, <2>2
<1>5. \A c \in Conns : conn[c].session # NoToken => stored'[conn[c].session] = conn[c].user
  <2> SUFFICES ASSUME NEW c \in Conns, conn[c].session # NoToken
               PROVE  stored'[conn[c].session] = conn[c].user
    OBVIOUS
  <2>1. conn[c].session \in Tokens /\ stored[conn[c].session] = conn[c].user /\ conn[c].user \in Users
    BY <1>1 DEF OwnSessions, TypeOK
  <2>2. conn[c].session # t
    BY <2>1, SessionsAssumption
  <2>3. QED
    BY <1>1, <2>1, <2>2 DEF TypeOK
<1>6. OwnSessions'
  BY <1>4, <1>5 DEF OwnSessions
<1>7. QED
  BY <1>2, <1>3, <1>6

(* Every step of the login server keeps the inductive invariant.           *)
LEMMA WorkStep ==
  ASSUME IInv, NEW s \in Slots, Work(s)
  PROVE  IInv'
<1>1. TypeOK /\ CallsOK /\ TokensOK /\ Distinct /\ Signed /\ OwnSessions /\ CallsKept
  BY WorkCalls DEF IInv
<1>2. /\ Signed' /\ OwnSessions' /\ held' \in [Users -> SUBSET Tokens]
      /\ stored' \in [Tokens -> Users \cup {NoUser}] /\ UNCHANGED <<conn, pc, direct>>
  <2>1. UNCHANGED <<conn, pc, direct>>
    BY WorkStores
  <2>2. CASE stored' = stored /\ held' = held
    <3>1. OwnSessions'
      BY <1>1, <2>1, <2>2 DEF OwnSessions
    <3>2. Signed'
      BY <1>1, <2>2 DEF Signed, CallsKept
    <3>3. QED
      BY <1>1, <2>1, <2>2, <3>1, <3>2 DEF TypeOK
  <2>3. CASE /\ Pending(call[s]) /\ SetSession(call[s].new, call[s].user)
             /\ held' = held \/ (call[s].by \in Users /\ Give(call[s].by, call[s].new))
    <3>1. /\ call[s].new \in Tokens /\ owner[call[s].new] = call[s].user
          /\ stored[call[s].new] = NoUser
          /\ call[s].by \in Users => call[s].by = call[s].user
      BY <1>1, <2>3 DEF TokensOK, Proper
    <3>2. call[s].user \in Users
      BY <1>1, <2>3 DEF CallsOK, Shape, Pending
    <3>3. held' = held \/ Give(call[s].user, call[s].new)
      BY <2>3, <3>1
    <3>4. stored' = [stored EXCEPT ![call[s].new] = call[s].user]
      BY <2>3 DEF SetSession
    <3>5. owner' = owner
      <4>1. stored'[call[s].new] = call[s].user
        BY <1>1, <3>1, <3>4 DEF TypeOK
      <4>2. stored' # stored
        BY <3>1, <3>2, <4>1, SessionsAssumption
      <4>3. QED
        BY <4>2
           DEF Work, Find, FindFree, Create, Store, Claims, Delete, Offline, Validate, Touch, redis
    <3>6. QED
      BY <2>1, <3>1, <3>2, <3>3, <3>4, <3>5, StoreOwn
  <2>4. QED
    BY <2>2, <2>3, WorkStores
<1>3. \A c \in Conns : pc'[c] = "login" <=> \E r \in Slots : call'[r].by = c
  BY <1>1, <1>2 DEF TypeOK, CallsKept
<1>4. TypeOK'
  BY <1>1, <1>2, <1>3, WorkTypes DEF TypeOK, CallsKept
<1>5. QED
  BY <1>1, <1>2, <1>4 DEF IInv, CallsKept

-----------------------------------------------------------------------------
(* A direct call arrives with a token that its client was given.           *)
LEMMA DirectStep ==
  ASSUME IInv, NEW s \in Slots, NEW u \in Users, DirectCall(s, u)
  PROVE  IInv'
<1> USE FreeCall
<1>1. TypeOK /\ CallsOK /\ TokensOK /\ Distinct /\ Signed /\ OwnSessions
  BY DEF IInv
<1>2. /\ call[s] = Free /\ direct < MaxDirect /\ direct' = direct + 1
      /\ UNCHANGED <<accounts, owner, stored, left, online, conn, pc, held, faults>>
  BY DEF DirectCall, redis
<1>3. PICK k \in Calls : /\ call' = [call EXCEPT ![s] = k] /\ k.by = u /\ Shape(k) /\ Proper(k)
                         /\ ~Pending(k)
  <2>1. CASE call' = [call EXCEPT ![s] =
               [Free EXCEPT !.op = "Register", !.at = "find", !.user = u, !.by = u]]
    <3> DEFINE k == [Free EXCEPT !.op = "Register", !.at = "find", !.user = u, !.by = u]
    <3>1. k \in Calls /\ call' = [call EXCEPT ![s] = k]
      BY <2>1 DEF Calls, Ops, Places
    <3>2. k.op = "Register" /\ k.at = "find" /\ k.user = u /\ k.by = u
      BY DEF Calls
    <3> HIDE DEF k
    <3>3. Shape(k) /\ Proper(k) /\ ~Pending(k)
      BY <3>2 DEF Shape, Proper, Pending
    <3>4. QED
      BY <3>1, <3>2, <3>3
  <2>2. CASE \E v \in Users, t \in held[u], op \in {"Logout", "Validate", "RefreshToken"} :
               call' = [call EXCEPT ![s] =
                 [Free EXCEPT !.op = op, !.user = v, !.token = t, !.by = u,
                              !.at = CASE op = "Logout" -> "delete"
                                       [] op = "Validate" -> "get"
                                       [] OTHER -> "claims"]]
    <3>0. PICK v \in Users, t \in held[u], op \in {"Logout", "Validate", "RefreshToken"} :
               call' = [call EXCEPT ![s] =
                 [Free EXCEPT !.op = op, !.user = v, !.token = t, !.by = u,
                              !.at = CASE op = "Logout" -> "delete"
                                       [] op = "Validate" -> "get"
                                       [] OTHER -> "claims"]]
      BY <2>2, Zenon
    <3>1. t \in Tokens /\ owner[t] = u
      BY <1>1 DEF TypeOK, OwnSessions, Signed
    <3> DEFINE p == CASE op = "Logout" -> "delete" [] op = "Validate" -> "get" [] OTHER -> "claims"
               k == [Free EXCEPT !.op = op, !.user = v, !.token = t, !.by = u, !.at = p]
    <3>2. /\ op = "Logout" => p = "delete"
          /\ op = "Validate" => p = "get"
          /\ op = "RefreshToken" => p = "claims"
      OBVIOUS
    <3>3. call' = [call EXCEPT ![s] = k]
      BY <3>0
    <3> HIDE DEF p
    <3>4. k \in Calls
      BY <3>1, <3>2 DEF Calls, Ops, Places
    <3>5. /\ k.op = op /\ k.at = p /\ k.user = v /\ k.token = t /\ k.by = u
          /\ k.new = NoToken
      BY DEF Calls
    <3> HIDE DEF k
    <3>6. Shape(k) /\ Proper(k) /\ ~Pending(k)
      BY <3>1, <3>2, <3>5 DEF Shape, Proper, Pending
    <3>7. QED
      BY <3>3, <3>4, <3>5, <3>6
  <2>3. QED
    BY <2>1, <2>2, Zenon DEF DirectCall
<1>4. /\ call' \in [Slots -> Calls] /\ call'[s] = k
      /\ \A r \in Slots \ {s} : call'[r] = call[r]
  BY <1>1, <1>3 DEF CallsOK
<1>5. Proper(call[s])'
  BY <1>2, <1>3, <1>4 DEF Proper, Pending
<1>6. Turn(s) /\ Recorded(s)
  BY <1>2, <1>3, <1>4, <1>5 DEF Turn, Recorded
<1>7. CallsOK' /\ TokensOK' /\ Distinct'
  BY <1>6, Turned
<1>8. \A c \in Conns, r \in Slots : call'[r].by = c <=> call[r].by = c
  BY <1>2, <1>3, <1>4
<1>9. TypeOK'
  BY <1>1, <1>2, <1>8, SessionsAssumption DEF TypeOK
<1>10. QED
  BY <1>1, <1>2, <1>7, <1>9 DEF IInv, Signed, OwnSessions

-----------------------------------------------------------------------------
Connections == [open : BOOLEAN, user : Users \cup {NoUser}, session : Tokens \cup {NoToken}]

(* A connection that is bound to nobody, or to a user's own session.       *)
Bound(x) ==
  /\ x \in Connections /\ (x.user = NoUser <=> x.session = NoToken)
  /\ x.session # NoToken => stored[x.session] = x.user

(* A step of a connection's handler that leaves tokens and accounts alone, *)
(* gives a token only to its user and waits only for a call of its own.    *)
HandlerKept(c) ==
  /\ UNCHANGED <<accounts, owner, stored>>
  /\ left' \in [Tokens -> 0..SessionLife] /\ online' \in [Users -> 0..OnlineLife]
  /\ direct' = direct /\ faults' \in 0..MaxFaults
  /\ \E x \in Connections : Bound(x) /\ conn' = [conn EXCEPT ![c] = x]
  /\ held' = held \/ \E u \in Users : \E t \in Tokens : stored[t] = u /\ Give(u, t)

(* Closed, and what a connection becomes when its handler concludes.       *)
LEMMA ConcludesBound ==
  ASSUME NEW c \in Conns, NEW x \in Connections, Bound(x), Concludes(c, x)
  PROVE  \E y \in Connections : Bound(y) /\ conn' = [conn EXCEPT ![c] = y]
<1>1. Closed \in Connections /\ Bound(Closed)
  BY DEF Closed, Bound, Connections, NoToken
<1>2. conn' = [conn EXCEPT ![c] = IF x.open THEN x ELSE Closed]
  BY DEF Concludes
<1>3. QED
  BY <1>1, <1>2

(* A handler's step keeps everything but the calls and who waits for them. *)
LEMMA HandlerStep ==
  ASSUME IInv, NEW c \in Conns, HandlerKept(c), CallsOK', TokensOK', Distinct',
         pc' \in [Conns -> {"idle", "login", "refresh", "refreshLogout", "logout"}],
         \A d \in Conns : pc'[d] = "login" <=> \E r \in Slots : call'[r].by = d
  PROVE  IInv'
<1> USE FreeCall
<1>1. TypeOK /\ Signed /\ OwnSessions
  BY DEF IInv
<1>2. PICK x \in Connections : Bound(x) /\ conn' = [conn EXCEPT ![c] = x]
  BY DEF HandlerKept
<1>3. /\ UNCHANGED <<accounts, owner, stored>>
      /\ left' \in [Tokens -> 0..SessionLife] /\ online' \in [Users -> 0..OnlineLife]
      /\ direct' = direct /\ faults' \in 0..MaxFaults
  BY DEF HandlerKept
<1>4. /\ conn' \in [Conns -> Connections]
      /\ \A d \in Conns : conn'[d].user = NoUser <=> conn'[d].session = NoToken
      /\ \A d \in Conns : conn'[d].session # NoToken => stored'[conn'[d].session] = conn'[d].user
  BY <1>1, <1>2, <1>3 DEF TypeOK, OwnSessions, Bound, Connections
<1>5. /\ held' \in [Users -> SUBSET Tokens]
      /\ \A u \in Users : \A t \in held'[u] : stored'[t] = u
  <2>1. CASE held' = held
    BY <1>1, <1>3, <2>1 DEF TypeOK, OwnSessions
  <2>2. CASE \E u \in Users : \E t \in Tokens : stored[t] = u /\ Give(u, t)
    BY <1>1, <1>3, <2>2 DEF TypeOK, OwnSessions, Give
  <2>3. QED
    BY <2>1, <2>2 DEF HandlerKept
<1>6. TypeOK'
  BY <1>1, <1>3, <1>4, <1>5 DEF TypeOK, Connections
<1>7. Signed' /\ OwnSessions'
  BY <1>1, <1>3, <1>4, <1>5 DEF Signed, OwnSessions
<1>8. QED
  BY <1>6, <1>7 DEF IInv

(* Every connection is bound as OwnSessions says.                          *)
LEMMA ConnBound == IInv => \A c \in Conns : conn[c] \in Connections /\ Bound(conn[c])
BY DEF IInv, TypeOK, OwnSessions, Bound, Connections

(* Accept, Drop, Request, Refresh and Logout neither start nor end a call. *)
LEMMA GatewayStep ==
  ASSUME IInv, NEW c \in Conns, Accept(c) \/ Drop(c) \/ Request(c) \/ Refresh(c) \/ Logout(c)
  PROVE  IInv'
<1> USE FreeCall
<1>1. TypeOK /\ CallsOK /\ TokensOK /\ Distinct
  BY DEF IInv
<1>2. conn[c] \in Connections /\ Bound(conn[c]) /\ Closed \in Connections /\ Bound(Closed)
  <2>1. Closed \in Connections /\ Bound(Closed)
    BY DEF Closed, Bound, Connections, NoToken
  <2>2. QED
    BY <2>1, ConnBound
<1>3. UNCHANGED <<accounts, owner, stored, call, direct>>
  BY DEF Accept, Drop, Request, Refresh, Logout, redis
<1>4. CallsOK' /\ TokensOK' /\ Distinct'
  BY <1>1, <1>3 DEF CallsOK, TokensOK, Distinct, Proper, Pending
<1>5. /\ held' = held /\ left' \in [Tokens -> 0..SessionLife]
      /\ online' \in [Users -> 0..OnlineLife] /\ faults' \in 0..MaxFaults
  <2> USE SessionsAssumption DEF SessionLife, OnlineLife
  <2>1. CASE Accept(c) \/ Drop(c) \/ Request(c)
    BY <1>1, <2>1 DEF TypeOK, Accept, Drop, Request, redis
  <2>2. CASE Refresh(c)
    BY <1>1, <2>2 DEF TypeOK, Refresh, Do, RefreshSession, Fault
  <2>3. CASE Logout(c)
    BY <1>1, <2>3 DEF TypeOK, Logout, Do, SetOffline, Fault
  <2>4. QED
    BY <2>1, <2>2, <2>3
<1>6. \E x \in Connections : Bound(x) /\ conn' = [conn EXCEPT ![c] = x]
  <2>1. CASE Accept(c)
    <3>1. [conn[c] EXCEPT !.open = TRUE] \in Connections /\ Bound([conn[c] EXCEPT !.open = TRUE])
      BY <1>2 DEF Connections, Bound
    <3>2. conn' = [conn EXCEPT ![c] = [conn[c] EXCEPT !.open = TRUE]]
      BY <2>1 DEF Accept
    <3>3. QED
      BY <3>1, <3>2
  <2>2. CASE Drop(c)
    <3>1. [conn[c] EXCEPT !.open = FALSE] \in Connections /\ Bound([conn[c] EXCEPT !.open = FALSE])
      BY <1>2 DEF Connections, Bound
    <3>2. \/ conn' = [conn EXCEPT ![c] = [conn[c] EXCEPT !.open = FALSE]]
          \/ conn' = [conn EXCEPT ![c] = Closed]
      BY <2>2 DEF Drop
    <3>3. QED
      BY <1>2, <3>1, <3>2
  <2>3. CASE conn' = conn
    <3>1. conn' = [conn EXCEPT ![c] = conn[c]]
      BY <1>1, <2>3 DEF TypeOK
    <3>2. QED
      BY <1>2, <3>1
  <2>4. CASE Request(c)
    BY <2>3, <2>4 DEF Request
  <2>5. CASE Refresh(c)
    BY <1>2, <2>3, <2>5, ConcludesBound DEF Refresh, Validated
  <2>6. CASE Logout(c)
    BY <1>2, <2>6, ConcludesBound DEF Logout
  <2>7. QED
    BY <2>1, <2>2, <2>4, <2>5, <2>6
<1>7. /\ pc' \in [Conns -> {"idle", "login", "refresh", "refreshLogout", "logout"}]
      /\ \A d \in Conns : pc'[d] = "login" <=> pc[d] = "login"
  BY <1>1 DEF TypeOK, Accept, Drop, Request, Refresh, Logout, Validated, Concludes
<1>8. \A d \in Conns : pc'[d] = "login" <=> \E r \in Slots : call'[r].by = d
  BY <1>1, <1>3, <1>7 DEF TypeOK
<1>9. HandlerKept(c)
  BY <1>3, <1>5, <1>6 DEF HandlerKept
<1>10. QED
  BY <1>4, <1>7, <1>8, <1>9, HandlerStep

(* LoginRequest: the handler waits for the call it puts in a free slot.    *)
LEMMA RequestStep ==
  ASSUME IInv, NEW c \in Conns, NEW u \in Users, NEW s \in Slots, LoginRequest(c, u, s)
  PROVE  IInv'
<1> USE FreeCall
<1>1. TypeOK /\ CallsOK /\ TokensOK /\ Distinct
  BY DEF IInv
<1>2. /\ pc[c] = "idle" /\ call[s] = Free /\ pc' = [pc EXCEPT ![c] = "login"]
      /\ UNCHANGED <<accounts, owner, stored, left, online, conn, held, direct, faults>>
  BY DEF LoginRequest, redis
<1> DEFINE k == [Free EXCEPT !.op = "Login", !.at = "find", !.user = u, !.by = c]
<1>3. k \in Calls /\ call' = [call EXCEPT ![s] = k]
  BY DEF Calls, Ops, Places, LoginRequest
<1>4. k.op = "Login" /\ k.at = "find" /\ k.user = u /\ k.by = c
  BY DEF Calls
<1> HIDE DEF k
<1>5. /\ call' \in [Slots -> Calls] /\ call'[s] = k
      /\ \A r \in Slots \ {s} : call'[r] = call[r]
  BY <1>1, <1>3 DEF CallsOK
<1>6. Shape(k) /\ Proper(call[s])' /\ ~Pending(k)
  BY <1>4, <1>5 DEF Shape, Proper, Pending
<1>7. \A r \in Slots : call[r].by # c
  BY <1>1, <1>2 DEF TypeOK
<1>8. Turn(s) /\ Recorded(s)
  BY <1>2, <1>4, <1>5, <1>6, <1>7 DEF Turn, Recorded
<1>9. CallsOK' /\ TokensOK' /\ Distinct'
  BY <1>8, Turned
<1>10. \A d \in Conns : pc'[d] = "login" <=> \E r \in Slots : call'[r].by = d
  <2> SUFFICES ASSUME NEW d \in Conns
               PROVE  pc'[d] = "login" <=> \E r \in Slots : call'[r].by = d
    OBVIOUS
  <2>1. CASE d = c
    BY <1>1, <1>2, <1>4, <1>5, <2>1 DEF TypeOK
  <2>2. CASE d # c
    <3>1. \A r \in Slots : call'[r].by = d <=> call[r].by = d
      BY <1>2, <1>4, <1>5, <2>2
    <3>2. QED
      BY <1>1, <1>2, <2>2, <3>1 DEF TypeOK
  <2>3. QED
    BY <2>1, <2>2
<1>11. pc' \in [Conns -> {"idle", "login", "refresh", "refreshLogout", "logout"}]
  BY <1>1, <1>2 DEF TypeOK
<1>12. HandlerKept(c)
  <2>1. conn' = [conn EXCEPT ![c] = conn[c]]
    BY <1>1, <1>2 DEF TypeOK
  <2>2. QED
    BY <1>1, <1>2, <2>1, ConnBound DEF HandlerKept, TypeOK
<1>13. QED
  BY <1>9, <1>10, <1>11, <1>12, HandlerStep

(* A call that nobody waits for any more, in the slot of one that the      *)
(* handler of c waited for: the handler's step keeps the invariant.        *)
LEMMA Answered ==
  ASSUME IInv, NEW c \in Conns, NEW s \in Slots, NEW k \in Calls,
         call[s].by = c, pc' = [pc EXCEPT ![c] = "idle"], HandlerKept(c),
         call' = [call EXCEPT ![s] = k], k.by = NoCall, Shape(k), Proper(k),
         Pending(k) => Pending(call[s]) /\ k.new = call[s].new
  PROVE  IInv'
<1> USE FreeCall
<1>1. TypeOK /\ CallsOK /\ TokensOK /\ Distinct /\ UNCHANGED <<owner, stored>>
  BY DEF IInv, HandlerKept
<1>2. /\ call' \in [Slots -> Calls] /\ call'[s] = k
      /\ \A r \in Slots \ {s} : call'[r] = call[r]
  BY <1>1 DEF CallsOK
<1>3. Proper(call[s])'
  BY <1>1, <1>2 DEF Proper, Pending
<1>4. Recorded(s)
  BY <1>1 DEF Recorded
<1>5. Turn(s)
  BY <1>1, <1>2, <1>3 DEF Turn, Distinct
<1>6. CallsOK' /\ TokensOK' /\ Distinct'
  BY <1>4, <1>5, Turned
<1>7. \A d \in Conns : pc'[d] = "login" <=> \E r \in Slots : call'[r].by = d
  <2> SUFFICES ASSUME NEW d \in Conns
               PROVE  pc'[d] = "login" <=> \E r \in Slots : call'[r].by = d
    OBVIOUS
  <2>1. CASE d = c
    <3>1. \A r \in Slots \ {s} : call[r].by # c
      BY <1>1 DEF Distinct
    <3>2. QED
      BY <1>1, <1>2, <2>1, <3>1 DEF TypeOK
  <2>2. CASE d # c
    <3>1. \A r \in Slots : call'[r].by = d <=> call[r].by = d
      BY <1>2, <2>2
    <3>2. QED
      BY <1>1, <2>2, <3>1 DEF TypeOK
  <2>3. QED
    BY <2>1, <2>2
<1>8. pc' \in [Conns -> {"idle", "login", "refresh", "refreshLogout", "logout"}]
  BY <1>1 DEF TypeOK
<1>9. QED
  BY <1>6, <1>7, <1>8, HandlerStep

(* LoginAnswer: the session the connection is bound to is the one stored   *)
(* for the user who logged in.                                             *)
LEMMA AnswerStep ==
  ASSUME IInv, NEW c \in Conns, NEW s \in Slots, LoginAnswer(c, s)
  PROVE  IInv'
<1> USE FreeCall
<1>1. TypeOK /\ CallsOK /\ TokensOK
  BY DEF IInv
<1>2. call[s] \in Calls /\ Shape(call[s]) /\ Proper(call[s]) /\ call[s].by = c
  BY <1>1 DEF CallsOK, TokensOK, LoginAnswer
<1>3. /\ UNCHANGED <<accounts, owner, stored, left, direct>> /\ call' = [call EXCEPT ![s] = Free]
  BY DEF LoginAnswer
<1>4. conn[c] \in Connections /\ Bound(conn[c])
  BY ConnBound
<1>5. HandlerKept(c) /\ pc' = [pc EXCEPT ![c] = "idle"]
  <2>1. CASE /\ call[s].at = "done"
             /\ Do(SetOnline(call[s].user), UNCHANGED online)
             /\ IF conn[c].open THEN Give(call[s].user, call[s].new) ELSE UNCHANGED held
             /\ Concludes(c, [conn[c] EXCEPT !.user = call[s].user, !.session = call[s].new])
    <3>1. /\ call[s].new \in Tokens /\ stored[call[s].new] = call[s].user
          /\ call[s].user \in Users
      BY <1>2, <2>1 DEF Proper, Shape
    <3> DEFINE x == [conn[c] EXCEPT !.user = call[s].user, !.session = call[s].new]
    <3>2. x \in Connections /\ Bound(x)
      BY <1>4, <3>1 DEF Connections, Bound
    <3>3. \E y \in Connections : Bound(y) /\ conn' = [conn EXCEPT ![c] = y]
      BY <2>1, <3>2, ConcludesBound
    <3>4. online' \in [Users -> 0..OnlineLife] /\ faults' \in 0..MaxFaults
      BY <1>1, <2>1, SessionsAssumption DEF TypeOK, Do, SetOnline, Fault, OnlineLife
    <3>5. held' = held \/ \E u \in Users : \E t \in Tokens : stored[t] = u /\ Give(u, t)
      BY <2>1, <3>1
    <3>6. QED
      BY <1>1, <1>3, <2>1, <3>3, <3>4, <3>5 DEF HandlerKept, Concludes, TypeOK
  <2>2. CASE call[s].at = "failed" /\ Concludes(c, conn[c]) /\ UNCHANGED <<online, held, faults>>
    <3>1. \E y \in Connections : Bound(y) /\ conn' = [conn EXCEPT ![c] = y]
      BY <1>4, <2>2, ConcludesBound
    <3>2. QED
      BY <1>1, <1>3, <2>2, <3>1 DEF HandlerKept, Concludes, TypeOK
  <2>3. QED
    BY <2>1, <2>2 DEF LoginAnswer
<1>6. QED
  BY <1>2, <1>3, <1>5, Answered

(* LoginTimeout: the call goes on with nobody to answer to.                *)
LEMMA TimeoutStep ==
  ASSUME IInv, NEW c \in Conns, NEW s \in Slots, LoginTimeout(c, s)
  PROVE  IInv'
<1> USE FreeCall
<1>1. TypeOK /\ CallsOK /\ TokensOK
  BY DEF IInv
<1>2. call[s] \in Calls /\ Shape(call[s]) /\ Proper(call[s]) /\ call[s].by = c
  BY <1>1 DEF CallsOK, TokensOK, LoginTimeout
<1>3. /\ UNCHANGED <<accounts, owner, stored, left, online, held, direct, faults>>
      /\ Concludes(c, conn[c]) /\ pc' = [pc EXCEPT ![c] = "idle"]
  BY DEF LoginTimeout, redis, Concludes
<1>4. HandlerKept(c)
  <2>1. \E y \in Connections : Bound(y) /\ conn' = [conn EXCEPT ![c] = y]
    BY <1>3, ConnBound, ConcludesBound
  <2>2. QED
    BY <1>1, <1>3, <2>1 DEF HandlerKept, TypeOK
<1>5. CASE call[s].at \in {"done", "failed"}
  <2>1. call' = [call EXCEPT ![s] = Free]
    BY <1>5 DEF LoginTimeout
  <2>2. QED
    BY <1>2, <1>3, <1>4, <2>1, Answered
<1>6. CASE call[s].at \notin {"done", "failed"}
  <2> DEFINE k == [call[s] EXCEPT !.by = NoCall]
  <2>1. call' = [call EXCEPT ![s] = k] /\ k \in Calls
    BY <1>2, <1>6 DEF LoginTimeout, Calls
  <2>2. /\ k.by = NoCall /\ k.op = call[s].op /\ k.at = call[s].at /\ k.user = call[s].user
        /\ k.token = call[s].token /\ k.new = call[s].new
    BY <1>2 DEF Calls
  <2>3. call[s].op = "Login"
    BY <1>2 DEF Shape, Calls, Ops
  <2> HIDE DEF k
  <2>4. Shape(k) /\ Proper(k) /\ (Pending(k) => Pending(call[s]))
    BY <1>2, <1>6, <2>2, <2>3 DEF Shape, Proper, Pending
  <2>5. QED
    BY <1>2, <1>3, <1>4, <2>1, <2>2, <2>4, Answered
<1>7. QED
  BY <1>5, <1>6

(* Time that passes in Redis touches nothing but the times to live.        *)
LEMMA TickStep == IInv /\ Tick => IInv'
<1> SUFFICES ASSUME IInv, Tick PROVE IInv'
  OBVIOUS
<1>1. TypeOK
  BY DEF IInv
<1>2. left' \in [Tokens -> 0..SessionLife] /\ online' \in [Users -> 0..OnlineLife]
  BY <1>1 DEF TypeOK, Tick, Less, SessionLife, OnlineLife
<1>3. UNCHANGED <<accounts, owner, stored, conn, pc, call, held, direct, faults>>
  BY DEF Tick
<1>4. QED
  BY <1>1, <1>2, <1>3
     DEF IInv, TypeOK, CallsOK, TokensOK, Proper, Pending, Distinct, Signed, OwnSessions

-----------------------------------------------------------------------------
(* The inductive invariant holds in every reachable state, for any number  *)
(* of connections, calls, users and tokens.                                *)
THEOREM Invariance == Spec => []IInv
<1>1. Init => IInv
  BY InitInv
<1>2. IInv /\ [Next]_vars => IInv'
  <2> SUFFICES ASSUME IInv, [Next]_vars PROVE IInv'
    OBVIOUS
  <2>1. CASE UNCHANGED vars
    BY <2>1 DEF vars, redis, IInv, TypeOK, CallsOK, TokensOK, Proper, Pending, Distinct, Signed,
               OwnSessions
  <2>2. QED
    BY <2>1, GatewayStep, RequestStep, AnswerStep, TimeoutStep, DirectStep, WorkStep, TickStep
       DEF Next, Handler
<1>3. QED
  BY <1>1, <1>2, PTL DEF Spec

(* The variables keep their types; a user name never has two accounts, and *)
(* exactly the handlers that wait for a login are waited on by a call.     *)
THEOREM TypeCorrect == Spec => []TypeOK
<1>1. IInv => TypeOK
  BY DEF IInv
<1>2. QED
  BY <1>1, Invariance, PTL

(* No client is given, and no connection bound to, the session of another  *)
(* user, however logins, timeouts and refreshed tokens interleave.         *)
THEOREM SessionsAreOwn == Spec => []OwnSessions
<1>1. IInv => OwnSessions
  BY DEF IInv
<1>2. QED
  BY <1>1, Invariance, PTL

(* A session that was deleted or ran out is never there again: a token is  *)
(* stored once, and a refresh has no effect on a key that is gone.         *)
THEOREM DeadStayDeadAlways == Spec => DeadStayDead
<1>1. IInv /\ [Next]_vars => [\A t \in Tokens : stored[t] # NoUser /\ left[t] = 0 => left'[t] = 0]_vars
  <2> SUFFICES ASSUME IInv, Next, NEW t \in Tokens, stored[t] # NoUser, left[t] = 0
               PROVE  left'[t] = 0
    OBVIOUS
  <2>1. TypeOK /\ TokensOK
    BY DEF IInv
  <2>2. CASE left' = left
    BY <2>2
  <2>3. ASSUME NEW x, RefreshSession(x) \/ DeleteSession(x) PROVE left'[t] = 0
    BY <2>1, <2>3 DEF RefreshSession, DeleteSession, TypeOK
  <2>4. ASSUME NEW s \in Slots, Store(s) PROVE left'[t] = 0
    <3>1. stored[call[s].new] = NoUser
      BY <2>1, <2>4 DEF TokensOK, Proper, Pending, Store
    <3>2. QED
      BY <2>1, <2>4, <3>1 DEF Store, Do, SetSession, TypeOK
  <2>5. CASE Tick
    BY <2>1, <2>5 DEF Tick, Less
  <2>6. ASSUME NEW s \in Slots, Work(s) PROVE left'[t] = 0
    BY <2>2, <2>3, <2>4, <2>6
       DEF Work, Find, FindFree, Create, Claims, Delete, Do, Offline, Validate, Touch, redis
  <2>7. ASSUME NEW c \in Conns, Accept(c) \/ Drop(c) \/ Request(c) \/ Handler(c) PROVE left'[t] = 0
    BY <2>2, <2>3, <2>7
       DEF Accept, Drop, Request, Handler, Refresh, Do, Logout, LoginAnswer, LoginTimeout, redis
  <2>8. QED
    BY <2>2, <2>5, <2>6, <2>7 DEF Next, LoginRequest, DirectCall, redis
<1>2. QED
  BY <1>1, Invariance, PTL DEF Spec, DeadStayDead
=============================================================================
