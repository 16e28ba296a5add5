------------------------------ MODULE RpcPool ------------------------------
(***************************************************************************)
(* RPCConnectionPool of internal/rpc/rpc.go as the gateway uses it: a       *)
(* channel of idle clients and a counter of the clients created, both      *)
(* without a lock around the pair, so that Get's "none idle, may I create  *)
(* one?" is two reads and the counter follows the dial.  A client may lose  *)
(* its connection at any time.                                             *)
(***************************************************************************)
EXTENDS Integers, Sequences, FiniteSets

CONSTANTS
  Users,     \* the gateway's goroutines that log somebody in
  MaxSize,   \* NewRPCConnectionPool's maxSize
  MaxDials,  \* bound: clients ever connected
  MaxUses    \* bound: how often each user gets a client

ASSUME ConstantAssumption ==
  /\ IsFiniteSet(Users)
  /\ MaxSize \in Nat \ {0}
  /\ MaxDials \in Nat
  /\ MaxUses \in Nat

Clients  == 1..MaxDials   \* by the order of their dials
NoClient == 0

VARIABLES
  idle,     \* p.pool
  created,  \* p.created
  alive,    \* the clients whose isRunning() holds
  dials,    \* clients connected so far
  closed,   \* Close was called
  pc, held, uses   \* per user: where it is, its client, how often it came

vars == <<idle, created, alive, dials, closed, pc, held, uses>>

Init ==
  /\ idle = <<>> /\ created = 0 /\ alive = {} /\ dials = 0 /\ closed = FALSE
  /\ pc = [u \in Users |-> "out"]
  /\ held = [u \in Users |-> NoClient]
  /\ uses = [u \in Users |-> 0]

At(u, l)   == pc[u] = l
Goto(u, l) == pc' = [pc EXCEPT ![u] = l]

(* A user leaves with an error or without its client.                      *)
Leave(u) == Goto(u, "out") /\ held' = [held EXCEPT ![u] = NoClient]

-----------------------------------------------------------------------------
(* Get.  The gateway closes its pools when its handlers have returned.     *)
Enter(u) ==
  /\ At(u, "out") /\ ~closed
  /\ uses[u] < MaxUses
  /\ uses' = [uses EXCEPT ![u] = @ + 1]
  /\ Goto(u, "get")
  /\ UNCHANGED <<idle, created, alive, dials, closed, held>>

(* The first client in the channel, from either select.                    *)
Take(u) ==
  /\ pc[u] \in {"get", "await"}
  /\ idle # <<>>
  /\ held' = [held EXCEPT ![u] = Head(idle)]
  /\ idle' = Tail(idle)
  /\ Goto(u, "check")
  /\ UNCHANGED <<created, alive, dials, closed, uses>>

(* A client that died while idle is forgotten, and Get starts again.       *)
Check(u) ==
  /\ At(u, "check")
  /\ IF held[u] \in alive
       THEN Goto(u, "use") /\ UNCHANGED <<created, held>>
       ELSE /\ created' = created - 1
            /\ held' = [held EXCEPT ![u] = NoClient]
            /\ Goto(u, "get")
  /\ UNCHANGED <<idle, alive, dials, closed, uses>>

(* The select's default: nobody idle.                                      *)
Miss(u) ==
  /\ At(u, "get")
  /\ idle = <<>>
  /\ Goto(u, "miss")
  /\ UNCHANGED <<idle, created, alive, dials, closed, held, uses>>

(* The counter is read now, and raised only when the dial is done.         *)
Decide(u) ==
  /\ At(u, "miss")
  /\ Goto(u, IF created < MaxSize THEN "dial" ELSE "await")
  /\ UNCHANGED <<idle, created, alive, dials, closed, held, uses>>

Dial(u) ==
  /\ At(u, "dial")
  /\ dials < MaxDials
  /\ dials' = dials + 1
  /\ alive' = alive \cup {dials'}
  /\ held' = [held EXCEPT ![u] = dials']
  /\ Goto(u, "count")
  /\ UNCHANGED <<idle, created, closed, uses>>

DialFail(u) ==
  /\ At(u, "dial")
  /\ Leave(u)
  /\ UNCHANGED <<idle, created, alive, dials, closed, uses>>

Count(u) ==
  /\ At(u, "count")
  /\ created' = created + 1
  /\ Goto(u, "use")
  /\ UNCHANGED <<idle, alive, dials, closed, held, uses>>

(* Mutant: when the timer fires the wait starts again.                     *)
AwaitAgain(u) == At(u, "await") /\ UNCHANGED vars

AwaitTimeout(u) ==
  /\ At(u, "await")
  /\ Leave(u)
  /\ UNCHANGED <<idle, created, alive, dials, closed, uses>>

-----------------------------------------------------------------------------
(* Mutant: a dead client is thrown away uncounted.                         *)
PutForgetsCount(u) ==
  /\ At(u, "use")
  /\ IF held[u] \in alive
       THEN Goto(u, "offer") /\ UNCHANGED held
       ELSE Leave(u)
  /\ UNCHANGED <<idle, created, alive, dials, closed, uses>>

(* The call is made, then the deferred Put, which first looks whether the  *)
(* client still runs.                                                      *)
Put(u) ==
  /\ At(u, "use")
  /\ IF held[u] \in alive
       THEN Goto(u, "offer") /\ UNCHANGED <<created, held>>
       ELSE created' = created - 1 /\ Leave(u)
  /\ UNCHANGED <<idle, alive, dials, closed, uses>>

(* Mutant: the channel takes any number of clients.                        *)
OfferUnbounded(u) ==
  /\ At(u, "offer")
  /\ idle' = Append(idle, held[u])
  /\ Leave(u)
  /\ UNCHANGED <<created, alive, dials, closed, uses>>

(* Mutant: the client that does not fit is not disconnected.               *)
OfferLeaksClient(u) ==
  /\ At(u, "offer")
  /\ IF Len(idle) < MaxSize
       THEN idle' = Append(idle, held[u]) /\ Leave(u)
       ELSE Goto(u, "drop") /\ UNCHANGED <<idle, held>>
  /\ UNCHANGED <<created, alive, dials, closed, uses>>

Offer(u) ==
  /\ At(u, "offer")
  /\ IF Len(idle) < MaxSize
       THEN idle' = Append(idle, held[u]) /\ Leave(u) /\ UNCHANGED alive
       ELSE alive' = alive \ {held[u]} /\ Goto(u, "drop") /\ UNCHANGED <<idle, held>>
  /\ UNCHANGED <<created, dials, closed, uses>>

(* Disconnected because the channel was full; the counter comes last.      *)
Drop(u) ==
  /\ At(u, "drop")
  /\ created' = created - 1
  /\ Leave(u)
  /\ UNCHANGED <<idle, alive, dials, closed, uses>>

-----------------------------------------------------------------------------
(* A connection ends: the peer closes it or nothing is read in time.       *)
Die(k) ==
  /\ k \in alive
  /\ alive' = alive \ {k}
  /\ UNCHANGED <<idle, created, dials, closed, pc, held, uses>>

(* GatewayMessageHandler.Close, after the TCP server has waited for every  *)
(* handler: the idle clients are disconnected, the counter stays.          *)
Close ==
  /\ ~closed
  /\ \A u \in Users : At(u, "out")
  /\ closed' = TRUE
  /\ alive' = alive \ {idle[i] : i \in 1..Len(idle)}
  /\ idle' = <<>>
  /\ UNCHANGED <<created, dials, pc, held, uses>>

-----------------------------------------------------------------------------
UserStep(u) ==
  \/ Take(u) \/ Check(u) \/ Miss(u) \/ Decide(u) \/ Dial(u) \/ DialFail(u) \/ Count(u)
  \/ AwaitTimeout(u) \/ Put(u) \/ Offer(u) \/ Drop(u)

Next ==
  \/ \E u \in Users : Enter(u) \/ UserStep(u)
  \/ \E k \in Clients : Die(k)
  \/ Close

Spec == Init /\ [][Next]_vars

(* Runnable goroutines run, a dial and a call end, the five-second timer   *)
(* fires.                                                                  *)
FairSpec == Spec /\ \A u \in Users : WF_vars(UserStep(u))

-----------------------------------------------------------------------------
UserPC == {"out", "get", "check", "miss", "dial", "count", "await", "use", "offer", "drop"}

(* Types of the variables, and the channel's capacity.                     *)
TypeOK ==
  /\ idle \in Seq(Clients) /\ Len(idle) <= MaxSize
  /\ created \in Int
  /\ alive \in SUBSET Clients
  /\ dials \in 0..MaxDials
  /\ closed \in BOOLEAN
  /\ pc \in [Users -> UserPC]
  /\ held \in [Users -> Clients \cup {NoClient}]
  /\ uses \in [Users -> Nat]

Dialing == {u \in Users : pc[u] \in {"miss", "dial", "count"}}
Counted == {u \in Users : pc[u] \in {"check", "use", "offer", "drop"}}

(* A client has one owner: it is once in the channel or with one user, and *)
(* a client that still runs is with somebody, so no connection is shared   *)
(* by two users or left open behind the pool's back (Get, Put, Close).     *)
OneOwner ==
  /\ \A i, j \in 1..Len(idle) : i # j => idle[i] # idle[j]
  /\ \A u, v \in Users : u # v /\ held[u] = held[v] => held[u] = NoClient
  /\ \A u \in Users, i \in 1..Len(idle) : held[u] # idle[i]
  /\ \A k \in alive : (\E i \in 1..Len(idle) : idle[i] = k) \/ (\E u \in Users : held[u] = k)

(* The counter, which alone decides whether Get may dial, counts the       *)
(* clients idle and in use: dead ones are taken off exactly once, wherever *)
(* they are noticed (Get's two checks, Put's, and Put's full channel).     *)
(* Users that pass the size check together may take the pool beyond        *)
(* MaxSize, but never beyond one connection per user: who dials found the  *)
(* channel empty (Get's select before its check).                          *)
CreatedCounts ==
  ~closed =>
    /\ created = Len(idle) + Cardinality(Counted)
    /\ created + Cardinality(Dialing) <= Cardinality(Users)

(* Every Get returns, and every user puts back what it got (Get's five-    *)
(* second wait; its recursion over dead clients).                          *)
UsersReturn == \A u \in Users : ~At(u, "out") ~> At(u, "out")
=============================================================================
