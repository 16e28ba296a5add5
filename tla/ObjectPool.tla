----------------------------- MODULE ObjectPool -----------------------------
(***************************************************************************)
(* internal/pool/object_pool.go: goroutines that take objects from a       *)
(* GenericPool, fill them and put them back; MessagePool, ActorPool and    *)
(* ConnectionPool are such pools with a reset function.  An object is put  *)
(* back once, by the goroutine that got it.  The counters gotten and put   *)
(* are only reported and left out.                                         *)
(***************************************************************************)
EXTENDS Integers, Sequences, FiniteSets

CONSTANTS
  PoolUsers,   \* goroutines
  PoolMax,     \* GenericPool.maxSize, the capacity of its channel
  MaxObjects,  \* bound: objects the factory makes
  Blank        \* what an object carries after a reset

Objects == 1..MaxObjects

(* Finitely many goroutines, and a capacity; objects are counted.          *)
ASSUME PoolBounds == /\ IsFiniteSet(PoolUsers) /\ PoolUsers # {}
                     /\ PoolMax \in Nat /\ MaxObjects \in Nat

VARIABLES
  idle,    \* GenericPool.pool
  created, \* GenericPool.created
  made,    \* objects the factory has made
  resets,  \* GenericPool.reset does anything: the objects are Resettable
  content, \* the goroutine whose data an object carries
  user     \* what a goroutine does, and with which object

poolVars == <<idle, created, made, resets, content, user>>

NoObject == 0

PoolInit ==
  /\ idle = <<>> /\ created = 0 /\ made = 0
  /\ resets \in BOOLEAN
  /\ content = [o \in Objects |-> Blank]
  /\ user = [u \in PoolUsers |-> [at |-> "out", obj |-> NoObject]]

PoolGoes(u, at, o) == user' = [user EXCEPT ![u] = [at |-> at, obj |-> o]]

(* Get: an idle object if there is one.                                    *)
GetIdle(u) ==
  /\ user[u].at = "out" /\ idle # <<>>
  /\ idle' = Tail(idle) /\ PoolGoes(u, "has", Head(idle))
  /\ UNCHANGED <<created, made, resets, content>>
GetMisses(u) ==
  /\ user[u].at = "out" /\ idle = <<>>
  /\ PoolGoes(u, "missed", NoObject)
  /\ UNCHANGED <<idle, created, made, resets, content>>

(* The test of created and its increment are two operations.               *)
GetChecks(u) ==
  /\ user[u].at = "missed"
  /\ PoolGoes(u, IF created < PoolMax THEN "create" ELSE "wait", NoObject)
  /\ UNCHANGED <<idle, created, made, resets, content>>

(* factory                                                                 *)
Makes(u) ==
  /\ made < MaxObjects /\ made' = made + 1
  /\ PoolGoes(u, "has", made + 1)
GetCreates(u) ==
  /\ user[u].at = "create" /\ created' = created + 1 /\ Makes(u)
  /\ UNCHANGED <<idle, resets, content>>

(* For 100 ms a waiting Get takes what is put back; then it makes an       *)
(* object that created does not count.                                     *)
GetReturned(u) ==
  /\ user[u].at = "wait" /\ idle # <<>>
  /\ idle' = Tail(idle) /\ PoolGoes(u, "has", Head(idle))
  /\ UNCHANGED <<created, made, resets, content>>
GetTimesOut(u) ==
  /\ user[u].at = "wait" /\ Makes(u)
  /\ UNCHANGED <<idle, created, resets, content>>

(* The user writes its data, SetData for one.                              *)
Fill(u) ==
  /\ user[u].at = "has"
  /\ content' = [content EXCEPT ![user[u].obj] = u]
  /\ PoolGoes(u, "uses", user[u].obj)
  /\ UNCHANGED <<idle, created, made, resets>>

(* Mutant: the object is not reset.                                        *)
PutUnreset(u) ==
  /\ user[u].at = "uses" /\ PoolGoes(u, "put", user[u].obj)
  /\ UNCHANGED <<idle, created, made, resets, content>>

(* Put counts and resets the object, then offers it to the channel and     *)
(* drops it when that is full.                                             *)
PutReset(u) ==
  /\ user[u].at = "uses"
  /\ content' = [content EXCEPT ![user[u].obj] = IF resets THEN Blank ELSE @]
  /\ PoolGoes(u, "put", user[u].obj)
  /\ UNCHANGED <<idle, created, made, resets>>
PutSend(u) ==
  /\ user[u].at = "put"
  /\ idle' = IF Len(idle) < PoolMax THEN Append(idle, user[u].obj) ELSE idle
  /\ PoolGoes(u, "out", NoObject)
  /\ UNCHANGED <<created, made, resets, content>>

PoolNext ==
  \E u \in PoolUsers :
    \/ GetIdle(u) \/ GetMisses(u) \/ GetChecks(u) \/ GetCreates(u)
    \/ GetReturned(u) \/ GetTimesOut(u) \/ Fill(u) \/ PutReset(u) \/ PutSend(u)

-----------------------------------------------------------------------------
PoolTypeOK ==
  /\ idle \in Seq(Objects) /\ Len(idle) <= PoolMax
  /\ made \in 0..MaxObjects /\ created \in 0..made
  /\ resets \in BOOLEAN
  /\ created <= PoolMax + Cardinality(PoolUsers) - 1
  /\ \A u \in PoolUsers :
       /\ user[u].at \in {"out", "missed", "create", "wait", "has", "uses", "put"}
       /\ user[u].obj \in 0..made

(* An object is in one place: with one goroutine, or once in the channel,  *)
(* and it comes without another one's data and keeps its holder's until it *)
(* is put back, however Get and Put overlap and whether the object was     *)
(* idle, counted or made after a timeout (Put resets before it sends).     *)
(* GlobalPools.ConnectionPool holds objects without a Reset, which carry   *)
(* the data of their last user to the next one.                            *)
ObjectsAreExclusive ==
  /\ \A i, j \in DOMAIN idle : idle[i] = idle[j] => i = j
  /\ \A u \in PoolUsers :
       LET o == user[u].obj IN
       o # NoObject =>
         /\ \A i \in DOMAIN idle : idle[i] # o
         /\ \A w \in PoolUsers : user[w].obj = o => w = u
         /\ user[u].at = "uses" => content[o] = u
         /\ user[u].at # "uses" /\ resets => content[o] = Blank
=============================================================================
