--------------------------- MODULE RpcPoolProofs ---------------------------
(***************************************************************************)
(* Proofs about RpcPool for every finite set of users, every pool size and *)
(* every number of dials and uses.                                         *)
(***************************************************************************)
EXTENDS RpcPool, FiniteSetTheorems, SequenceTheorems, TLAPS

(* Where a user has a client.                                              *)
HoldingPC == {"check", "count", "use", "offer", "drop"}

(* Where one counts in created, and where one may raise it.                *)
CountedPC == {"check", "use", "offer", "drop"}
DialingPC == {"miss", "dial", "count"}

(* A user has a client exactly where its place says so, only clients that  *)
(* were dialled are about, and a closed pool has neither users nor idle    *)
(* clients.                                                                *)
HoldInv ==
  /\ \A u \in Users : held[u] # NoClient <=> pc[u] \in HoldingPC
  /\ \A u \in Users : held[u] <= dials
  /\ \A i \in 1..Len(idle) : idle[i] <= dials
  /\ closed => idle = <<>> /\ \A u \in Users : pc[u] = "out"

(* A client that is about to be taken off the counter runs no more.        *)
DropInv == \A u \in Users : pc[u] = "drop" => held[u] \notin alive

IInv == TypeOK /\ HoldInv /\ DropInv /\ OneOwner /\ CreatedCounts

-----------------------------------------------------------------------------
(* The pool starts empty, with every user outside.                         *)
LEMMA InitInv == Init => IInv
<1> SUFFICES ASSUME Init PROVE IInv
  OBVIOUS
<1> USE ConstantAssumption DEF Init
<1>1. <<>> \in Seq(Clients) /\ Len(<<>>) = 0
  BY EmptySeq
<1>2. TypeOK
  <2>1. idle \in Seq(Clients) /\ Len(idle) <= MaxSize
    BY <1>1
  <2>2. alive \in SUBSET Clients /\ closed \in BOOLEAN
    BY Zenon
  <2>3. pc \in [Users -> UserPC] /\ held \in [Users -> Clients \cup {NoClient}]
        /\ uses \in [Users -> Nat] /\ dials \in 0..MaxDials /\ created \in Int
    BY DEF UserPC
  <2>4. QED
    BY <2>1, <2>2, <2>3 DEF TypeOK
<1>3. HoldInv
  BY <1>1 DEF HoldInv, HoldingPC, NoClient
<1>4. OneOwner
  BY <1>1 DEF OneOwner, NoClient
<1>5. Counted = {} /\ Dialing = {}
  BY DEF Counted, Dialing
<1>6. CreatedCounts
  BY <1>1, <1>5, FS_EmptySet, FS_CardinalityType DEF CreatedCounts
<1>7. DropInv
  BY DEF DropInv
<1>8. QED
  BY <1>2, <1>3, <1>4, <1>6, <1>7 DEF IInv

(* What Take does to the channel.                                          *)
LEMMA Taken ==
  ASSUME TypeOK, idle # <<>>
  PROVE  /\ Len(idle) \in Nat \ {0} /\ Head(idle) = idle[1]
         /\ Head(idle) \in Clients /\ Tail(idle) \in Seq(Clients)
         /\ Len(Tail(idle)) = Len(idle) - 1
         /\ \A i \in 1..Len(Tail(idle)) : Tail(idle)[i] = idle[i + 1]
  BY EmptySeq, HeadTailProperties DEF TypeOK

(* What Offer does to it.                                                 *)
LEMMA Offered ==
  ASSUME TypeOK, NEW k \in Clients
  PROVE  /\ Append(idle, k) \in Seq(Clients) /\ Append(idle, k) # <<>>
         /\ Len(idle) \in Nat /\ Len(Append(idle, k)) = Len(idle) + 1
         /\ \A i \in 1..Len(idle) : Append(idle, k)[i] = idle[i]
         /\ Append(idle, k)[Len(idle) + 1] = k
  BY LenProperties, AppendProperties DEF TypeOK

(* Idle clients are clients.                                               *)
LEMMA IdleClients ==
  ASSUME TypeOK
  PROVE  \A i \in 1..Len(idle) : idle[i] \in Clients /\ idle[i] # NoClient
<1>1. idle \in Seq(Clients)
  BY DEF TypeOK
<1>2. \A i \in 1..Len(idle) : idle[i] \in Clients
  BY <1>1, ElementOfSeq
<1>3. QED
  BY <1>2 DEF Clients, NoClient

(* Every step keeps the types.                                             *)
LEMMA TypeStep == ASSUME TypeOK, HoldInv, [Next]_vars PROVE TypeOK'
<1> USE ConstantAssumption DEF At, Goto, Leave, UserPC, NoClient
<1>1. ASSUME NEW u \in Users, Enter(u) PROVE TypeOK'
  BY <1>1 DEF Enter, TypeOK
<1>2. ASSUME NEW u \in Users, Take(u) PROVE TypeOK'
  <2>1. idle' = Tail(idle) /\ idle # <<>> /\ held' = [held EXCEPT ![u] = Head(idle)]
    BY <1>2 DEF Take
  <2>2. idle' \in Seq(Clients) /\ Len(idle') <= MaxSize /\ Head(idle) \in Clients
    BY <2>1, Taken DEF TypeOK
  <2>3. QED
    BY <1>2, <2>1, <2>2 DEF Take, TypeOK
<1>3. ASSUME NEW u \in Users, Check(u) PROVE TypeOK'
  <2>1. UNCHANGED <<idle, alive, dials, closed, uses>>
    BY <1>3 DEF Check
  <2>2. created' \in Int
    BY <1>3 DEF Check, TypeOK
  <2>3. pc' \in [Users -> UserPC] /\ held' \in [Users -> Clients \cup {NoClient}]
    BY <1>3 DEF Check, TypeOK
  <2>4. QED
    BY <2>1, <2>2, <2>3 DEF TypeOK
<1>4. ASSUME NEW u \in Users, Miss(u) PROVE TypeOK'
  BY <1>4 DEF Miss, TypeOK
<1>5. ASSUME NEW u \in Users, Decide(u) PROVE TypeOK'
  BY <1>5 DEF Decide, TypeOK
<1>6. ASSUME NEW u \in Users, Dial(u) PROVE TypeOK'
  BY <1>6 DEF Dial, TypeOK, Clients
<1>7. ASSUME NEW u \in Users, DialFail(u) PROVE TypeOK'
  BY <1>7 DEF DialFail, TypeOK
<1>8. ASSUME NEW u \in Users, Count(u) PROVE TypeOK'
  BY <1>8 DEF Count, TypeOK
<1>9. ASSUME NEW u \in Users, AwaitTimeout(u) PROVE TypeOK'
  BY <1>9 DEF AwaitTimeout, TypeOK
<1>10. ASSUME NEW u \in Users, Put(u) PROVE TypeOK'
  <2>1. UNCHANGED <<idle, alive, dials, closed, uses>>
    BY <1>10 DEF Put
  <2>2. created' \in Int
    BY <1>10 DEF Put, TypeOK
  <2>3. pc' \in [Users -> UserPC] /\ held' \in [Users -> Clients \cup {NoClient}]
    BY <1>10 DEF Put, TypeOK
  <2>4. QED
    BY <2>1, <2>2, <2>3 DEF TypeOK
<1>11. ASSUME NEW u \in Users, Offer(u) PROVE TypeOK'
  <2>1. held[u] \in Clients
    BY <1>11 DEF Offer, HoldInv, HoldingPC, TypeOK
  <2>2. idle' \in Seq(Clients) /\ Len(idle') <= MaxSize
    <3>1. Append(idle, held[u]) \in Seq(Clients) /\ Len(Append(idle, held[u])) = Len(idle) + 1
          /\ Len(idle) \in Nat
      BY <2>1, Offered
    <3>2. CASE Len(idle) < MaxSize
      BY <1>11, <3>1, <3>2 DEF Offer
    <3>3. CASE ~(Len(idle) < MaxSize)
      BY <1>11, <3>3 DEF Offer, TypeOK
    <3>4. QED
      BY <3>2, <3>3
  <2>3. alive' \in SUBSET Clients
    BY <1>11 DEF Offer, TypeOK
  <2>4. QED
    BY <1>11, <2>2, <2>3 DEF Offer, TypeOK
<1>12. ASSUME NEW u \in Users, Drop(u) PROVE TypeOK'
  BY <1>12 DEF Drop, TypeOK
<1>13. ASSUME NEW k \in Clients, Die(k) PROVE TypeOK'
  <2>1. alive' \in SUBSET Clients
    BY <1>13 DEF Die, TypeOK
  <2>2. QED
    BY <1>13, <2>1 DEF Die, TypeOK
<1>14. CASE Close
  <2>1. alive' \in SUBSET Clients
    BY <1>14 DEF Close, TypeOK
  <2>2. idle' \in Seq(Clients) /\ Len(idle') = 0
    BY <1>14, EmptySeq DEF Close
  <2>3. QED
    BY <1>14, <2>1, <2>2 DEF Close, TypeOK
<1>15. CASE UNCHANGED vars
  BY <1>15 DEF vars, TypeOK
<1>16. QED
  BY <1>1, <1>2, <1>3, <1>4, <1>5, <1>6, <1>7, <1>8, <1>9, <1>10, <1>11, <1>12, <1>13,
     <1>14, <1>15 DEF Next, UserStep

(* Every step keeps a user's client and its place together.                *)
LEMMA HoldStep == ASSUME TypeOK, HoldInv, [Next]_vars PROVE HoldInv'
<1> USE ConstantAssumption DEF At, Goto, Leave, NoClient, HoldInv, HoldingPC
<1>1. ASSUME NEW u \in Users, Enter(u) PROVE HoldInv'
  BY <1>1 DEF Enter, TypeOK
<1>2. ASSUME NEW u \in Users, Take(u) PROVE HoldInv'
  <2>1. /\ idle' = Tail(idle) /\ idle # <<>> /\ held' = [held EXCEPT ![u] = Head(idle)]
        /\ pc' = [pc EXCEPT ![u] = "check"] /\ UNCHANGED <<dials, closed>>
    BY <1>2 DEF Take
  <2>2. Head(idle) # NoClient /\ Head(idle) <= dials
    BY <2>1, Taken DEF Clients
  <2>3. \A i \in 1..Len(idle') : idle'[i] <= dials
    BY <2>1, Taken
  <2>4. ~closed
    BY <2>1
  <2>5. QED
    BY <2>1, <2>2, <2>3, <2>4 DEF TypeOK
<1>3. ASSUME NEW u \in Users, Check(u) PROVE HoldInv'
  <2>1. CASE held[u] \in alive
    BY <1>3, <2>1 DEF Check, TypeOK
  <2>2. CASE held[u] \notin alive
    <3>1. pc' = [pc EXCEPT ![u] = "get"] /\ held' = [held EXCEPT ![u] = NoClient]
          /\ UNCHANGED <<idle, dials, closed>> /\ ~closed
      BY <1>3, <2>2 DEF Check
    <3>2. QED
      BY <3>1 DEF TypeOK
  <2>3. QED
    BY <2>1, <2>2
<1>4. ASSUME NEW u \in Users, Miss(u) PROVE HoldInv'
  BY <1>4 DEF Miss, TypeOK
<1>5. ASSUME NEW u \in Users, Decide(u) PROVE HoldInv'
  BY <1>5 DEF Decide, TypeOK
<1>6. ASSUME NEW u \in Users, Dial(u) PROVE HoldInv'
  <2>1. dials' = dials + 1 /\ dials \in Int /\ dials' # NoClient
    BY <1>6 DEF Dial, TypeOK
  <2>2. \A i \in 1..Len(idle) : idle[i] \in Int
    BY IdleClients DEF Clients
  <2>3. QED
    BY <1>6, <2>1, <2>2 DEF Dial, TypeOK, Clients
<1>7. ASSUME NEW u \in Users, DialFail(u) PROVE HoldInv'
  BY <1>7 DEF DialFail, TypeOK
<1>8. ASSUME NEW u \in Users, Count(u) PROVE HoldInv'
  BY <1>8 DEF Count, TypeOK
<1>9. ASSUME NEW u \in Users, AwaitTimeout(u) PROVE HoldInv'
  BY <1>9 DEF AwaitTimeout, TypeOK
<1>10. ASSUME NEW u \in Users, Put(u) PROVE HoldInv'
  <2>1. CASE held[u] \in alive
    BY <1>10, <2>1 DEF Put, TypeOK
  <2>2. CASE held[u] \notin alive
    <3>1. pc' = [pc EXCEPT ![u] = "out"] /\ held' = [held EXCEPT ![u] = NoClient]
          /\ UNCHANGED <<idle, dials, closed>> /\ ~closed
      BY <1>10, <2>2 DEF Put
    <3>2. QED
      BY <3>1 DEF TypeOK
  <2>3. QED
    BY <2>1, <2>2
<1>11. ASSUME NEW u \in Users, Offer(u) PROVE HoldInv'
  <2>1. held[u] \in Clients /\ held[u] <= dials /\ ~closed
    BY <1>11 DEF Offer, TypeOK
  <2>2. CASE Len(idle) < MaxSize
    <3>1. idle' = Append(idle, held[u])
      BY <1>11, <2>2 DEF Offer
    <3>2. \A i \in 1..Len(idle') : idle'[i] <= dials
      BY <2>1, <3>1, Offered
    <3>3. pc' = [pc EXCEPT ![u] = "out"] /\ held' = [held EXCEPT ![u] = NoClient]
          /\ UNCHANGED <<dials, closed>>
      BY <1>11, <2>2 DEF Offer
    <3>4. QED
      BY <2>1, <3>2, <3>3 DEF TypeOK
  <2>3. CASE ~(Len(idle) < MaxSize)
    BY <1>11, <2>3 DEF Offer, TypeOK
  <2>4. QED
    BY <2>2, <2>3
<1>12. ASSUME NEW u \in Users, Drop(u) PROVE HoldInv'
  BY <1>12 DEF Drop, TypeOK
<1>13. ASSUME NEW k \in Clients, Die(k) PROVE HoldInv'
  BY <1>13 DEF Die
<1>14. CASE Close
  <2>1. Len(idle') = 0
    BY <1>14, EmptySeq DEF Close
  <2>2. QED
    BY <1>14, <2>1 DEF Close
<1>15. CASE UNCHANGED vars
  BY <1>15 DEF vars
<1>16. QED
  BY <1>1, <1>2, <1>3, <1>4, <1>5, <1>6, <1>7, <1>8, <1>9, <1>10, <1>11, <1>12, <1>13,
     <1>14, <1>15 DEF Next, UserStep

(* The channel is left alone, and only clients that no longer run are      *)
(* taken from users.                                                       *)
Kept ==
  /\ idle' = idle /\ alive' \subseteq alive
  /\ \A v \in Users : held'[v] = held[v] \/ (held'[v] = NoClient /\ held[v] \notin alive)

(* Such a step keeps the owners apart.                                     *)
LEMMA OwnerKept == ASSUME TypeOK, OneOwner, Kept PROVE OneOwner'
<1> USE DEF Kept
<1>1. \A i \in 1..Len(idle) : idle[i] # NoClient
  BY IdleClients
<1>2. \A i, j \in 1..Len(idle) : i # j => idle[i] # idle[j]
  BY DEF OneOwner
<1>3. \A u, v \in Users : u # v /\ held'[u] = held'[v] => held'[u] = NoClient
  BY DEF OneOwner
<1>4. \A u \in Users, i \in 1..Len(idle) : held'[u] # idle[i]
  BY <1>1 DEF OneOwner
<1>5. \A k \in alive' : (\E i \in 1..Len(idle) : idle[i] = k) \/ (\E u \in Users : held'[u] = k)
  BY DEF OneOwner
<1>6. QED
  BY <1>2, <1>3, <1>4, <1>5 DEF OneOwner

(* Every step keeps the owners apart.                                      *)
LEMMA OwnerStep == ASSUME TypeOK, HoldInv, DropInv, OneOwner, [Next]_vars PROVE OneOwner'
<1>1. ASSUME NEW u \in Users, Enter(u) PROVE OneOwner'
  <2>1. Kept
    BY <1>1 DEF Enter, Kept
  <2>2. QED
    BY <2>1, OwnerKept
<1>2. ASSUME NEW u \in Users, Take(u) PROVE OneOwner'
  <2>1. idle' = Tail(idle) /\ idle # <<>> /\ held' = [held EXCEPT ![u] = idle[1]] /\ alive' = alive
    BY <1>2, Taken DEF Take
  <2>2. /\ Len(idle) \in Nat \ {0} /\ Len(idle') = Len(idle) - 1
        /\ \A i \in 1..Len(idle') : idle'[i] = idle[i + 1]
    BY <2>1, Taken
  <2>3. held[u] = NoClient
    BY <1>2 DEF Take, HoldInv, HoldingPC
  <2>4. \A i, j \in 1..Len(idle') : i # j => idle'[i] # idle'[j]
    BY <2>2 DEF OneOwner
  <2>5. \A v, w \in Users : v # w /\ held'[v] = held'[w] => held'[v] = NoClient
    BY <2>1, <2>2 DEF OneOwner, TypeOK
  <2>6. \A v \in Users, i \in 1..Len(idle') : held'[v] # idle'[i]
    <3> SUFFICES ASSUME NEW v \in Users, NEW i \in 1..Len(idle') PROVE held'[v] # idle'[i]
      OBVIOUS
    <3>1. idle'[i] = idle[i + 1] /\ i + 1 \in 1..Len(idle) /\ 1 \in 1..Len(idle) /\ i + 1 # 1
      BY <2>2
    <3>2. idle[i + 1] # idle[1] /\ idle[i + 1] # held[v]
      BY <3>1 DEF OneOwner
    <3>3. QED
      BY <2>1, <3>1, <3>2 DEF TypeOK
  <2>7. ASSUME NEW k \in alive'
        PROVE  (\E i \in 1..Len(idle') : idle'[i] = k) \/ (\E v \in Users : held'[v] = k)
    <3>1. CASE \E i \in 1..Len(idle) : idle[i] = k
      <4>1. PICK i \in 1..Len(idle) : idle[i] = k
        BY <3>1
      <4>2. CASE i = 1
        BY <2>1, <4>1, <4>2 DEF TypeOK
      <4>3. CASE i # 1
        <5>1. i - 1 \in 1..Len(idle') /\ idle'[i - 1] = k
          BY <2>2, <4>1, <4>3
        <5>2. QED
          BY <5>1
      <4>4. QED
        BY <4>2, <4>3
    <3>2. CASE \E v \in Users : held[v] = k
      <4>1. PICK v \in Users : held[v] = k
        BY <3>2
      <4>2. v # u
        BY <2>1, <2>3, <2>7, <4>1 DEF TypeOK, Clients, NoClient
      <4>3. QED
        BY <2>1, <4>1, <4>2 DEF TypeOK
    <3>3. QED
      BY <2>1, <2>7, <3>1, <3>2 DEF OneOwner
  <2>8. QED
    BY <2>4, <2>5, <2>6, <2>7 DEF OneOwner
<1>3. ASSUME NEW u \in Users, Check(u) PROVE OneOwner'
  <2>1. idle' = idle /\ alive' = alive
    BY <1>3 DEF Check
  <2>2. \A v \in Users : held'[v] = held[v] \/ (held'[v] = NoClient /\ held[v] \notin alive)
    BY <1>3 DEF Check, TypeOK
  <2>3. QED
    BY <2>1, <2>2, OwnerKept DEF Kept
<1>4. ASSUME NEW u \in Users, Miss(u) PROVE OneOwner'
  <2>1. Kept
    BY <1>4 DEF Miss, Kept
  <2>2. QED
    BY <2>1, OwnerKept
<1>5. ASSUME NEW u \in Users, Decide(u) PROVE OneOwner'
  <2>1. Kept
    BY <1>5 DEF Decide, Kept
  <2>2. QED
    BY <2>1, OwnerKept
<1>6. ASSUME NEW u \in Users, Dial(u) PROVE OneOwner'
  <2>1. /\ idle' = idle /\ held' = [held EXCEPT ![u] = dials + 1]
        /\ alive' = alive \cup {dials + 1}
    BY <1>6 DEF Dial
  <2>2. held[u] = NoClient
    BY <1>6 DEF Dial, At, HoldInv, HoldingPC
  <2>3. dials + 1 # NoClient /\ \A v \in Users : held[v] # dials + 1
    BY DEF TypeOK, HoldInv, NoClient, Clients
  <2>4. \A i \in 1..Len(idle) : idle[i] # dials + 1
    BY IdleClients DEF TypeOK, HoldInv, Clients
  <2>5. \A i, j \in 1..Len(idle) : i # j => idle[i] # idle[j]
    BY DEF OneOwner
  <2>6. \A v, w \in Users : v # w /\ held'[v] = held'[w] => held'[v] = NoClient
    BY <2>1, <2>3 DEF OneOwner, TypeOK
  <2>7. \A v \in Users, i \in 1..Len(idle) : held'[v] # idle[i]
    BY <2>1, <2>4 DEF OneOwner, TypeOK
  <2>8. \A k \in alive' : (\E i \in 1..Len(idle) : idle[i] = k) \/ (\E v \in Users : held'[v] = k)
    <3>1. \A k \in alive : k # NoClient
      BY DEF TypeOK, Clients, NoClient
    <3>2. QED
      BY <2>1, <2>2, <3>1 DEF OneOwner, TypeOK
  <2>9. QED
    BY <2>1, <2>5, <2>6, <2>7, <2>8 DEF OneOwner
<1>7. ASSUME NEW u \in Users, DialFail(u) PROVE OneOwner'
  <2>1. held[u] = NoClient
    BY <1>7 DEF DialFail, At, HoldInv, HoldingPC
  <2>2. \A v \in Users : held'[v] = held[v]
    BY <1>7, <2>1 DEF DialFail, Leave, TypeOK
  <2>3. idle' = idle /\ alive' = alive
    BY <1>7 DEF DialFail
  <2>4. QED
    BY <2>2, <2>3, OwnerKept DEF Kept
<1>8. ASSUME NEW u \in Users, Count(u) PROVE OneOwner'
  <2>1. Kept
    BY <1>8 DEF Count, Kept
  <2>2. QED
    BY <2>1, OwnerKept
<1>9. ASSUME NEW u \in Users, AwaitTimeout(u) PROVE OneOwner'
  <2>1. held[u] = NoClient
    BY <1>9 DEF AwaitTimeout, At, HoldInv, HoldingPC
  <2>2. \A v \in Users : held'[v] = held[v]
    BY <1>9, <2>1 DEF AwaitTimeout, Leave, TypeOK
  <2>3. idle' = idle /\ alive' = alive
    BY <1>9 DEF AwaitTimeout
  <2>4. QED
    BY <2>2, <2>3, OwnerKept DEF Kept
<1>10. ASSUME NEW u \in Users, Put(u) PROVE OneOwner'
  <2>1. idle' = idle /\ alive' = alive
    BY <1>10 DEF Put
  <2>2. \A v \in Users : held'[v] = held[v] \/ (held'[v] = NoClient /\ held[v] \notin alive)
    BY <1>10 DEF Put, Leave, TypeOK
  <2>3. QED
    BY <2>1, <2>2, OwnerKept DEF Kept
<1>11. ASSUME NEW u \in Users, Offer(u) PROVE OneOwner'
  <2>1. CASE Len(idle) < MaxSize
    <3>1. /\ idle' = Append(idle, held[u]) /\ held' = [held EXCEPT ![u] = NoClient]
          /\ alive' = alive
      BY <1>11, <2>1 DEF Offer, Leave
    <3>2. held[u] \in Clients
      BY <1>11 DEF Offer, At, HoldInv, HoldingPC, TypeOK
    <3>3. /\ Len(idle) \in Nat /\ Len(idle') = Len(idle) + 1
          /\ \A i \in 1..Len(idle) : idle'[i] = idle[i]
          /\ idle'[Len(idle) + 1] = held[u]
      BY <3>1, <3>2, Offered
    <3>4. \A i \in 1..Len(idle') : i \in 1..Len(idle) \/ i = Len(idle) + 1
      BY <3>3
    <3>5. \A i, j \in 1..Len(idle') : i # j => idle'[i] # idle'[j]
      BY <3>3, <3>4 DEF OneOwner
    <3>6. \A v, w \in Users : v # w /\ held'[v] = held'[w] => held'[v] = NoClient
      BY <3>1 DEF OneOwner, TypeOK
    <3>7. \A v \in Users, i \in 1..Len(idle') : held'[v] # idle'[i]
      <4>1. \A i \in 1..Len(idle) : idle[i] # NoClient
        BY IdleClients
      <4>2. \A v \in Users : held'[v] # held[u]
        BY <3>1, <3>2 DEF OneOwner, TypeOK, Clients, NoClient
      <4>3. \A v \in Users, i \in 1..Len(idle) : held'[v] # idle[i]
        BY <3>1, <4>1 DEF OneOwner, TypeOK
      <4>4. QED
        BY <3>3, <3>4, <4>2, <4>3
    <3>8. ASSUME NEW k \in alive'
          PROVE  (\E i \in 1..Len(idle') : idle'[i] = k) \/ (\E v \in Users : held'[v] = k)
      <4>1. 1..Len(idle) \subseteq 1..Len(idle') /\ Len(idle) + 1 \in 1..Len(idle')
        BY <3>3
      <4>2. CASE \E i \in 1..Len(idle) : idle[i] = k
        BY <3>3, <4>1, <4>2
      <4>3. CASE \E v \in Users : held[v] = k
        BY <3>1, <3>3, <4>1, <4>3 DEF TypeOK
      <4>4. QED
        BY <3>1, <3>8, <4>2, <4>3 DEF OneOwner
    <3>9. QED
      BY <3>5, <3>6, <3>7, <3>8 DEF OneOwner
  <2>2. CASE ~(Len(idle) < MaxSize)
    <3>1. idle' = idle /\ held' = held /\ alive' \subseteq alive
      BY <1>11, <2>2 DEF Offer
    <3>2. QED
      BY <3>1, OwnerKept DEF Kept
  <2>3. QED
    BY <2>1, <2>2
<1>12. ASSUME NEW u \in Users, Drop(u) PROVE OneOwner'
  <2>1. idle' = idle /\ alive' = alive
    BY <1>12 DEF Drop
  <2>2. \A v \in Users : held'[v] = held[v] \/ (held'[v] = NoClient /\ held[v] \notin alive)
    BY <1>12 DEF Drop, Leave, At, TypeOK, DropInv
  <2>3. QED
    BY <2>1, <2>2, OwnerKept DEF Kept
<1>13. ASSUME NEW k \in Clients, Die(k) PROVE OneOwner'
  <2>1. Kept
    BY <1>13 DEF Die, Kept
  <2>2. QED
    BY <2>1, OwnerKept
<1>14. CASE Close
  <2>1. idle' = <<>> /\ held' = held /\ alive' = alive \ {idle[i] : i \in 1..Len(idle)}
    BY <1>14 DEF Close
  <2>2. Len(idle') = 0
    BY <2>1, EmptySeq
  <2>3. alive' = {}
    <3>1. \A u \in Users : held[u] = NoClient
      BY <1>14 DEF Close, At, HoldInv, HoldingPC
    <3>2. \A k \in alive : k # NoClient
      BY DEF TypeOK, Clients, NoClient
    <3>3. QED
      BY <2>1, <3>1, <3>2 DEF OneOwner
  <2>4. QED
    BY <2>1, <2>2, <2>3 DEF OneOwner
<1>15. CASE UNCHANGED vars
  <2>1. Kept
    BY <1>15 DEF vars, Kept
  <2>2. QED
    BY <2>1, OwnerKept
<1>16. QED
  BY <1>1, <1>2, <1>3, <1>4, <1>5, <1>6, <1>7, <1>8, <1>9, <1>10, <1>11, <1>12, <1>13,
     <1>14, <1>15 DEF Next, UserStep

(* Every step keeps the clients that are dropped from running.             *)
LEMMA DropStep == ASSUME TypeOK, HoldInv, DropInv, [Next]_vars PROVE DropInv'
<1> USE DEF At, Goto, Leave, DropInv
<1>1. ASSUME NEW u \in Users, NEW l, l # "drop", alive' = alive,
             pc' = [pc EXCEPT ![u] = l], \A v \in Users \ {u} : held'[v] = held[v]
      PROVE  DropInv'
  BY <1>1 DEF TypeOK
<1>2. ASSUME NEW u \in Users, Enter(u) PROVE DropInv'
  BY <1>1, <1>2 DEF Enter
<1>3. ASSUME NEW u \in Users, Take(u) PROVE DropInv'
  BY <1>1, <1>3 DEF Take, TypeOK
<1>4. ASSUME NEW u \in Users, Check(u) PROVE DropInv'
  <2>1. alive' = alive /\ \A v \in Users \ {u} : held'[v] = held[v]
    BY <1>4 DEF Check, TypeOK
  <2>2. pc' = [pc EXCEPT ![u] = "use"] \/ pc' = [pc EXCEPT ![u] = "get"]
    BY <1>4 DEF Check
  <2>3. QED
    BY <1>1, <2>1, <2>2
<1>5. ASSUME NEW u \in Users, Miss(u) PROVE DropInv'
  BY <1>1, <1>5 DEF Miss
<1>6. ASSUME NEW u \in Users, Decide(u) PROVE DropInv'
  BY <1>1, <1>6 DEF Decide
<1>7. ASSUME NEW u \in Users, Dial(u) PROVE DropInv'
  <2>1. /\ alive' = alive \cup {dials + 1} /\ held' = [held EXCEPT ![u] = dials + 1]
        /\ pc' = [pc EXCEPT ![u] = "count"]
    BY <1>7 DEF Dial
  <2>2. \A v \in Users : held[v] # dials + 1
    BY DEF TypeOK, HoldInv, Clients, NoClient
  <2>3. QED
    BY <2>1, <2>2 DEF TypeOK
<1>8. ASSUME NEW u \in Users, DialFail(u) PROVE DropInv'
  BY <1>1, <1>8 DEF DialFail, TypeOK
<1>9. ASSUME NEW u \in Users, Count(u) PROVE DropInv'
  BY <1>1, <1>9 DEF Count
<1>10. ASSUME NEW u \in Users, AwaitTimeout(u) PROVE DropInv'
  BY <1>1, <1>10 DEF AwaitTimeout, TypeOK
<1>11. ASSUME NEW u \in Users, Put(u) PROVE DropInv'
  <2>1. alive' = alive /\ \A v \in Users \ {u} : held'[v] = held[v]
    BY <1>11 DEF Put, TypeOK
  <2>2. pc' = [pc EXCEPT ![u] = "offer"] \/ pc' = [pc EXCEPT ![u] = "out"]
    BY <1>11 DEF Put
  <2>3. QED
    BY <1>1, <2>1, <2>2
<1>12. ASSUME NEW u \in Users, Offer(u) PROVE DropInv'
  <2>1. CASE Len(idle) < MaxSize
    BY <1>1, <1>12, <2>1 DEF Offer, TypeOK
  <2>2. CASE ~(Len(idle) < MaxSize)
    <3>1. /\ alive' = alive \ {held[u]} /\ held' = held
          /\ pc' = [pc EXCEPT ![u] = "drop"]
      BY <1>12, <2>2 DEF Offer
    <3>2. QED
      BY <3>1 DEF TypeOK
  <2>3. QED
    BY <2>1, <2>2
<1>13. ASSUME NEW u \in Users, Drop(u) PROVE DropInv'
  BY <1>1, <1>13 DEF Drop, TypeOK
<1>14. ASSUME NEW k \in Clients, Die(k) PROVE DropInv'
  BY <1>14 DEF Die
<1>15. CASE Close
  BY <1>15 DEF Close
<1>16. CASE UNCHANGED vars
  BY <1>16 DEF vars
<1>17. QED
  BY <1>2, <1>3, <1>4, <1>5, <1>6, <1>7, <1>8, <1>9, <1>10, <1>11, <1>12, <1>13, <1>14,
     <1>15, <1>16 DEF Next, UserStep

-----------------------------------------------------------------------------
(* Sets of users, when one comes or goes.                                  *)
LEMMA CardUsers ==
  ASSUME NEW S \in SUBSET Users, NEW u \in Users
  PROVE  /\ Cardinality(S) \in Nat
         /\ u \notin S => Cardinality(S \cup {u}) = Cardinality(S) + 1
         /\ u \in S => Cardinality(S \ {u}) = Cardinality(S) - 1
<1>1. IsFiniteSet(S)
  BY ConstantAssumption, FS_Subset
<1>2. QED
  BY <1>1, FS_CardinalityType, FS_AddElement, FS_RemoveElement

(* Two sets of users without a common one.                                 *)
LEMMA CardDisjoint ==
  ASSUME NEW S \in SUBSET Users, NEW T \in SUBSET Users, S \cap T = {}
  PROVE  Cardinality(S) + Cardinality(T) <= Cardinality(Users)
<1>1. IsFiniteSet(S) /\ IsFiniteSet(T)
  BY ConstantAssumption, FS_Subset
<1>2. Cardinality(S \cup T) = Cardinality(S) + Cardinality(T) - Cardinality(S \cap T)
  BY <1>1, FS_Union
<1>3. Cardinality(S \cap T) = 0
  BY FS_EmptySet
<1>4. /\ Cardinality(S \cup T) <= Cardinality(Users)
      /\ Cardinality(S) \in Nat /\ Cardinality(T) \in Nat
  <2>1. S \cup T \in SUBSET Users
    OBVIOUS
  <2>2. QED
    BY <1>1, <2>1, ConstantAssumption, FS_Subset, FS_CardinalityType
<1>5. QED
  BY <1>2, <1>3, <1>4

(* What a place weighs in the two sets.                                    *)
CountOf(l) == IF l \in CountedPC THEN 1 ELSE 0
DialOf(l)  == IF l \in DialingPC THEN 1 ELSE 0

(* The weights of all places.                                              *)
LEMMA Weights ==
  /\ CountOf("out") = 0 /\ CountOf("get") = 0 /\ CountOf("await") = 0
  /\ CountOf("miss") = 0 /\ CountOf("dial") = 0 /\ CountOf("count") = 0
  /\ CountOf("check") = 1 /\ CountOf("use") = 1 /\ CountOf("offer") = 1 /\ CountOf("drop") = 1
  /\ DialOf("out") = 0 /\ DialOf("get") = 0 /\ DialOf("await") = 0
  /\ DialOf("miss") = 1 /\ DialOf("dial") = 1 /\ DialOf("count") = 1
  /\ DialOf("check") = 0 /\ DialOf("use") = 0 /\ DialOf("offer") = 0 /\ DialOf("drop") = 0
BY DEF CountOf, DialOf, CountedPC, DialingPC

(* What a step of a user from place to place does to them.                 *)
LEMMA Moves ==
  ASSUME TypeOK, NEW u \in Users, NEW l, pc' = [pc EXCEPT ![u] = l]
  PROVE  /\ Cardinality(Counted) \in Nat /\ Cardinality(Dialing) \in Nat
         /\ Cardinality(Counted') = Cardinality(Counted) - CountOf(pc[u]) + CountOf(l)
         /\ Cardinality(Dialing') = Cardinality(Dialing) - DialOf(pc[u]) + DialOf(l)
<1>1. /\ Cardinality(Counted) \in Nat
      /\ Cardinality(Counted') = Cardinality(Counted) - CountOf(pc[u]) + CountOf(l)
  <2>1. Counted \in SUBSET Users /\ (u \in Counted <=> pc[u] \in CountedPC)
    BY DEF Counted, CountedPC
  <2>2. Cardinality(Counted) \in Nat
    BY <2>1, CardUsers
  <2>3. CASE pc[u] \in CountedPC /\ l \in CountedPC
    <3>1. Counted' = Counted /\ CountOf(pc[u]) = 1 /\ CountOf(l) = 1
      BY <2>3 DEF Counted, CountedPC, CountOf, TypeOK
    <3>2. QED
      BY <2>2, <3>1
  <2>4. CASE pc[u] \in CountedPC /\ l \notin CountedPC
    <3>1. Counted' = Counted \ {u} /\ CountOf(pc[u]) = 1 /\ CountOf(l) = 0
      BY <2>4 DEF Counted, CountedPC, CountOf, TypeOK
    <3>2. QED
      BY <2>1, <2>2, <2>4, <3>1, CardUsers
  <2>5. CASE pc[u] \notin CountedPC /\ l \in CountedPC
    <3>1. Counted' = Counted \cup {u} /\ CountOf(pc[u]) = 0 /\ CountOf(l) = 1
      BY <2>5 DEF Counted, CountedPC, CountOf, TypeOK
    <3>2. QED
      BY <2>1, <2>2, <2>5, <3>1, CardUsers
  <2>6. CASE pc[u] \notin CountedPC /\ l \notin CountedPC
    <3>1. Counted' = Counted /\ CountOf(pc[u]) = 0 /\ CountOf(l) = 0
      BY <2>6 DEF Counted, CountedPC, CountOf, TypeOK
    <3>2. QED
      BY <2>2, <3>1
  <2>7. QED
    BY <2>3, <2>4, <2>5, <2>6
<1>2. /\ Cardinality(Dialing) \in Nat
      /\ Cardinality(Dialing') = Cardinality(Dialing) - DialOf(pc[u]) + DialOf(l)
  <2>1. Dialing \in SUBSET Users /\ (u \in Dialing <=> pc[u] \in DialingPC)
    BY DEF Dialing, DialingPC
  <2>2. Cardinality(Dialing) \in Nat
    BY <2>1, CardUsers
  <2>3. CASE pc[u] \in DialingPC /\ l \in DialingPC
    <3>1. Dialing' = Dialing /\ DialOf(pc[u]) = 1 /\ DialOf(l) = 1
      BY <2>3 DEF Dialing, DialingPC, DialOf, TypeOK
    <3>2. QED
      BY <2>2, <3>1
  <2>4. CASE pc[u] \in DialingPC /\ l \notin DialingPC
    <3>1. Dialing' = Dialing \ {u} /\ DialOf(pc[u]) = 1 /\ DialOf(l) = 0
      BY <2>4 DEF Dialing, DialingPC, DialOf, TypeOK
    <3>2. QED
      BY <2>1, <2>2, <2>4, <3>1, CardUsers
  <2>5. CASE pc[u] \notin DialingPC /\ l \in DialingPC
    <3>1. Dialing' = Dialing \cup {u} /\ DialOf(pc[u]) = 0 /\ DialOf(l) = 1
      BY <2>5 DEF Dialing, DialingPC, DialOf, TypeOK
    <3>2. QED
      BY <2>1, <2>2, <2>5, <3>1, CardUsers
  <2>6. CASE pc[u] \notin DialingPC /\ l \notin DialingPC
    <3>1. Dialing' = Dialing /\ DialOf(pc[u]) = 0 /\ DialOf(l) = 0
      BY <2>6 DEF Dialing, DialingPC, DialOf, TypeOK
    <3>2. QED
      BY <2>2, <3>1
  <2>7. QED
    BY <2>3, <2>4, <2>5, <2>6
<1>3. QED
  BY <1>1, <1>2

(* A user's step to a place counts what it adds to the channel and to the  *)
(* users that have a client, and pays for one that may dial.               *)
Balanced(u, l) ==
  /\ pc' = [pc EXCEPT ![u] = l]
  /\ created' - created = Len(idle') - Len(idle) + CountOf(l) - CountOf(pc[u])
  /\ created' - created + DialOf(l) - DialOf(pc[u]) <= 0

(* A balanced step keeps the counter right.                                *)
LEMMA Balance ==
  ASSUME TypeOK, TypeOK', CreatedCounts, ~closed, NEW u \in Users, NEW l, Balanced(u, l)
  PROVE  CreatedCounts'
<1> DEFINE c == CountOf(l) - CountOf(pc[u])
           d == DialOf(l) - DialOf(pc[u])
<1>1. /\ created \in Int /\ created' \in Int /\ Len(idle) \in Int /\ Len(idle') \in Int
      /\ Cardinality(Users) \in Int
  BY ConstantAssumption, FS_CardinalityType, LenProperties DEF TypeOK
<1>2. /\ CountOf(l) \in Int /\ CountOf(pc[u]) \in Int /\ DialOf(l) \in Int /\ DialOf(pc[u]) \in Int
  BY DEF CountOf, DialOf
<1>3. c \in Int /\ d \in Int
  BY <1>2
<1>4. /\ created = Len(idle) + Cardinality(Counted)
      /\ created + Cardinality(Dialing) <= Cardinality(Users)
  BY DEF CreatedCounts
<1>5. /\ Cardinality(Counted) \in Nat /\ Cardinality(Dialing) \in Nat
      /\ Cardinality(Counted') = Cardinality(Counted) - CountOf(pc[u]) + CountOf(l)
      /\ Cardinality(Dialing') = Cardinality(Dialing) - DialOf(pc[u]) + DialOf(l)
  <2>1. pc' = [pc EXCEPT ![u] = l]
    BY DEF Balanced
  <2>2. QED
    BY <2>1, Moves
<1>6. Cardinality(Counted') = Cardinality(Counted) + c
  BY <1>2, <1>5
<1>7. Cardinality(Dialing') = Cardinality(Dialing) + d
  BY <1>2, <1>5
<1>8. created' - created = Len(idle') - Len(idle) + c
  BY <1>1, <1>2 DEF Balanced
<1>9. created' - created + d <= 0
  BY <1>1, <1>2 DEF Balanced
<1> HIDE DEF c, d
<1>10. Cardinality(Counted) \in Int /\ Cardinality(Dialing) \in Int
  BY <1>5
<1>11. created' = Len(idle') + Cardinality(Counted')
  <2>1. PICK x, y, m, n, k \in Int : /\ x = created /\ y = created' /\ m = Len(idle) /\ n = Len(idle')
                                    /\ k = Cardinality(Counted)
    BY <1>1, <1>10
  <2>2. x = m + k /\ y - x = n - m + c
    BY <1>4, <1>8, <2>1
  <2>3. y = n + (k + c)
    BY <1>3, <2>2
  <2>4. QED
    BY <1>6, <2>1, <2>3
<1>12. created' + Cardinality(Dialing') <= Cardinality(Users)
  <2>1. PICK x, y, k, n \in Int : /\ x = created /\ y = created' /\ k = Cardinality(Dialing)
                                 /\ n = Cardinality(Users)
    BY <1>1, <1>10
  <2>2. x + k <= n /\ y - x + d <= 0
    BY <1>4, <1>9, <2>1
  <2>3. y + (k + d) <= n
    BY <1>3, <2>2
  <2>4. QED
    BY <1>7, <2>1, <2>3
<1>13. QED
  BY <1>11, <1>12 DEF CreatedCounts

(* Every step keeps the counter right.                                     *)
LEMMA CountStep ==
  ASSUME TypeOK, TypeOK', HoldInv, CreatedCounts, [Next]_vars
  PROVE  CreatedCounts'
<1> USE DEF At, Goto, Leave
<1> SUFFICES ASSUME ~closed' PROVE CreatedCounts'
  BY DEF CreatedCounts
<1>1. ~closed /\ ~Close
  <2>1. ~Close
    BY DEF Close
  <2>2. closed' = closed
    BY <2>1 DEF Next, UserStep, Enter, Take, Check, Miss, Decide, Dial, DialFail, Count,
         AwaitTimeout, Put, Offer, Drop, Die, vars
  <2>3. QED
    BY <2>1, <2>2
<1>2. created \in Int /\ Len(idle) \in Nat
  BY LenProperties DEF TypeOK
<1>3. ASSUME NEW u \in Users, Enter(u) PROVE CreatedCounts'
  <2>1. /\ pc[u] = "out" /\ pc' = [pc EXCEPT ![u] = "get"]
        /\ idle' = idle /\ created' = created
    BY <1>3 DEF Enter
  <2>2. /\ created' - created = Len(idle') - Len(idle) + CountOf("get") - CountOf(pc[u])
        /\ created' - created + DialOf("get") - DialOf(pc[u]) <= 0
    BY <1>2, <2>1, Weights
  <2>3. QED
    BY <1>1, <2>1, <2>2, Balance DEF Balanced
<1>4. ASSUME NEW u \in Users, Take(u) PROVE CreatedCounts'
  <2>1. /\ pc[u] \in {"get", "await"} /\ pc' = [pc EXCEPT ![u] = "check"]
        /\ idle # <<>> /\ idle' = Tail(idle) /\ created' = created
    BY <1>4 DEF Take
  <2>2. Len(idle') = Len(idle) - 1
    BY <2>1, Taken
  <2>3. /\ created' - created = Len(idle') - Len(idle) + CountOf("check") - CountOf(pc[u])
        /\ created' - created + DialOf("check") - DialOf(pc[u]) <= 0
    BY <1>2, <2>1, <2>2, Weights
  <2>4. QED
    BY <1>1, <2>1, <2>3, Balance DEF Balanced
<1>5. ASSUME NEW u \in Users, Check(u) PROVE CreatedCounts'
  <2>1. CASE held[u] \in alive
    <3>1. /\ pc[u] = "check" /\ pc' = [pc EXCEPT ![u] = "use"]
          /\ idle' = idle /\ created' = created
      BY <1>5, <2>1 DEF Check
    <3>2. /\ created' - created = Len(idle') - Len(idle) + CountOf("use") - CountOf(pc[u])
          /\ created' - created + DialOf("use") - DialOf(pc[u]) <= 0
      BY <1>2, <3>1, Weights
    <3>3. QED
      BY <1>1, <3>1, <3>2, Balance DEF Balanced
  <2>2. CASE held[u] \notin alive
    <3>1. /\ pc[u] = "check" /\ pc' = [pc EXCEPT ![u] = "get"]
          /\ idle' = idle /\ created' = created - 1
      BY <1>5, <2>2 DEF Check
    <3>2. /\ created' - created = Len(idle') - Len(idle) + CountOf("get") - CountOf(pc[u])
          /\ created' - created + DialOf("get") - DialOf(pc[u]) <= 0
      BY <1>2, <3>1, Weights
    <3>3. QED
      BY <1>1, <3>1, <3>2, Balance DEF Balanced
  <2>3. QED
    BY <2>1, <2>2
<1>6. ASSUME NEW u \in Users, Miss(u) PROVE CreatedCounts'
  <2>1. /\ idle = <<>> /\ idle' = idle /\ created' = created
        /\ pc[u] = "get" /\ pc' = [pc EXCEPT ![u] = "miss"]
    BY <1>6 DEF Miss
  <2>2. Len(idle) = 0
    BY <2>1, EmptySeq
  <2>3. Cardinality(Counted') + Cardinality(Dialing') <= Cardinality(Users)
    <3>1. Counted' \in SUBSET Users /\ Dialing' \in SUBSET Users /\ Counted' \cap Dialing' = {}
      BY DEF Counted, Dialing
    <3>2. QED
      BY <3>1, CardDisjoint
  <2>4. Counted' = Counted
    BY <2>1 DEF Counted, TypeOK
  <2>5. created = Len(idle) + Cardinality(Counted) /\ Cardinality(Counted) \in Nat
    BY <1>1, <2>1, Moves DEF CreatedCounts
  <2>6. QED
    BY <2>1, <2>2, <2>3, <2>4, <2>5 DEF CreatedCounts
<1>7. ASSUME NEW u \in Users, Decide(u) PROVE CreatedCounts'
  <2>1. CASE created < MaxSize
    <3>1. /\ pc[u] = "miss" /\ pc' = [pc EXCEPT ![u] = "dial"]
          /\ idle' = idle /\ created' = created
      BY <1>7, <2>1 DEF Decide
    <3>2. /\ created' - created = Len(idle') - Len(idle) + CountOf("dial") - CountOf(pc[u])
          /\ created' - created + DialOf("dial") - DialOf(pc[u]) <= 0
      BY <1>2, <3>1, Weights
    <3>3. QED
      BY <1>1, <3>1, <3>2, Balance DEF Balanced
  <2>2. CASE ~(created < MaxSize)
    <3>1. /\ pc[u] = "miss" /\ pc' = [pc EXCEPT ![u] = "await"]
          /\ idle' = idle /\ created' = created
      BY <1>7, <2>2 DEF Decide
    <3>2. /\ created' - created = Len(idle') - Len(idle) + CountOf("await") - CountOf(pc[u])
          /\ created' - created + DialOf("await") - DialOf(pc[u]) <= 0
      BY <1>2, <3>1, Weights
    <3>3. QED
      BY <1>1, <3>1, <3>2, Balance DEF Balanced
  <2>3. QED
    BY <2>1, <2>2
<1>8. ASSUME NEW u \in Users, Dial(u) PROVE CreatedCounts'
  <2>1. /\ pc[u] = "dial" /\ pc' = [pc EXCEPT ![u] = "count"]
        /\ idle' = idle /\ created' = created
    BY <1>8 DEF Dial
  <2>2. /\ created' - created = Len(idle') - Len(idle) + CountOf("count") - CountOf(pc[u])
        /\ created' - created + DialOf("count") - DialOf(pc[u]) <= 0
    BY <1>2, <2>1, Weights
  <2>3. QED
    BY <1>1, <2>1, <2>2, Balance DEF Balanced
<1>9. ASSUME NEW u \in Users, DialFail(u) PROVE CreatedCounts'
  <2>1. /\ pc[u] = "dial" /\ pc' = [pc EXCEPT ![u] = "out"]
        /\ idle' = idle /\ created' = created
    BY <1>9 DEF DialFail
  <2>2. /\ created' - created = Len(idle') - Len(idle) + CountOf("out") - CountOf(pc[u])
        /\ created' - created + DialOf("out") - DialOf(pc[u]) <= 0
    BY <1>2, <2>1, Weights
  <2>3. QED
    BY <1>1, <2>1, <2>2, Balance DEF Balanced
<1>10. ASSUME NEW u \in Users, Count(u) PROVE CreatedCounts'
  <2>1. /\ pc[u] = "count" /\ pc' = [pc EXCEPT ![u] = "use"]
        /\ idle' = idle /\ created' = created + 1
    BY <1>10 DEF Count
  <2>2. /\ created' - created = Len(idle') - Len(idle) + CountOf("use") - CountOf(pc[u])
        /\ created' - created + DialOf("use") - DialOf(pc[u]) <= 0
    BY <1>2, <2>1, Weights
  <2>3. QED
    BY <1>1, <2>1, <2>2, Balance DEF Balanced
<1>11. ASSUME NEW u \in Users, AwaitTimeout(u) PROVE CreatedCounts'
  <2>1. /\ pc[u] = "await" /\ pc' = [pc EXCEPT ![u] = "out"]
        /\ idle' = idle /\ created' = created
    BY <1>11 DEF AwaitTimeout
  <2>2. /\ created' - created = Len(idle') - Len(idle) + CountOf("out") - CountOf(pc[u])
        /\ created' - created + DialOf("out") - DialOf(pc[u]) <= 0
    BY <1>2, <2>1, Weights
  <2>3. QED
    BY <1>1, <2>1, <2>2, Balance DEF Balanced
<1>12. ASSUME NEW u \in Users, Put(u) PROVE CreatedCounts'
  <2>1. CASE held[u] \in alive
    <3>1. /\ pc[u] = "use" /\ pc' = [pc EXCEPT ![u] = "offer"]
          /\ idle' = idle /\ created' = created
      BY <1>12, <2>1 DEF Put
    <3>2. /\ created' - created = Len(idle') - Len(idle) + CountOf("offer") - CountOf(pc[u])
          /\ created' - created + DialOf("offer") - DialOf(pc[u]) <= 0
      BY <1>2, <3>1, Weights
    <3>3. QED
      BY <1>1, <3>1, <3>2, Balance DEF Balanced
  <2>2. CASE held[u] \notin alive
    <3>1. /\ pc[u] = "use" /\ pc' = [pc EXCEPT ![u] = "out"]
          /\ idle' = idle /\ created' = created - 1
      BY <1>12, <2>2 DEF Put
    <3>2. /\ created' - created = Len(idle') - Len(idle) + CountOf("out") - CountOf(pc[u])
          /\ created' - created + DialOf("out") - DialOf(pc[u]) <= 0
      BY <1>2, <3>1, Weights
    <3>3. QED
      BY <1>1, <3>1, <3>2, Balance DEF Balanced
  <2>3. QED
    BY <2>1, <2>2
<1>13. ASSUME NEW u \in Users, Offer(u) PROVE CreatedCounts'
  <2>1. CASE Len(idle) < MaxSize
    <3>1. /\ pc[u] = "offer" /\ pc' = [pc EXCEPT ![u] = "out"]
          /\ idle' = Append(idle, held[u]) /\ created' = created
      BY <1>13, <2>1 DEF Offer
    <3>2. held[u] \in Clients
      BY <3>1 DEF HoldInv, HoldingPC, TypeOK
    <3>3. Len(idle') = Len(idle) + 1
      BY <3>1, <3>2, Offered
    <3>4. /\ created' - created = Len(idle') - Len(idle) + CountOf("out") - CountOf(pc[u])
          /\ created' - created + DialOf("out") - DialOf(pc[u]) <= 0
      BY <1>2, <3>1, <3>3, Weights
    <3>5. QED
      BY <1>1, <3>1, <3>4, Balance DEF Balanced
  <2>2. CASE ~(Len(idle) < MaxSize)
    <3>1. /\ pc[u] = "offer" /\ pc' = [pc EXCEPT ![u] = "drop"]
          /\ idle' = idle /\ created' = created
      BY <1>13, <2>2 DEF Offer
    <3>2. /\ created' - created = Len(idle') - Len(idle) + CountOf("drop") - CountOf(pc[u])
          /\ created' - created + DialOf("drop") - DialOf(pc[u]) <= 0
      BY <1>2, <3>1, Weights
    <3>3. QED
      BY <1>1, <3>1, <3>2, Balance DEF Balanced
  <2>3. QED
    BY <2>1, <2>2
<1>14. ASSUME NEW u \in Users, Drop(u) PROVE CreatedCounts'
  <2>1. /\ pc[u] = "drop" /\ pc' = [pc EXCEPT ![u] = "out"]
        /\ idle' = idle /\ created' = created - 1
    BY <1>14 DEF Drop
  <2>2. /\ created' - created = Len(idle') - Len(idle) + CountOf("out") - CountOf(pc[u])
        /\ created' - created + DialOf("out") - DialOf(pc[u]) <= 0
    BY <1>2, <2>1, Weights
  <2>3. QED
    BY <1>1, <2>1, <2>2, Balance DEF Balanced
<1>15. ASSUME UNCHANGED <<idle, created, pc, closed>> PROVE CreatedCounts'
  <2>1. Counted' = Counted /\ Dialing' = Dialing
    BY <1>15 DEF Counted, Dialing
  <2>2. QED
    BY <1>15, <2>1 DEF CreatedCounts
<1>16. ASSUME NEW k \in Clients, Die(k) PROVE CreatedCounts'
  BY <1>15, <1>16 DEF Die
<1>17. CASE UNCHANGED vars
  BY <1>15, <1>17 DEF vars
<1>18. QED
  BY <1>1, <1>3, <1>4, <1>5, <1>6, <1>7, <1>8, <1>9, <1>10, <1>11, <1>12, <1>13, <1>14,
     <1>16, <1>17 DEF Next, UserStep

-----------------------------------------------------------------------------
(* The inductive invariant holds in every reachable state, for any number  *)
(* of users of the pool.                                                   *)
THEOREM Invariance == Spec => []IInv
<1>1. Init => IInv
  BY InitInv
<1>2. IInv /\ [Next]_vars => IInv'
  BY TypeStep, HoldStep, DropStep, OwnerStep, CountStep DEF IInv
<1>3. QED
  BY <1>1, <1>2, PTL DEF Spec

(* The variables keep their types, and the channel its capacity.           *)
THEOREM TypeCorrect == Spec => []TypeOK
<1>1. IInv => TypeOK
  BY DEF IInv
<1>2. QED
  BY <1>1, Invariance, PTL

(* No connection is ever shared by two users of the pool or left open      *)
(* behind its back (Get, Put and Close).                                   *)
THEOREM ExclusiveOwnership == Spec => []OneOwner
<1>1. IInv => OneOwner
  BY DEF IInv
<1>2. QED
  BY <1>1, Invariance, PTL

(* The counter is the number of clients idle and in use, and never more    *)
(* than the number of users, although it is read and raised in steps of    *)
(* their own (Get, Put).                                                   *)
THEOREM CounterRight == Spec => []CreatedCounts
<1>1. IInv => CreatedCounts
  BY DEF IInv
<1>2. QED
  BY <1>1, Invariance, PTL
-----------------------------------------------------------------------------
(* Why Get ends although it starts again over a client that died: Left are   *)
(* the clients that are still to come, idle or with a user, and Stage how    *)
(* many steps a user has to go if it need not start again.                   *)
Left == {k \in Clients : \/ k > dials
                         \/ \E i \in 1..Len(idle) : idle[i] = k
                         \/ \E u \in Users : held[u] = k}

Stage(l) ==
  CASE l = "get"   -> 8
    [] l = "miss"  -> 7
    [] l \in {"dial", "await"} -> 6
    [] l \in {"count", "check"} -> 5
    [] l = "use"   -> 4
    [] l = "offer" -> 3
    [] l = "drop"  -> 2
    [] OTHER -> 1

(* A client the pool has given up never comes back; a step of a user brings  *)
(* it further or gives up a client; nobody else moves it.                    *)
Advance ==
  /\ Left' \subseteq Left
  /\ \A u \in Users :
       /\ UserStep(u) => Stage(pc'[u]) < Stage(pc[u]) \/ Left' # Left
       /\ pc[u] # "out" => UserStep(u) \/ pc'[u] = pc[u]

(* What a step may do to who has which client without making one.            *)
LEMMA NothingNew ==
  ASSUME TypeOK, dials' \in Nat, dials <= dials',
         \A v \in Users : held'[v] \in Left \cup {NoClient},
         \A i \in 1..Len(idle)' : idle'[i] \in Left
  PROVE  Left' \subseteq Left
<1> SUFFICES ASSUME NEW k \in Left' PROVE k \in Left
  OBVIOUS
<1>1. k \in Clients /\ k # NoClient
  BY DEF Left, Clients, NoClient
<1>2. CASE k > dials'
  BY <1>1, <1>2 DEF Left, TypeOK, Clients
<1>3. CASE \E i \in 1..Len(idle)' : idle'[i] = k
  BY <1>3
<1>4. CASE \E v \in Users : held'[v] = k
  BY <1>1, <1>4
<1>5. QED
  BY <1>2, <1>3, <1>4 DEF Left

(* Who is somewhere is not given up.                                         *)
LEMMA InLeft ==
  ASSUME TypeOK
  PROVE  /\ \A v \in Users : held[v] \in Left \cup {NoClient}
         /\ \A i \in 1..Len(idle) : idle[i] \in Left
<1>1. \A v \in Users : held[v] \in Left \cup {NoClient}
  BY DEF TypeOK, Left
<1>2. \A i \in 1..Len(idle) : idle[i] \in Left
  BY IdleClients DEF Left
<1>3. QED
  BY <1>1, <1>2

(* No step brings back a client.                                             *)
LEMMA LeftShrinks == ASSUME IInv, [Next]_vars PROVE Left' \subseteq Left
<1> DEFINE HeldLeft == \A v \in Users : held'[v] \in Left \cup {NoClient}
           IdleLeft == \A i \in 1..Len(idle)' : idle'[i] \in Left
<1>0. /\ TypeOK /\ dials \in Nat /\ held \in [Users -> Clients \cup {NoClient}]
      /\ \A v \in Users : held[v] \in Left \cup {NoClient}
      /\ \A i \in 1..Len(idle) : idle[i] \in Left
  BY InLeft, ConstantAssumption DEF IInv, TypeOK
<1>1. ASSUME UNCHANGED <<idle, dials>>, HeldLeft PROVE Left' \subseteq Left
  BY <1>0, <1>1, NothingNew
<1>2. ASSUME NEW u \in Users, NEW l, held' = [held EXCEPT ![u] = l], l \in Left \cup {NoClient}
      PROVE  HeldLeft
  BY <1>0, <1>2
<1>3. ASSUME UNCHANGED held PROVE HeldLeft
  BY <1>0, <1>3
<1>4. NoClient \in Left \cup {NoClient}
  OBVIOUS
<1> HIDE DEF HeldLeft
<1>5. ASSUME NEW u \in Users, Enter(u) \/ Miss(u) \/ Decide(u) \/ Count(u) \/ Drop(u)
                             \/ DialFail(u) \/ AwaitTimeout(u) \/ Check(u) \/ Put(u)
      PROVE  Left' \subseteq Left
  <2>1. UNCHANGED <<idle, dials>>
    BY <1>5 DEF Enter, Miss, Decide, Count, Drop, DialFail, AwaitTimeout, Check, Put
  <2>2. held' = held \/ held' = [held EXCEPT ![u] = NoClient]
    BY <1>5 DEF Enter, Miss, Decide, Count, Drop, DialFail, AwaitTimeout, Check, Put, Leave
  <2>3. HeldLeft
    BY <1>2, <1>3, <1>4, <2>2
  <2>4. QED
    BY <1>1, <2>1, <2>3
<1>6. ASSUME NEW u \in Users, Take(u) PROVE Left' \subseteq Left
  <2>1. idle # <<>> /\ idle' = Tail(idle) /\ held' = [held EXCEPT ![u] = Head(idle)] /\ dials' = dials
    BY <1>6 DEF Take
  <2>2. /\ Len(idle) \in Nat \ {0} /\ Head(idle) = idle[1] /\ Len(Tail(idle)) = Len(idle) - 1
        /\ \A i \in 1..Len(Tail(idle)) : Tail(idle)[i] = idle[i + 1]
    BY <1>0, <2>1, Taken
  <2>3. Head(idle) \in Left
    <3>1. 1 \in 1..Len(idle)
      BY <2>2
    <3>2. QED
      BY <1>0, <2>2, <3>1
  <2>4. IdleLeft
    <3>1. \A i \in 1..Len(Tail(idle)) : i + 1 \in 1..Len(idle)
      BY <2>2
    <3>2. \A i \in 1..Len(Tail(idle)) : Tail(idle)[i] \in Left
      BY <1>0, <2>2, <3>1
    <3>3. QED
      BY <2>1, <3>2
  <2>5. HeldLeft
    BY <1>2, <2>1, <2>3
  <2>6. QED
    BY <1>0, <2>1, <2>4, <2>5, NothingNew DEF HeldLeft
<1>7. ASSUME NEW u \in Users, Dial(u) PROVE Left' \subseteq Left
  <2>1. /\ dials' = dials + 1 /\ dials' <= MaxDials /\ idle' = idle
        /\ held' = [held EXCEPT ![u] = dials']
    BY <1>0, <1>7, ConstantAssumption DEF Dial
  <2>2. PICK k \in Nat : k = dials' /\ k > dials /\ k \in Clients
    BY <1>0, <2>1, ConstantAssumption DEF Clients
  <2>3. k \in Left
    BY <2>2 DEF Left
  <2>4. HeldLeft
    BY <1>2, <2>1, <2>2, <2>3
  <2>5. dials' \in Nat /\ dials <= dials'
    BY <1>0, <2>1
  <2>6. QED
    BY <1>0, <2>1, <2>4, <2>5, NothingNew DEF HeldLeft
<1>8. ASSUME NEW u \in Users, Offer(u) PROVE Left' \subseteq Left
  <2>1. dials' = dials
    BY <1>8 DEF Offer
  <2>2. CASE Len(idle) < MaxSize
    <3>1. /\ idle' = Append(idle, held[u]) /\ held' = [held EXCEPT ![u] = NoClient]
          /\ pc[u] = "offer"
      BY <1>8, <2>2 DEF Offer, Leave, At
    <3>2. held[u] # NoClient /\ held[u] \in Clients /\ held[u] \in Left
      BY <1>0, <3>1 DEF IInv, HoldInv, HoldingPC
    <3>3. /\ Len(idle) \in Nat /\ Len(Append(idle, held[u])) = Len(idle) + 1
          /\ \A i \in 1..Len(idle) : Append(idle, held[u])[i] = idle[i]
          /\ Append(idle, held[u])[Len(idle) + 1] = held[u]
      BY <1>0, <3>2, Offered
    <3>4. PICK n \in Nat : n = Len(idle)
      BY <3>3
    <3>5. ASSUME NEW i \in 1..(n + 1) PROVE Append(idle, held[u])[i] \in Left
      <4>1. CASE i \in 1..n
        <5>1. i \in 1..Len(idle)
          BY <3>4, <4>1
        <5>2. Append(idle, held[u])[i] = idle[i]
          BY <3>3, <5>1, Zenon
        <5>3. idle[i] \in Left
          BY <1>0, <5>1, Zenon
        <5>4. QED
          BY <5>2, <5>3, Zenon
      <4>2. CASE i = n + 1
        <5>1. Append(idle, held[u])[i] = held[u]
          BY <3>3, <3>4, <4>2, Zenon
        <5>2. QED
          BY <3>2, <5>1, Zenon
      <4>3. QED
        BY <3>4, <4>1, <4>2
    <3>6. IdleLeft
      <4>1. Len(idle)' = n + 1
        BY <3>1, <3>3, <3>4
      <4>2. QED
        BY <3>1, <3>5, <4>1, Zenon
    <3>7. HeldLeft
      BY <1>2, <1>4, <3>1
    <3>8. QED
      BY <1>0, <2>1, <3>6, <3>7, NothingNew DEF HeldLeft
  <2>3. CASE ~(Len(idle) < MaxSize)
    <3>1. UNCHANGED <<idle, dials, held>>
      BY <1>8, <2>3 DEF Offer
    <3>2. QED
      BY <1>1, <1>3, <3>1
  <2>4. QED
    BY <2>2, <2>3
<1>9. ASSUME NEW k \in Clients, Die(k) PROVE Left' \subseteq Left
  BY <1>1, <1>3, <1>9 DEF Die
<1>10. ASSUME Close PROVE Left' \subseteq Left
  <2>1. idle' = <<>> /\ UNCHANGED <<dials, held>>
    BY <1>10 DEF Close
  <2>2. HeldLeft
    BY <1>3, <2>1
  <2>3. IdleLeft
    BY <2>1
  <2>4. QED
    BY <1>0, <2>1, <2>2, <2>3, NothingNew DEF HeldLeft
<1>11. ASSUME UNCHANGED vars PROVE Left' \subseteq Left
  BY <1>1, <1>3, <1>11 DEF vars
<1>12. QED
  BY <1>5, <1>6, <1>7, <1>8, <1>9, <1>10, <1>11 DEF Next, UserStep

(* The client that Check found dead is nowhere else, so it is given up.      *)
LEMMA CheckGivesUp ==
  ASSUME IInv, NEW u \in Users, Check(u), held[u] \notin alive
  PROVE  Left' # Left
<1>1. pc[u] = "check" /\ held' = [held EXCEPT ![u] = NoClient] /\ UNCHANGED <<idle, dials>>
  BY DEF Check, At
<1>2. held[u] # NoClient /\ held[u] <= dials /\ held[u] \in Clients /\ dials \in Nat
  BY <1>1, ConstantAssumption DEF IInv, HoldInv, HoldingPC, TypeOK
<1>3. held[u] \in Left
  BY <1>2 DEF Left
<1>4. PICK k \in Clients : k = held[u]
  BY <1>2
<1>5. \A v \in Users : held'[v] # k
  BY <1>1, <1>2, <1>4 DEF IInv, OneOwner, TypeOK
<1>6. \A i \in 1..Len(idle) : idle[i] # k
  BY <1>4 DEF IInv, OneOwner
<1>7. ~(k > dials)
  <2>1. k \in Nat
    BY ConstantAssumption DEF Clients
  <2>2. QED
    BY <1>2, <1>4, <2>1
<1>8. k \notin Left'
  <2> SUFFICES ASSUME k \in Left' PROVE FALSE
    OBVIOUS
  <2>1. k > dials' \/ (\E i \in 1..Len(idle)' : idle'[i] = k) \/ (\E v \in Users : held'[v] = k)
    BY DEF Left
  <2>2. QED
    BY <1>1, <1>5, <1>6, <1>7, <2>1
<1>9. QED
  BY <1>3, <1>4, <1>8

(* The stages, as numbers.                                                   *)
LEMMA Stages ==
  /\ Stage("get") = 8 /\ Stage("miss") = 7 /\ Stage("dial") = 6 /\ Stage("await") = 6
  /\ Stage("count") = 5 /\ Stage("check") = 5 /\ Stage("use") = 4 /\ Stage("offer") = 3
  /\ Stage("drop") = 2 /\ Stage("out") = 1
  BY DEF Stage

(* A step of a user brings it further, or gives up a client.                 *)
LEMMA OwnStepAdvances ==
  ASSUME IInv, NEW u \in Users, UserStep(u)
  PROVE  /\ Stage(pc'[u]) < Stage(pc[u]) \/ Left' # Left
         /\ \A v \in Users : v # u => pc'[v] = pc[v]
<1>1. pc \in [Users -> UserPC]
  BY DEF IInv, TypeOK
<1>2. ASSUME NEW l, pc' = [pc EXCEPT ![u] = l]
      PROVE  pc'[u] = l /\ \A v \in Users : v # u => pc'[v] = pc[v]
  BY <1>1, <1>2
<1> DEFINE Ok == /\ Stage(pc'[u]) < Stage(pc[u]) \/ Left' # Left
                 /\ \A v \in Users : v # u => pc'[v] = pc[v]
<1>0. ASSUME NEW k, NEW l, pc[u] = k, pc' = [pc EXCEPT ![u] = l], Stage(l) < Stage(k)
      PROVE  Ok
  <2>1. pc'[u] = l /\ \A v \in Users : v # u => pc'[v] = pc[v]
    BY <1>0, <1>2
  <2>2. Stage(pc'[u]) = Stage(l)
    BY <2>1, Zenon
  <2>3. Stage(pc[u]) = Stage(k)
    BY <1>0, Zenon
  <2>4. QED
    BY <1>0, <2>1, <2>2, <2>3
<1> HIDE DEF Ok
<1>3. CASE Take(u)
  <2>1. PICK k \in {"get", "await"} : pc[u] = k /\ pc' = [pc EXCEPT ![u] = "check"]
    BY <1>3 DEF Take, Goto
  <2>2. Stage("check") < Stage(k)
    BY Stages
  <2>3. QED
    BY <1>0, <2>1, <2>2 DEF Ok
<1>4. CASE Check(u)
  <2>1. CASE held[u] \in alive
    <3>1. pc[u] = "check" /\ pc' = [pc EXCEPT ![u] = "use"]
      BY <1>4, <2>1 DEF Check, At, Goto
    <3>2. Stage("use") < Stage("check")
      BY Stages
    <3>3. QED
      BY <1>0, <3>1, <3>2 DEF Ok
  <2>2. CASE held[u] \notin alive
    <3>1. pc' = [pc EXCEPT ![u] = "get"]
      BY <1>4, <2>2 DEF Check, Goto
    <3>2. Left' # Left
      BY <1>4, <2>2, CheckGivesUp
    <3>3. QED
      BY <1>2, <3>1, <3>2 DEF Ok
  <2>3. QED
    BY <2>1, <2>2
<1>5. CASE Miss(u)
  <2>1. pc[u] = "get" /\ pc' = [pc EXCEPT ![u] = "miss"]
    BY <1>5 DEF Miss, At, Goto
  <2>2. Stage("miss") < Stage("get")
    BY Stages
  <2>3. QED
    BY <1>0, <2>1, <2>2 DEF Ok
<1>6. CASE Decide(u)
  <2>1. PICK l \in {"dial", "await"} : pc[u] = "miss" /\ pc' = [pc EXCEPT ![u] = l]
    BY <1>6 DEF Decide, At, Goto
  <2>2. Stage(l) < Stage("miss")
    BY Stages
  <2>3. QED
    BY <1>0, <2>1, <2>2 DEF Ok
<1>7. CASE Dial(u)
  <2>1. pc[u] = "dial" /\ pc' = [pc EXCEPT ![u] = "count"]
    BY <1>7 DEF Dial, At, Goto
  <2>2. Stage("count") < Stage("dial")
    BY Stages
  <2>3. QED
    BY <1>0, <2>1, <2>2 DEF Ok
<1>8. CASE Count(u)
  <2>1. pc[u] = "count" /\ pc' = [pc EXCEPT ![u] = "use"]
    BY <1>8 DEF Count, At, Goto
  <2>2. Stage("use") < Stage("count")
    BY Stages
  <2>3. QED
    BY <1>0, <2>1, <2>2 DEF Ok
<1>9. CASE DialFail(u) \/ AwaitTimeout(u) \/ Drop(u)
  <2>1. PICK k \in {"dial", "await", "drop"} : pc[u] = k /\ pc' = [pc EXCEPT ![u] = "out"]
    BY <1>9 DEF DialFail, AwaitTimeout, Drop, Leave, At, Goto
  <2>2. Stage("out") < Stage(k)
    BY Stages
  <2>3. QED
    BY <1>0, <2>1, <2>2 DEF Ok
<1>10. CASE Put(u)
  <2>1. PICK l \in {"offer", "out"} : pc[u] = "use" /\ pc' = [pc EXCEPT ![u] = l]
    BY <1>10 DEF Put, Leave, At, Goto
  <2>2. Stage(l) < Stage("use")
    BY Stages
  <2>3. QED
    BY <1>0, <2>1, <2>2 DEF Ok
<1>11. CASE Offer(u)
  <2>1. PICK l \in {"drop", "out"} : pc[u] = "offer" /\ pc' = [pc EXCEPT ![u] = l]
    BY <1>11 DEF Offer, Leave, At, Goto
  <2>2. Stage(l) < Stage("offer")
    BY Stages
  <2>3. QED
    BY <1>0, <2>1, <2>2 DEF Ok
<1>12. QED
  BY <1>3, <1>4, <1>5, <1>6, <1>7, <1>8, <1>9, <1>10, <1>11 DEF UserStep, Ok

(* No Get goes on for ever over clients that die (Get's recursion, its wait  *)
(* and the deferred Put): a user comes nearer to its end with every step of  *)
(* its own, but for the steps that give up a client, of which there are as   *)
(* many as clients; no step of anybody else takes it back.                   *)
THEOREM GetsAdvance == Spec => [][Advance]_vars
<1>1. ASSUME IInv, [Next]_vars PROVE Advance
  <2>1. Left' \subseteq Left
    BY <1>1, LeftShrinks
  <2>2. \A u \in Users : UserStep(u) => Stage(pc'[u]) < Stage(pc[u]) \/ Left' # Left
    BY <1>1, OwnStepAdvances
  <2>3. ASSUME NEW u \in Users, pc[u] # "out" PROVE UserStep(u) \/ pc'[u] = pc[u]
    <3>1. ASSUME NEW v \in Users, UserStep(v) PROVE UserStep(u) \/ pc'[u] = pc[u]
      BY <1>1, <3>1, OwnStepAdvances
    <3>2. ASSUME NEW v \in Users, Enter(v) PROVE pc'[u] = pc[u]
      BY <1>1, <2>3, <3>2 DEF Enter, At, Goto, IInv, TypeOK
    <3>3. ASSUME NEW k \in Clients, Die(k) PROVE pc' = pc
      BY <3>3 DEF Die
    <3>4. ASSUME Close \/ UNCHANGED vars PROVE pc' = pc
      BY <3>4 DEF Close, vars
    <3>5. QED
      BY <1>1, <3>1, <3>2, <3>3, <3>4 DEF Next
  <2>4. QED
    BY <2>1, <2>2, <2>3 DEF Advance
<1>2. IInv /\ [Next]_vars => [Advance]_vars
  BY <1>1
<1>3. QED
  BY <1>2, Invariance, PTL DEF Spec
=============================================================================
