-------------------------- MODULE LobbyRoomsProofs --------------------------
(***************************************************************************)
(* Theorems about LobbyRooms, for any number of handlers.  First what      *)
(* $pull does to a list of players (NotUser), by induction on the list;    *)
(* then the types; then what holds of a room as long as no two requests    *)
(* have overlapped on it (it is not in raced): the copy a handler has read *)
(* is the room (InStep), which is what makes RoomConsistent inductive.     *)
(***************************************************************************)
EXTENDS LobbyRooms, SequenceTheorems, WellFoundedInduction, TLAPS

-----------------------------------------------------------------------------
(* Induction on the natural numbers, as a least counterexample.            *)
Before == {p \in Nat \X Nat : p[1] < p[2]}

(* The order of the natural numbers is well-founded.                       *)
LEMMA BeforeIsWellFounded == IsWellFoundedOn(Before, Nat)
BY NatLessThanWellFounded DEF Before, OpToRel

(* A set of numbers that is not empty has a least element.                 *)
LEMMA Least ==
  ASSUME NEW S \in SUBSET Nat, S # {}
  PROVE  \E n \in S : \A m \in S : n <= m
<1>1. PICK n \in S : \A m \in S : <<m, n>> \notin Before
  BY WFMin, BeforeIsWellFounded
<1>2. \A m \in S : n <= m
  <2> SUFFICES ASSUME NEW m \in S PROVE n <= m
    OBVIOUS
  <2>1. m \in Nat /\ n \in Nat /\ <<m, n>> \notin Before
    BY <1>1
  <2>2. QED
    BY <2>1 DEF Before
<1>3. QED
  BY <1>2

(* A set of numbers without a first exception is all the numbers up to k.  *)
LEMMA AllUpTo ==
  ASSUME NEW k \in Nat, NEW S, 0 \in S, \A n \in 1..k : n - 1 \in S => n \in S
  PROVE  \A n \in 0..k : n \in S
<1> SUFFICES ASSUME NEW b \in 0..k, b \notin S PROVE FALSE
  OBVIOUS
<1> DEFINE Bad == {n \in 0..k : n \notin S}
<1>1. Bad \in SUBSET Nat /\ Bad # {}
  OBVIOUS
<1>2. PICK n \in Bad : \A m \in Bad : n <= m
  <2> HIDE DEF Bad
  <2>1. QED
    BY <1>1, Least
<1>3. n # 0 /\ n \in 1..k /\ n - 1 \in 0..k
  BY <1>2
<1>4. n - 1 \in S
  BY <1>2, <1>3
<1>5. QED
  BY <1>2, <1>3, <1>4

-----------------------------------------------------------------------------
(* f[n] is the list of the first n players of s that are not u.            *)
Pulls(f, s, u, k) ==
  f = [n \in 0..k |->
         IF n = 0 THEN <<>> ELSE IF s[n] = u THEN f[n - 1] ELSE Append(f[n - 1], s[n])]

(* There is such a function, so that the recursion in NotUser defines one. *)
LEMMA PullsExist ==
  ASSUME NEW S, NEW s \in Seq(S), NEW u
  PROVE  \E f : Pulls(f, s, u, Len(s))
<1> DEFINE Good == {k \in 0..Len(s) : \E f : Pulls(f, s, u, k)}
<1>1. 0 \in Good
  <2>1. Pulls([n \in 0..0 |-> <<>>], s, u, 0)
    BY DEF Pulls
  <2>2. QED
    BY <2>1, LenProperties
<1>2. ASSUME NEW n \in 1..Len(s), n - 1 \in Good PROVE n \in Good
  <2>1. PICK g : Pulls(g, s, u, n - 1)
    BY <1>2
  <2> DEFINE h == [m \in 0..n |-> IF m < n THEN g[m]
                                  ELSE IF s[n] = u THEN g[n - 1] ELSE Append(g[n - 1], s[n])]
  <2>2. \A m \in 0..(n - 1) : h[m] = g[m]
    OBVIOUS
  <2>3. h[n] = IF s[n] = u THEN h[n - 1] ELSE Append(h[n - 1], s[n])
    OBVIOUS
  <2>4. ASSUME NEW m \in 0..n
        PROVE  h[m] = IF m = 0 THEN <<>> ELSE IF s[m] = u THEN h[m - 1] ELSE Append(h[m - 1], s[m])
    <3>1. CASE m = n
      BY <2>3, <3>1
    <3>2. CASE m # n
      <4>0. m \in 0..(n - 1)
        BY <3>2
      <4>1. g[m] = IF m = 0 THEN <<>> ELSE IF s[m] = u THEN g[m - 1] ELSE Append(g[m - 1], s[m])
        BY <2>1, <4>0, Zenon DEF Pulls
      <4>2. CASE m = 0
        BY <2>2, <4>0, <4>1, <4>2
      <4>3. CASE m # 0
        <5>1. m - 1 \in 0..(n - 1)
          BY <4>0, <4>3
        <5>2. h[m] = g[m] /\ h[m - 1] = g[m - 1]
          BY <2>2, <4>0, <5>1
        <5>3. QED
          BY <4>1, <4>3, <5>2
      <4>4. QED
        BY <4>2, <4>3
    <3>3. QED
      BY <3>1, <3>2
  <2>5. h = [m \in 0..n |-> h[m]]
    OBVIOUS
  <2> HIDE DEF h
  <2>6. Pulls(h, s, u, n)
    BY <2>4, <2>5 DEF Pulls
  <2>7. QED
    BY <2>6
<1>3. Len(s) \in Nat
  BY LenProperties
<1> HIDE DEF Good
<1>4. \A n \in 0..Len(s) : n \in Good
  BY <1>1, <1>2, <1>3, AllUpTo
<1>5. Len(s) \in Good
  BY <1>3, <1>4
<1>6. QED
  BY <1>5 DEF Good

(* NotUser is the last list of such a function.                            *)
LEMMA NotUserPulls ==
  ASSUME NEW S, NEW s \in Seq(S), NEW u
  PROVE  \E f : Pulls(f, s, u, Len(s)) /\ NotUser(s, u) = f[Len(s)]
<1> DEFINE f == CHOOSE f : f = [n \in 0..Len(s) |->
                 IF n = 0 THEN <<>> ELSE IF s[n] = u THEN f[n - 1] ELSE Append(f[n - 1], s[n])]
<1>1. NotUser(s, u) = f[Len(s)]
  BY DEF NotUser
<1>2. f = CHOOSE g : Pulls(g, s, u, Len(s))
  BY Zenon DEF Pulls
<1> HIDE DEF f
<1>3. Pulls(f, s, u, Len(s))
  BY <1>2, PullsExist, Zenon
<1>4. QED
  BY <1>1, <1>3

Listed(s)    == {s[i] : i \in 1..Len(s)}
First(s, n)  == {s[i] : i \in 1..n}
NobodyTwice(s) == \A i, j \in 1..Len(s) : i # j => s[i] # s[j]

(* One more at the end of a list ($push).                                  *)
LEMMA Pushed ==
  ASSUME NEW S, NEW s \in Seq(S), NEW x \in S
  PROVE  /\ Append(s, x) \in Seq(S) /\ Len(Append(s, x)) = Len(s) + 1
         /\ Listed(Append(s, x)) = Listed(s) \cup {x}
         /\ NobodyTwice(s) /\ x \notin Listed(s) => NobodyTwice(Append(s, x))
<1> DEFINE t == Append(s, x)
<1>1. /\ t \in Seq(S) /\ Len(s) \in Nat /\ Len(t) = Len(s) + 1 /\ t[Len(s) + 1] = x
      /\ \A i \in 1..Len(s) : t[i] = s[i]
  BY AppendProperties, LenProperties
<1> HIDE DEF t
<1>2. Listed(t) = Listed(s) \cup {x}
  <2>1. 1..Len(t) = 1..Len(s) \cup {Len(s) + 1}
    BY <1>1
  <2>2. QED
    BY <1>1, <2>1 DEF Listed
<1>3. NobodyTwice(s) /\ x \notin Listed(s) => NobodyTwice(t)
  BY <1>1 DEF NobodyTwice, Listed
<1>4. QED
  BY <1>1, <1>2, <1>3 DEF t

(* g is what is left of the first n of s when u is pulled.                 *)
Left(g, S, s, u, n) ==
  /\ g \in Seq(S)
  /\ Listed(g) = First(s, n) \ {u}
  /\ NobodyTwice(s) => /\ NobodyTwice(g)
                       /\ u \in First(s, n) => Len(g) = n - 1
                       /\ u \notin First(s, n) => Len(g) = n

(* Each list of the recursion is what is left of a part of s.              *)
LEMMA PullsLeave ==
  ASSUME NEW S, NEW s \in Seq(S), NEW u, NEW f, Pulls(f, s, u, Len(s))
  PROVE  Left(f[Len(s)], S, s, u, Len(s))
<1>1. Len(s) \in Nat
  BY LenProperties
<1>2. f[0] = <<>>
  <2>1. 0 \in 0..Len(s)
    BY <1>1
  <2>2. QED
    BY <2>1, Zenon DEF Pulls
<1>3. ASSUME NEW n \in 1..Len(s)
      PROVE  f[n] = IF s[n] = u THEN f[n - 1] ELSE Append(f[n - 1], s[n])
  <2>1. n \in 0..Len(s) /\ n # 0
    BY <1>1
  <2>2. QED
    BY <2>1, Zenon DEF Pulls
<1> DEFINE Good == {n \in 0..Len(s) : Left(f[n], S, s, u, n)}
<1>4. 0 \in Good
  <2>1. <<>> \in Seq(S) /\ Len(<<>>) = 0
    BY EmptySeq
  <2>2. First(s, 0) = {} /\ Listed(<<>>) = {} /\ NobodyTwice(<<>>)
    BY <2>1 DEF First, Listed, NobodyTwice
  <2>3. {} = {} \ {u}
    OBVIOUS
  <2>4. Left(<<>>, S, s, u, 0)
    BY <2>1, <2>2, <2>3 DEF Left
  <2>5. QED
    BY <1>1, <1>2, <2>4
<1>5. ASSUME NEW n \in 1..Len(s), n - 1 \in Good PROVE n \in Good
  <2> DEFINE g == f[n - 1]
  <2>1. Left(g, S, s, u, n - 1)
    BY <1>5
  <2>2. f[n] = IF s[n] = u THEN g ELSE Append(g, s[n])
    BY <1>3
  <2> HIDE DEF g
  <2>3. n \in Nat /\ n > 0 /\ s[n] \in S /\ First(s, n) = First(s, n - 1) \cup {s[n]}
    <3>1. 1..n = 1..(n - 1) \cup {n}
      BY <1>1
    <3>2. s[n] \in S
      BY ElementOfSeq
    <3>3. QED
      BY <1>1, <3>1, <3>2 DEF First
  <2>4. NobodyTwice(s) => s[n] \notin First(s, n - 1)
    BY <1>1 DEF NobodyTwice, First
  <2>5. CASE s[n] = u
    <3>1. f[n] = g
      BY <2>2, <2>5
    <3>2. Left(g, S, s, u, n)
      BY <2>1, <2>3, <2>4, <2>5 DEF Left
    <3>3. QED
      BY <1>1, <3>1, <3>2
  <2>6. CASE s[n] # u
    <3>1. f[n] = Append(g, s[n])
      BY <2>2, <2>6
    <3>2. g \in Seq(S) /\ Len(g) \in Nat
      BY <2>1, LenProperties DEF Left
    <3>3. Listed(g) = First(s, n - 1) \ {u}
      BY <2>1 DEF Left
    <3>4. /\ Append(g, s[n]) \in Seq(S) /\ Len(Append(g, s[n])) = Len(g) + 1
          /\ Listed(Append(g, s[n])) = Listed(g) \cup {s[n]}
          /\ NobodyTwice(g) /\ s[n] \notin Listed(g) => NobodyTwice(Append(g, s[n]))
      BY <2>3, <3>2, Pushed
    <3>5. Listed(Append(g, s[n])) = First(s, n) \ {u}
      BY <2>3, <2>6, <3>3, <3>4
    <3>6. NobodyTwice(s) => NobodyTwice(Append(g, s[n]))
      BY <2>1, <2>4, <3>3, <3>4 DEF Left
    <3>7. NobodyTwice(s) => /\ u \in First(s, n) => Len(Append(g, s[n])) = n - 1
                            /\ u \notin First(s, n) => Len(Append(g, s[n])) = n
      BY <2>1, <2>3, <2>6, <3>2, <3>4 DEF Left
    <3>8. Left(f[n], S, s, u, n)
      BY <3>1, <3>4, <3>5, <3>6, <3>7 DEF Left
    <3>9. QED
      BY <1>1, <3>8
  <2>7. QED
    BY <2>5, <2>6
<1> HIDE DEF Good
<1>6. \A n \in 0..Len(s) : n \in Good
  BY <1>1, <1>4, <1>5, AllUpTo
<1>7. Len(s) \in Good
  BY <1>1, <1>6
<1>8. QED
  BY <1>7 DEF Good

(* What is left of a list of players without u: the others, each as often  *)
(* as before, and one player less when nobody was listed twice.            *)
LEMMA Pulled ==
  ASSUME NEW S, NEW s \in Seq(S), NEW u
  PROVE  /\ NotUser(s, u) \in Seq(S) /\ Listed(NotUser(s, u)) = Listed(s) \ {u}
         /\ NobodyTwice(s) => NobodyTwice(NotUser(s, u))
         /\ NobodyTwice(s) /\ u \in Listed(s) => Len(NotUser(s, u)) = Len(s) - 1
<1>1. PICK f : Pulls(f, s, u, Len(s)) /\ NotUser(s, u) = f[Len(s)]
  BY NotUserPulls
<1>2. Left(NotUser(s, u), S, s, u, Len(s))
  BY <1>1, PullsLeave
<1>3. First(s, Len(s)) = Listed(s)
  BY DEF First, Listed
<1>4. QED
  BY <1>2, <1>3 DEF Left

-----------------------------------------------------------------------------
(* A handler that serves a request has a user and a room; one that is to   *)
(* hand the room over has somebody to hand it to.  An idle one has neither. *)
Busy ==
  \A h \in Handlers :
    /\ pc[h] = Idle => roomID[h] = 0
    /\ pc[h] # Idle =>
         /\ user[h] \in Users /\ roomID[h] \in RoomIds /\ room[h] \in Room
         /\ pc[h] \in {"leave_owner", "transfer"} => Others(room[h], user[h]) # <<>>

TInv == TypeOK /\ Busy

(* A room that is not raced is worked on by one handler at most.           *)
Alone ==
  \A h, k \in Handlers : pc[h] # Idle /\ roomID[h] \notin raced /\ roomID[k] = roomID[h] => h = k

(* Nobody listed twice, and counted right.                                 *)
Consistent(ro) == NobodyTwice(ro.players) /\ ro.count = Len(ro.players)

(* What a handler has read of such a room is still so.                     *)
AsRead(h) ==
  /\ roomID[h] \in DOMAIN rooms
  /\ Consistent(room[h])
  /\ pc[h] # "transfer" => rooms[roomID[h]] = room[h]
  /\ pc[h] = "transfer" =>
       rooms[roomID[h]] = [room[h] EXCEPT !.players = NotUser(@, user[h]), !.count = @ - 1]
InStep == \A h \in Handlers : pc[h] # Idle /\ roomID[h] \notin raced => AsRead(h)

(* What a handler has concluded from what it read, whatever has happened   *)
(* to the room since.                                                      *)
Concluded ==
  \A h \in Handlers :
    /\ pc[h] = "join" => user[h] \notin Members(room[h])
    /\ pc[h] \notin {Idle, "join"} => user[h] \in Members(room[h])
    /\ pc[h] = "leave" => room[h].owner # user[h]
    /\ pc[h] = "delete" => room[h].count <= 1

AllConsistent == \A r \in DOMAIN rooms \ raced : Consistent(rooms[r])

(* Until a call fails the owner is in the room, or about to be replaced.   *)
OwnerThere ==
  faults = 0 => \A r \in DOMAIN rooms \ raced :
    \/ rooms[r].owner \in Members(rooms[r])
    \/ \E h \in Handlers : pc[h] = "transfer" /\ roomID[h] = r

RInv == Alone /\ InStep /\ Concluded /\ AllConsistent /\ OwnerThere
IInv == TInv /\ RInv

-----------------------------------------------------------------------------
(* The members of a room are the players it lists.                         *)
LEMMA MembersListed == \A ro : Members(ro) = Listed(ro.players)
BY DEF Members, Listed

(* A room from which a player is pulled, and one to which one is pushed.   *)
LEMMA RoomPulled ==
  ASSUME NEW ro \in Room, NEW u
  PROVE  LET q == [ro EXCEPT !.players = NotUser(@, u), !.count = @ - 1]
         IN  /\ q \in Room /\ q.owner = ro.owner /\ Members(q) = Members(ro) \ {u}
             /\ Consistent(ro) /\ u \in Members(ro) => Consistent(q)
<1>1. /\ ro.players \in Seq(Users) /\ ro.owner \in Users /\ ro.count \in Int
  BY DEF Room
<1>2. /\ NotUser(ro.players, u) \in Seq(Users)
      /\ Listed(NotUser(ro.players, u)) = Listed(ro.players) \ {u}
      /\ NobodyTwice(ro.players) => NobodyTwice(NotUser(ro.players, u))
      /\ NobodyTwice(ro.players) /\ u \in Listed(ro.players)
           => Len(NotUser(ro.players, u)) = Len(ro.players) - 1
  BY <1>1, Pulled
<1> DEFINE q == [ro EXCEPT !.players = NotUser(@, u), !.count = @ - 1]
<1>3. /\ q \in Room /\ q.owner = ro.owner /\ q.players = NotUser(ro.players, u)
      /\ q.count = ro.count - 1
  <2>1. q = [ro EXCEPT !.players = NotUser(ro.players, u), !.count = ro.count - 1]
    BY DEF Room
  <2>2. ro.count - 1 \in Int
    BY <1>1
  <2>3. QED
    BY <1>1, <1>2, <2>1, <2>2 DEF Room
<1> HIDE DEF q
<1>4. Members(q) = Members(ro) \ {u}
  BY <1>2, <1>3, MembersListed
<1>5. Consistent(ro) /\ u \in Members(ro) => Consistent(q)
  BY <1>2, <1>3, MembersListed DEF Consistent
<1>6. QED
  BY <1>3, <1>4, <1>5 DEF q

(* A room to which a player is added.                                      *)
LEMMA RoomPushed ==
  ASSUME NEW ro \in Room, NEW u \in Users
  PROVE  LET q == [ro EXCEPT !.players = Append(@, u), !.count = @ + 1]
         IN  /\ q \in Room /\ q.owner = ro.owner /\ Members(q) = Members(ro) \cup {u}
             /\ Consistent(ro) /\ u \notin Members(ro) => Consistent(q)
<1>1. /\ ro.players \in Seq(Users) /\ ro.owner \in Users /\ ro.count \in Int
  BY DEF Room
<1>2. /\ Append(ro.players, u) \in Seq(Users)
      /\ Len(Append(ro.players, u)) = Len(ro.players) + 1
      /\ Listed(Append(ro.players, u)) = Listed(ro.players) \cup {u}
      /\ NobodyTwice(ro.players) /\ u \notin Listed(ro.players) => NobodyTwice(Append(ro.players, u))
  BY <1>1, Pushed
<1> DEFINE q == [ro EXCEPT !.players = Append(@, u), !.count = @ + 1]
<1>3. /\ q \in Room /\ q.owner = ro.owner /\ q.players = Append(ro.players, u)
      /\ q.count = ro.count + 1
  <2>1. q = [ro EXCEPT !.players = Append(ro.players, u), !.count = ro.count + 1]
    BY DEF Room
  <2>2. ro.count + 1 \in Int
    BY <1>1
  <2>3. QED
    BY <1>1, <1>2, <2>1, <2>2 DEF Room
<1> HIDE DEF q
<1>4. Members(q) = Members(ro) \cup {u}
  BY <1>2, <1>3, MembersListed
<1>5. Consistent(ro) /\ u \notin Members(ro) => Consistent(q)
  BY <1>2, <1>3, MembersListed DEF Consistent
<1>6. QED
  BY <1>3, <1>4, <1>5 DEF q

(* A collection of rooms of the right type.                                *)
Collection(c) == DOMAIN c \subseteq RoomIds /\ \A r \in DOMAIN c : c[r] \in Room

(* An update of one room by a room keeps the collection's type.            *)
LEMMA ChangedType ==
  ASSUME Collection(rooms), NEW r, NEW ro, r \in DOMAIN rooms => ro \in Room
  PROVE  Collection(Changed(r, ro)) /\ DOMAIN Changed(r, ro) = DOMAIN rooms
BY DEF Collection, Changed

(* $push, $pull and the deletion keep the collection's type.               *)
LEMMA UpdateTypes ==
  ASSUME Collection(rooms), NEW r, NEW u \in Users
  PROVE  /\ Collection(AddPlayerToRoom(r, u)) /\ Collection(RemovePlayerFromRoom(r, u))
         /\ Collection(DeleteRoom(r))
<1>1. ASSUME r \in DOMAIN rooms
      PROVE  /\ [rooms[r] EXCEPT !.players = Append(@, u), !.count = @ + 1] \in Room
             /\ [rooms[r] EXCEPT !.players = NotUser(@, u), !.count = @ - 1] \in Room
  <2>1. rooms[r] \in Room
    BY <1>1 DEF Collection
  <2>2. QED
    BY <2>1, RoomPulled, RoomPushed
<1>2. Collection(AddPlayerToRoom(r, u))
  BY <1>1, ChangedType DEF AddPlayerToRoom
<1>3. Collection(RemovePlayerFromRoom(r, u))
  BY <1>1, ChangedType DEF RemovePlayerFromRoom
<1>4. Collection(DeleteRoom(r))
  BY DEF Collection, DeleteRoom
<1>5. QED
  BY <1>2, <1>3, <1>4

(* The first of the others is one of them.                                 *)
LEMMA NewOwner ==
  ASSUME NEW ro \in Room, NEW u, Others(ro, u) # <<>>
  PROVE  /\ Head(Others(ro, u)) \in Members(ro) \ {u} /\ Head(Others(ro, u)) \in Users
         /\ [ro EXCEPT !.owner = Head(Others(ro, u))] \in Room
<1>1. ro.players \in Seq(Users)
  BY DEF Room
<1>2. /\ Others(ro, u) \in Seq(Users) /\ Listed(Others(ro, u)) = Listed(ro.players) \ {u}
  BY <1>1, Pulled DEF Others
<1>3. /\ Len(Others(ro, u)) \in Nat /\ Len(Others(ro, u)) >= 1
      /\ Head(Others(ro, u)) = Others(ro, u)[1] /\ Head(Others(ro, u)) \in Users
  BY <1>2, EmptySeq, HeadTailProperties, LenProperties
<1>4. Head(Others(ro, u)) \in Listed(Others(ro, u))
  BY <1>3 DEF Listed
<1>5. QED
  BY <1>2, <1>3, <1>4, MembersListed DEF Room

-----------------------------------------------------------------------------
(* Init establishes the types.                                             *)
LEMMA InitTypes == Init => TInv
<1> SUFFICES ASSUME Init PROVE TInv
  OBVIOUS
<1> USE ConstantAssumption
<1>1. DOMAIN rooms = {} /\ gone \in SUBSET (Users \X RoomIds)
  BY Zenon DEF Init
<1>2. TypeOK
  BY <1>1 DEF Init, TypeOK
<1>3. Busy
  BY DEF Init, Busy
<1>4. QED
  BY <1>2, <1>3 DEF TInv

(* A handler that returns, or goes on with the room it has read.           *)
LEMMA HandlerTypes ==
  ASSUME TInv, NEW h \in Handlers,
         Return(h) \/ \E u \in Users, r \in DOMAIN rooms :
           \E l \in {"join", "delete", "leave", "leave_owner", "nothing"} :
             GoOn(h, u, r, l) /\ (l = "leave_owner" => Others(rooms[r], u) # <<>>)
  PROVE  /\ pc' \in [Handlers -> {Idle, "join", "delete", "leave", "leave_owner", "nothing", "transfer"}]
         /\ user' \in [Handlers -> Users \cup {NoUser}]
         /\ roomID' \in [Handlers -> RoomIds \cup {0}]
         /\ room' \in [Handlers -> {<<>>} \cup Room]
         /\ Busy'
<1>1. TypeOK /\ Busy
  BY DEF TInv
<1>2. CASE Return(h)
  BY <1>1, <1>2 DEF Return, TypeOK, Busy, Others
<1>3. ASSUME NEW u \in Users, NEW r \in DOMAIN rooms,
             NEW l \in {"join", "delete", "leave", "leave_owner", "nothing"},
             GoOn(h, u, r, l), l = "leave_owner" => Others(rooms[r], u) # <<>>
      PROVE  /\ pc' \in [Handlers -> {Idle, "join", "delete", "leave", "leave_owner", "nothing", "transfer"}]
             /\ user' \in [Handlers -> Users \cup {NoUser}]
             /\ roomID' \in [Handlers -> RoomIds \cup {0}]
             /\ room' \in [Handlers -> {<<>>} \cup Room]
             /\ Busy'
  <2>1. rooms[r] \in Room /\ r \in RoomIds
    BY <1>1 DEF TypeOK
  <2>2. /\ pc' = [pc EXCEPT ![h] = l] /\ user' = [user EXCEPT ![h] = u]
        /\ roomID' = [roomID EXCEPT ![h] = r] /\ room' = [room EXCEPT ![h] = rooms[r]]
    BY <1>3 DEF GoOn
  <2>3. Busy'
    <3>1. l # Idle /\ l # "transfer"
      BY DEF Idle
    <3>2. QED
      BY <1>1, <1>3, <2>1, <2>2, <3>1 DEF TypeOK, Busy, Others
  <2>4. QED
    BY <1>1, <2>1, <2>2, <2>3 DEF TypeOK
<1>4. QED
  BY <1>2, <1>3

(* ... and the histories when it does.                                     *)
LEMMA ReadTypes ==
  ASSUME TypeOK, NEW h, NEW u, NEW r \in RoomIds, NEW l, GoOn(h, u, r, l)
  PROVE  raced' \in SUBSET RoomIds /\ reads' \in 0..MaxReads
<1>1. raced \in SUBSET RoomIds /\ reads \in 0..MaxReads /\ MaxReads \in Nat
  BY ConstantAssumption DEF TypeOK
<1>2. QED
  BY <1>1 DEF GoOn

(* Every step keeps the types, for any number of handlers.                 *)
LEMMA TypeStep == TInv /\ [Next]_vars => TInv'
<1> SUFFICES ASSUME TInv, [Next]_vars PROVE TInv'
  OBVIOUS
<1> USE ConstantAssumption
<1>1. TypeOK /\ Busy /\ Collection(rooms)
  BY DEF TInv, TypeOK, Collection
<1>2. ASSUME Collection(rooms'), nextRoomID' \in 1..(MaxRooms + 1), faults' \in 0..MaxFaults,
             gone' \in SUBSET (Users \X RoomIds), raced' \in SUBSET RoomIds, reads' \in 0..MaxReads,
             UNCHANGED handlerVars \/
             \E h \in Handlers : Return(h) \/ \E u \in Users, r \in DOMAIN rooms :
               \E l \in {"join", "delete", "leave", "leave_owner", "nothing"} :
                 GoOn(h, u, r, l) /\ (l = "leave_owner" => Others(rooms[r], u) # <<>>)
      PROVE  TInv'
  <2>1. CASE UNCHANGED handlerVars
    BY <1>1, <1>2, <2>1 DEF handlerVars, TInv, TypeOK, Busy, Others, Collection
  <2>2. CASE \E h \in Handlers : Return(h) \/ \E u \in Users, r \in DOMAIN rooms :
               \E l \in {"join", "delete", "leave", "leave_owner", "nothing"} :
                 GoOn(h, u, r, l) /\ (l = "leave_owner" => Others(rooms[r], u) # <<>>)
    BY <1>2, <2>2, HandlerTypes DEF TInv, TypeOK, Collection
  <2>3. QED
    BY <1>2, <2>1, <2>2
<1>3. ASSUME NEW h \in Handlers, NEW u \in Users, Create(h, u) PROVE TInv'
  <2>1. nextRoomID \in RoomIds /\ nextRoomID' \in 1..(MaxRooms + 1)
    BY <1>1, <1>3 DEF Create, TypeOK, RoomIds
  <2>2. <<u>> \in Seq(Users)
    OBVIOUS
  <2>3. [owner |-> u, players |-> <<u>>, count |-> 1] \in Room
    BY <2>2 DEF Room
  <2>4. Collection(rooms') /\ gone' \in SUBSET (Users \X RoomIds)
    BY <1>1, <1>3, <2>1, <2>3 DEF Create, Collection, TypeOK
  <2>5. QED
    BY <1>1, <1>2, <1>3, <2>1, <2>4 DEF Create, TypeOK, readVars
<1>4. ASSUME NEW h \in Handlers, NEW u \in Users, NEW r \in RoomIds, JoinRead(h, u, r) PROVE TInv'
  <2>1. raced' \in SUBSET RoomIds /\ reads' \in 0..MaxReads
    BY <1>1, <1>4, ReadTypes DEF JoinRead
  <2>2. QED
    BY <1>1, <1>2, <1>4, <2>1 DEF JoinRead, TypeOK
<1>5. ASSUME NEW h \in Handlers, NEW u \in Users, NEW r \in RoomIds, LeaveRead(h, u, r) PROVE TInv'
  <2>1. /\ LeaveStep(rooms[r], u) \in {"join", "delete", "leave", "leave_owner", "nothing"}
        /\ LeaveStep(rooms[r], u) = "leave_owner" => Others(rooms[r], u) # <<>>
    BY DEF LeaveStep
  <2>2. raced' \in SUBSET RoomIds /\ reads' \in 0..MaxReads
    BY <1>1, <1>5, ReadTypes DEF LeaveRead
  <2>3. QED
    BY <1>1, <1>2, <1>5, <2>1, <2>2 DEF LeaveRead, TypeOK
<1>6. ASSUME NEW h \in Handlers, JoinAdd(h) PROVE TInv'
  <2>1. user[h] \in Users
    BY <1>1, <1>6 DEF JoinAdd, At, Busy, Idle
  <2>2. Collection(rooms')
    BY <1>1, <1>6, <2>1, UpdateTypes DEF JoinAdd
  <2>3. QED
    BY <1>1, <1>2, <1>6, <2>2 DEF JoinAdd, TypeOK, histVars, readVars
<1>7. ASSUME NEW h \in Handlers, LeaveWrite(h) PROVE TInv'
  <2>1. user[h] \in Users /\ roomID[h] \in RoomIds
    BY <1>1, <1>7 DEF LeaveWrite, Busy, Idle
  <2>2. Collection(rooms')
    BY <1>1, <1>7, <2>1, UpdateTypes DEF LeaveWrite, At
  <2>3. gone' \in SUBSET (Users \X RoomIds)
    BY <1>1, <1>7, <2>1 DEF LeaveWrite, ReturnLeft, TypeOK
  <2>4. QED
    BY <1>1, <1>2, <1>7, <2>2, <2>3 DEF LeaveWrite, ReturnLeft, TypeOK, readVars
<1>8. ASSUME NEW h \in Handlers, LeaveOwnerRemove(h) PROVE TInv'
  <2>1. user[h] \in Users /\ pc[h] = "leave_owner"
    BY <1>1, <1>8 DEF LeaveOwnerRemove, At, Busy, Idle
  <2>2. Collection(rooms')
    BY <1>1, <1>8, <2>1, UpdateTypes DEF LeaveOwnerRemove
  <2>3. TypeOK'
    BY <1>1, <1>8, <2>2 DEF LeaveOwnerRemove, TypeOK, Collection, histVars, readVars
  <2>4. Busy'
    BY <1>1, <1>8, <2>1 DEF LeaveOwnerRemove, TypeOK, Busy, Idle, Others
  <2>5. QED
    BY <2>3, <2>4 DEF TInv
<1>9. ASSUME NEW h \in Handlers, LeaveTransfer(h) PROVE TInv'
  <2>1. user[h] \in Users /\ roomID[h] \in RoomIds /\ room[h] \in Room /\ Others(room[h], user[h]) # <<>>
    BY <1>1, <1>9 DEF LeaveTransfer, At, Busy, Idle
  <2>2. Collection(rooms')
    BY <1>1, <1>9, <2>1, NewOwner, ChangedType DEF LeaveTransfer, UpdateRoom
  <2>3. gone' \in SUBSET (Users \X RoomIds)
    BY <1>1, <1>9, <2>1 DEF LeaveTransfer, ReturnLeft, TypeOK
  <2>4. QED
    BY <1>1, <1>2, <1>9, <2>2, <2>3 DEF LeaveTransfer, ReturnLeft, TypeOK, readVars
<1>10. ASSUME NEW h \in Handlers, CallFails(h) PROVE TInv'
  <2>1. user[h] \in Users /\ roomID[h] \in RoomIds
    BY <1>1, <1>10 DEF CallFails, Busy, Idle
  <2>2. gone' \in SUBSET (Users \X RoomIds) /\ Return(h)
    BY <1>1, <1>10, <2>1 DEF CallFails, ReturnLeft, TypeOK
  <2>3. QED
    BY <1>1, <1>2, <1>10, <2>2 DEF CallFails, TypeOK, readVars
<1>11. ASSUME NEW h \in Handlers, CreateFails(h) PROVE TInv'
  BY <1>1, <1>2, <1>11 DEF CreateFails, TypeOK, RoomIds, histVars, readVars
<1>12. CASE Restart
  <2>1. TypeOK'
    BY <1>1, <1>12 DEF Restart, TypeOK, histVars, readVars
  <2>2. Busy'
    BY <1>12 DEF Restart, Busy
  <2>3. QED
    BY <2>1, <2>2 DEF TInv
<1>13. CASE UNCHANGED vars
  BY <1>1, <1>2, <1>13 DEF vars, TypeOK, histVars, readVars
<1>14. QED
  BY <1>3, <1>4, <1>5, <1>6, <1>7, <1>8, <1>9, <1>10, <1>11, <1>12, <1>13 DEF Next, Request, Work

(* The types hold for any number of handlers, users and rooms, and for any *)
(* number of failed calls and restarts.                                    *)
THEOREM TypesHold == Spec => []TInv
<1>1. Init => TInv
  BY InitTypes
<1>2. TInv /\ [Next]_vars => TInv'
  BY TypeStep
<1>3. QED
  BY <1>1, <1>2, PTL DEF Spec

(* The variables keep their types: a room is never left without an owner,  *)
(* and one that is handed over goes to a user (LeaveRoom).                 *)
THEOREM TypeCorrect == Spec => []TypeOK
<1>1. TInv => TypeOK
  BY DEF TInv
<1>2. QED
  BY <1>1, TypesHold, PTL

-----------------------------------------------------------------------------
(* A room that is changed, and the rooms that are not.                     *)
LEMMA ChangedRooms ==
  ASSUME NEW r \in DOMAIN rooms, NEW ro
  PROVE  /\ DOMAIN Changed(r, ro) = DOMAIN rooms /\ Changed(r, ro)[r] = ro
         /\ \A x \in DOMAIN rooms : x # r => Changed(r, ro)[x] = rooms[x]
BY DEF Changed

(* What a handler is sure of when it serves a request.                     *)
LEMMA Known ==
  ASSUME TInv, NEW h \in Handlers, pc[h] # Idle
  PROVE  /\ user[h] \in Users /\ roomID[h] \in RoomIds /\ room[h] \in Room
         /\ roomID[h] \in DOMAIN rooms => rooms[roomID[h]] \in Room
BY DEF TInv, TypeOK, Busy

(* A step of h leaves the rooms it does not work on alone.                 *)
OnlyItsRoom(h) ==
  /\ DOMAIN rooms' \ {roomID[h]} = DOMAIN rooms \ {roomID[h]}
  /\ \A x \in DOMAIN rooms \ {roomID[h]} : rooms'[x] = rooms[x]

(* What a step that ends a request shows of its room, if it is not raced.  *)
Kept(h) ==
  roomID[h] \in DOMAIN rooms' \ raced =>
    /\ Consistent(rooms'[roomID[h]])
    /\ faults' = 0 => rooms'[roomID[h]].owner \in Members(rooms'[roomID[h]])

(* A handler that ends its request has nothing left to be wrong about, and *)
(* what the others know of rooms that are not raced is about other rooms.  *)
LEMMA EndKeeps ==
  ASSUME IInv, NEW h \in Handlers, pc[h] # Idle, Return(h), raced' = raced,
         faults' = 0 => faults = 0, OnlyItsRoom(h), Kept(h)
  PROVE  RInv'
<1>1. TypeOK /\ Busy /\ RInv
  BY DEF IInv, TInv
<1>2. /\ pc'[h] = Idle /\ roomID'[h] = 0
      /\ \A k \in Handlers : k # h => /\ pc'[k] = pc[k] /\ user'[k] = user[k]
                                      /\ roomID'[k] = roomID[k] /\ room'[k] = room[k]
  BY <1>1 DEF Return, TypeOK
<1>3. 0 \notin RoomIds
  BY ConstantAssumption DEF RoomIds
<1>4. Alone'
  BY <1>1, <1>2, <1>3 DEF Alone, RInv, Busy
<1>5. ASSUME NEW k \in Handlers, pc'[k] # Idle, roomID'[k] \notin raced'
      PROVE  AsRead(k)'
  <2>1. k # h /\ pc[k] # Idle /\ roomID[k] \notin raced /\ AsRead(k)
    BY <1>1, <1>2, <1>5 DEF RInv, InStep
  <2>2. roomID[k] # roomID[h]
    BY <1>1, <2>1 DEF RInv, Alone
  <2>3. roomID[k] \in DOMAIN rooms' /\ rooms'[roomID[k]] = rooms[roomID[k]]
    BY <2>1, <2>2 DEF OnlyItsRoom, AsRead
  <2>4. /\ pc'[k] = pc[k] /\ user'[k] = user[k] /\ roomID'[k] = roomID[k] /\ room'[k] = room[k]
    BY <1>2, <2>1
  <2>5. QED
    BY <2>1, <2>3, <2>4 DEF AsRead, Consistent, NobodyTwice
<1>6. Concluded'
  BY <1>1, <1>2 DEF Concluded, RInv, Members, Idle
<1>7. \A x \in DOMAIN rooms' \ raced' : x # roomID[h] => x \in DOMAIN rooms \ raced /\ rooms'[x] = rooms[x]
  BY DEF OnlyItsRoom
<1>8. AllConsistent'
  BY <1>1, <1>7 DEF Kept, AllConsistent, RInv, Consistent, NobodyTwice
<1>9. OwnerThere'
  <2> SUFFICES ASSUME faults' = 0, NEW x \in DOMAIN rooms' \ raced'
               PROVE  \/ rooms'[x].owner \in Members(rooms'[x])
                      \/ \E k \in Handlers : pc'[k] = "transfer" /\ roomID'[k] = x
    BY DEF OwnerThere, Members
  <2>1. CASE x = roomID[h]
    BY <2>1 DEF Kept
  <2>2. CASE x # roomID[h]
    <3>1. \/ rooms[x].owner \in Members(rooms[x])
          \/ \E k \in Handlers : pc[k] = "transfer" /\ roomID[k] = x
      BY <1>1, <1>7, <2>2 DEF RInv, OwnerThere
    <3>2. QED
      BY <1>2, <1>7, <2>2, <3>1
  <2>3. QED
    BY <2>1, <2>2
<1>10. QED
  BY <1>4, <1>5, <1>6, <1>8, <1>9 DEF RInv, InStep

(* $push in JoinRoom: nobody loses a seat, and when the room is as it was  *)
(* read the user is not in it yet.                                         *)
LEMMA JoinKeeps ==
  ASSUME IInv, NEW h \in Handlers, JoinAdd(h)
  PROVE  /\ OnlyItsRoom(h) /\ Kept(h)
         /\ \A r \in DOMAIN rooms : r \in DOMAIN rooms' /\ Members(rooms[r]) \subseteq Members(rooms'[r])
<1> DEFINE r == roomID[h]
           q == [rooms[r] EXCEPT !.players = Append(@, user[h]), !.count = @ + 1]
<1>1. pc[h] = "join" /\ pc[h] # Idle /\ rooms' = Changed(r, q) /\ faults' = faults
  BY DEF JoinAdd, At, Idle, AddPlayerToRoom
<1>2. user[h] \in Users /\ (r \in DOMAIN rooms => rooms[r] \in Room)
  BY <1>1, Known DEF IInv
<1>3. CASE r \notin DOMAIN rooms
  <2>1. rooms' = rooms
    BY <1>1, <1>3 DEF Changed
  <2>2. QED
    BY <1>3, <2>1 DEF OnlyItsRoom, Kept
<1>4. CASE r \in DOMAIN rooms
  <2>1. /\ q.owner = rooms[r].owner /\ Members(q) = Members(rooms[r]) \cup {user[h]}
        /\ Consistent(rooms[r]) /\ user[h] \notin Members(rooms[r]) => Consistent(q)
    BY <1>2, <1>4, RoomPushed
  <2> HIDE DEF q
  <2>2. /\ DOMAIN rooms' = DOMAIN rooms /\ rooms'[r] = q
        /\ \A x \in DOMAIN rooms : x # r => rooms'[x] = rooms[x]
    BY <1>1, <1>4, ChangedRooms
  <2>3. ASSUME r \notin raced PROVE Consistent(q) /\ (faults = 0 => q.owner \in Members(q))
    <3>1. AsRead(h)
      BY <1>1, <2>3 DEF IInv, RInv, InStep
    <3>2. user[h] \notin Members(rooms[r])
      BY <1>1, <3>1 DEF IInv, RInv, Concluded, AsRead
    <3>3. Consistent(rooms[r])
      BY <1>4, <2>3 DEF IInv, RInv, AllConsistent
    <3>4. \A k \in Handlers : roomID[k] = r => pc[k] # "transfer"
      BY <1>1, <2>3 DEF IInv, RInv, Alone
    <3>5. faults = 0 => rooms[r].owner \in Members(rooms[r])
      BY <1>4, <2>3, <3>4 DEF IInv, RInv, OwnerThere
    <3>6. QED
      BY <2>1, <3>2, <3>3, <3>5
  <2>4. Kept(h)
    BY <1>1, <2>2, <2>3 DEF Kept
  <2>5. QED
    BY <2>1, <2>2, <2>4 DEF OnlyItsRoom
<1>5. QED
  BY <1>3, <1>4

(* $pull in LeaveRoom: the user, and nobody else, goes.                    *)
LEMMA RemoveKeeps ==
  ASSUME IInv, NEW h \in Handlers, pc[h] \in {"leave", "leave_owner"},
         rooms' = RemovePlayerFromRoom(roomID[h], user[h])
  PROVE  /\ OnlyItsRoom(h) /\ DOMAIN rooms' = DOMAIN rooms
         /\ \A r \in DOMAIN rooms : \A u \in Members(rooms[r]) :
              u \notin Members(rooms'[r]) => u = user[h] /\ r = roomID[h]
         /\ roomID[h] \notin raced =>
              /\ Consistent(rooms'[roomID[h]])
              /\ rooms'[roomID[h]] = [room[h] EXCEPT !.players = NotUser(@, user[h]), !.count = @ - 1]
              /\ rooms'[roomID[h]].owner = room[h].owner
              /\ Members(rooms'[roomID[h]]) = Members(room[h]) \ {user[h]}
<1> DEFINE r == roomID[h]
           q == [rooms[r] EXCEPT !.players = NotUser(@, user[h]), !.count = @ - 1]
<1>1. pc[h] # Idle /\ pc[h] # "join" /\ rooms' = Changed(r, q)
  BY DEF Idle, RemovePlayerFromRoom
<1>2. user[h] \in Users /\ (r \in DOMAIN rooms => rooms[r] \in Room)
  BY <1>1, Known DEF IInv
<1>3. r \notin raced => AsRead(h) /\ r \in DOMAIN rooms /\ user[h] \in Members(room[h])
  BY <1>1 DEF IInv, RInv, InStep, Concluded, AsRead
<1>4. CASE r \notin DOMAIN rooms
  <2>1. rooms' = rooms
    BY <1>1, <1>4 DEF Changed
  <2>2. QED
    BY <1>3, <1>4, <2>1 DEF OnlyItsRoom
<1>5. CASE r \in DOMAIN rooms
  <2>1. /\ q.owner = rooms[r].owner /\ Members(q) = Members(rooms[r]) \ {user[h]}
        /\ Consistent(rooms[r]) /\ user[h] \in Members(rooms[r]) => Consistent(q)
    BY <1>2, <1>5, RoomPulled
  <2>2. r \notin raced => q = [room[h] EXCEPT !.players = NotUser(@, user[h]), !.count = @ - 1]
    <3>1. r \notin raced => rooms[r] = room[h]
      BY <1>3 DEF AsRead
    <3>2. QED
      BY <3>1
  <2> HIDE DEF q
  <2>3. /\ DOMAIN rooms' = DOMAIN rooms /\ rooms'[r] = q
        /\ \A x \in DOMAIN rooms : x # r => rooms'[x] = rooms[x]
    BY <1>1, <1>5, ChangedRooms
  <2>4. OnlyItsRoom(h)
    BY <2>3 DEF OnlyItsRoom
  <2>5. r \notin raced => rooms[r] = room[h] /\ Consistent(rooms[r])
    BY <1>3 DEF AsRead
  <2>6. QED
    BY <1>3, <2>1, <2>2, <2>3, <2>4, <2>5
<1>6. QED
  BY <1>4, <1>5

(* A list of at most one player has at most one member.                    *)
LEMMA OneMember ==
  ASSUME NEW ro \in Room, Len(ro.players) <= 1, NEW u \in Members(ro), NEW v \in Members(ro)
  PROVE  u = v
<1>1. ro.players \in Seq(Users) /\ Len(ro.players) \in Nat
  BY LenProperties DEF Room
<1>2. \A i, j \in 1..Len(ro.players) : i = j
  BY <1>1
<1>3. QED
  BY <1>2 DEF Members

(* LeaveRoom's single write: a player that is not the owner goes, or the   *)
(* room of an owner that counted itself alone in it.                       *)
LEMMA LeaveKeeps ==
  ASSUME IInv, NEW h \in Handlers, LeaveWrite(h)
  PROVE  /\ OnlyItsRoom(h) /\ Kept(h)
         /\ \A r \in DOMAIN rooms : \A u \in Members(rooms[r]) :
              r \notin DOMAIN rooms' \/ u \notin Members(rooms'[r]) => TakesSeat(h, u, r)
<1>1. /\ pc[h] \in {"leave", "delete", "nothing"} /\ pc[h] # Idle /\ pc[h] # "join"
      /\ pc[h] # "transfer" /\ faults' = faults
  BY DEF LeaveWrite, Idle
<1>2. /\ user[h] \in Users /\ room[h] \in Room /\ user[h] \in Members(room[h])
  BY <1>1, Known DEF IInv, RInv, Concluded
<1>3. roomID[h] \notin raced => AsRead(h) /\ rooms[roomID[h]] = room[h]
  BY <1>1 DEF IInv, RInv, InStep, AsRead
<1>4. ASSUME roomID[h] \notin raced, faults = 0 PROVE room[h].owner \in Members(room[h])
  <2>1. \A k \in Handlers : roomID[k] = roomID[h] => pc[k] # "transfer"
    BY <1>1, <1>4 DEF IInv, RInv, Alone
  <2>2. QED
    BY <1>3, <1>4, <2>1 DEF IInv, RInv, OwnerThere, AsRead
<1>5. CASE pc[h] = "leave"
  <2>1. rooms' = RemovePlayerFromRoom(roomID[h], user[h])
    BY <1>5 DEF LeaveWrite, At
  <2>2. room[h].owner # user[h]
    BY <1>5 DEF IInv, RInv, Concluded
  <2>3. /\ OnlyItsRoom(h) /\ DOMAIN rooms' = DOMAIN rooms
        /\ \A r \in DOMAIN rooms : \A u \in Members(rooms[r]) :
             u \notin Members(rooms'[r]) => u = user[h] /\ r = roomID[h]
        /\ roomID[h] \notin raced =>
             /\ Consistent(rooms'[roomID[h]])
             /\ rooms'[roomID[h]].owner = room[h].owner
             /\ Members(rooms'[roomID[h]]) = Members(room[h]) \ {user[h]}
    BY <1>5, <2>1, RemoveKeeps
  <2>4. Kept(h)
    BY <1>1, <1>4, <2>2, <2>3 DEF Kept
  <2>5. QED
    BY <1>1, <2>3, <2>4 DEF TakesSeat, At
<1>6. CASE pc[h] = "delete"
  <2>1. rooms' = DeleteRoom(roomID[h])
    BY <1>6 DEF LeaveWrite, At
  <2>2. /\ DOMAIN rooms' = DOMAIN rooms \ {roomID[h]}
        /\ \A x \in DOMAIN rooms' : rooms'[x] = rooms[x]
    BY <2>1 DEF DeleteRoom
  <2>3. OnlyItsRoom(h) /\ Kept(h)
    BY <2>2 DEF OnlyItsRoom, Kept
  <2>4. ASSUME NEW u \in Members(rooms[roomID[h]]) PROVE TakesSeat(h, u, roomID[h])
    <3>1. room[h].count <= 1 /\ room[h].count \in Int /\ Len(room[h].players) \in Nat
      BY <1>2, <1>6, LenProperties DEF IInv, RInv, Concluded, Room
    <3>2. Len(room[h].players) <= room[h].count /\ u \in Members(room[h]) => u = user[h]
      <4>1. Len(room[h].players) <= room[h].count => Len(room[h].players) <= 1
        BY <3>1
      <4>2. QED
        BY <1>2, <4>1, OneMember
    <3>3. roomID[h] \notin raced => Len(room[h].players) <= room[h].count /\ u \in Members(room[h])
      BY <1>3, <2>4, <3>1 DEF AsRead, Consistent
    <3>4. ~(Len(room[h].players) <= room[h].count) => room[h].count < Len(room[h].players)
      BY <3>1
    <3>5. QED
      BY <1>1, <1>6, <3>2, <3>3, <3>4 DEF TakesSeat, At
  <2>5. QED
    BY <2>2, <2>3, <2>4
<1>7. CASE pc[h] = "nothing"
  <2>1. rooms' = rooms
    BY <1>7 DEF LeaveWrite, At
  <2>2. Kept(h)
    BY <1>1, <1>3, <1>4, <2>1 DEF Kept, AsRead
  <2>3. QED
    BY <2>1, <2>2 DEF OnlyItsRoom
<1>8. QED
  BY <1>1, <1>5, <1>6, <1>7

(* LeaveRoom's transfer writes back the room as it was read, with one of   *)
(* the others as its owner.                                                *)
LEMMA TransferKeeps ==
  ASSUME IInv, NEW h \in Handlers, LeaveTransfer(h)
  PROVE  /\ OnlyItsRoom(h) /\ Kept(h)
         /\ \A r \in DOMAIN rooms : \A u \in Members(rooms[r]) :
              r \notin DOMAIN rooms' \/ u \notin Members(rooms'[r]) => TakesSeat(h, u, r)
<1> DEFINE r == roomID[h]
           q == [room[h] EXCEPT !.owner = Head(Others(room[h], user[h]))]
<1>1. pc[h] = "transfer" /\ pc[h] # Idle /\ rooms' = Changed(r, q) /\ faults' = faults
  BY DEF LeaveTransfer, At, Idle, UpdateRoom
<1>2. room[h] \in Room
  BY <1>1, Known DEF IInv
<1>3. Head(Others(room[h], user[h])) \in Members(room[h])
  BY <1>1, <1>2, NewOwner DEF IInv, TInv, Busy
<1>4. /\ q.owner \in Members(q) /\ Members(q) = Members(room[h])
      /\ Consistent(room[h]) => Consistent(q)
  BY <1>2, <1>3 DEF Members, Consistent, Room
<1>5. ASSUME r \notin raced
      PROVE  /\ Consistent(room[h]) /\ r \in DOMAIN rooms
             /\ Members(rooms[r]) \subseteq Members(room[h])
  <2>1. AsRead(h)
    BY <1>1, <1>5 DEF IInv, RInv, InStep
  <2>2. rooms[r] = [room[h] EXCEPT !.players = NotUser(@, user[h]), !.count = @ - 1]
    BY <1>1, <2>1 DEF AsRead
  <2>3. Members(rooms[r]) = Members(room[h]) \ {user[h]}
    BY <1>2, <2>2, RoomPulled
  <2>4. QED
    BY <2>1, <2>3 DEF AsRead
<1> HIDE DEF q
<1>6. CASE r \notin DOMAIN rooms
  <2>1. rooms' = rooms
    BY <1>1, <1>6 DEF Changed
  <2>2. QED
    BY <1>6, <2>1 DEF OnlyItsRoom, Kept
<1>7. CASE r \in DOMAIN rooms
  <2>1. /\ DOMAIN rooms' = DOMAIN rooms /\ rooms'[r] = q
        /\ \A x \in DOMAIN rooms : x # r => rooms'[x] = rooms[x]
    BY <1>1, <1>7, ChangedRooms
  <2>2. OnlyItsRoom(h) /\ Kept(h)
    BY <1>4, <1>5, <2>1 DEF OnlyItsRoom, Kept
  <2>3. ASSUME NEW u \in Members(rooms[r]), u \notin Members(rooms'[r]) PROVE TakesSeat(h, u, r)
    <3>1. u \notin Members(room[h]) /\ r \in raced
      BY <1>4, <1>5, <2>1, <2>3
    <3>2. QED
      BY <1>1, <3>1 DEF TakesSeat
  <2>4. QED
    BY <2>1, <2>2, <2>3
<1>8. QED
  BY <1>6, <1>7

(* The owner hands over: it goes, and the room waits for its new owner.    *)
LEMMA HandOverKeeps ==
  ASSUME IInv, NEW h \in Handlers, LeaveOwnerRemove(h)
  PROVE  RInv'
<1>1. /\ pc[h] = "leave_owner" /\ pc[h] # Idle /\ pc[h] # "join" /\ pc' = [pc EXCEPT ![h] = "transfer"]
      /\ UNCHANGED <<user, roomID, room, faults, raced>>
      /\ rooms' = RemovePlayerFromRoom(roomID[h], user[h])
  BY DEF LeaveOwnerRemove, At, Idle, histVars, readVars
<1>2. TypeOK /\ RInv /\ user[h] \in Members(room[h])
  BY <1>1 DEF IInv, TInv, RInv, Concluded
<1>3. /\ OnlyItsRoom(h) /\ DOMAIN rooms' = DOMAIN rooms
      /\ roomID[h] \notin raced =>
           /\ Consistent(rooms'[roomID[h]])
           /\ rooms'[roomID[h]] = [room[h] EXCEPT !.players = NotUser(@, user[h]), !.count = @ - 1]
  BY <1>1, RemoveKeeps
<1>4. pc'[h] = "transfer" /\ \A k \in Handlers : k # h => pc'[k] = pc[k]
  BY <1>1, <1>2 DEF TypeOK
<1>5. Alone'
  BY <1>1, <1>2, <1>4 DEF RInv, Alone
<1>6. ASSUME NEW k \in Handlers, pc'[k] # Idle, roomID'[k] \notin raced'
      PROVE  AsRead(k)'
  <2>1. roomID[k] \notin raced /\ pc[k] # Idle /\ AsRead(k)
    BY <1>1, <1>2, <1>4, <1>6 DEF RInv, InStep
  <2>2. CASE k = h
    <3>1. rooms'[roomID[h]] = [room[h] EXCEPT !.players = NotUser(@, user[h]), !.count = @ - 1]
      BY <1>3, <2>1, <2>2
    <3>2. roomID[h] \in DOMAIN rooms' /\ Consistent(room[h])
      BY <1>3, <2>1, <2>2 DEF AsRead
    <3>3. user'[h] = user[h] /\ roomID'[h] = roomID[h] /\ room'[h] = room[h]
      BY <1>1
    <3>4. Consistent(room[h])'
      BY <3>2, <3>3 DEF Consistent, NobodyTwice
    <3>5. AsRead(h)'
      BY <1>4, <3>1, <3>2, <3>3, <3>4, Zenon DEF AsRead
    <3>6. QED
      BY <2>2, <3>5
  <2>3. CASE k # h
    <3>1. roomID[k] # roomID[h]
      BY <1>2, <2>1, <2>3 DEF RInv, Alone
    <3>2. roomID[k] \in DOMAIN rooms' /\ rooms'[roomID[k]] = rooms[roomID[k]]
      BY <1>3, <2>1, <3>1 DEF OnlyItsRoom, AsRead
    <3>3. pc'[k] = pc[k] /\ user'[k] = user[k] /\ roomID'[k] = roomID[k] /\ room'[k] = room[k]
      BY <1>1, <1>4, <2>3
    <3>4. QED
      BY <2>1, <3>2, <3>3 DEF AsRead, Consistent, NobodyTwice
  <2>4. QED
    BY <2>2, <2>3
<1>7. Concluded'
  BY <1>1, <1>2, <1>4 DEF RInv, Concluded, Members
<1>8. AllConsistent'
  BY <1>1, <1>2, <1>3 DEF RInv, AllConsistent, Consistent, NobodyTwice, OnlyItsRoom
<1>9. OwnerThere'
  <2> SUFFICES ASSUME faults' = 0, NEW x \in DOMAIN rooms' \ raced'
               PROVE  \/ rooms'[x].owner \in Members(rooms'[x])
                      \/ \E k \in Handlers : pc'[k] = "transfer" /\ roomID'[k] = x
    BY DEF OwnerThere, Members
  <2>1. CASE x = roomID[h]
    BY <1>1, <1>4, <2>1
  <2>2. CASE x # roomID[h]
    <3>1. x \in DOMAIN rooms \ raced /\ rooms'[x] = rooms[x]
      BY <1>1, <1>3, <2>2 DEF OnlyItsRoom
    <3>2. \/ rooms[x].owner \in Members(rooms[x])
          \/ \E k \in Handlers : pc[k] = "transfer" /\ roomID[k] = x
      BY <1>1, <1>2, <3>1 DEF RInv, OwnerThere
    <3>3. QED
      BY <1>1, <1>4, <3>1, <3>2
  <2>3. QED
    BY <2>1, <2>2
<1>10. QED
  BY <1>5, <1>6, <1>7, <1>8, <1>9 DEF RInv, InStep

(* The handler reads a room and draws its conclusions (JoinRoom,           *)
(* LeaveRoom), while the rooms stay as they are.  If another is at work on *)
(* the room, it is raced from now on.                                      *)
LEMMA ReadKeeps ==
  ASSUME IInv, NEW h \in Handlers, pc[h] = Idle, NEW u \in Users, NEW r \in DOMAIN rooms,
         NEW l \in {"join", "delete", "leave", "leave_owner", "nothing"}, GoOn(h, u, r, l),
         UNCHANGED <<rooms, faults>>,
         l = "join" => u \notin Members(rooms[r]),
         l # "join" => u \in Members(rooms[r]) /\ l = LeaveStep(rooms[r], u)
  PROVE  RInv'
<1>1. TypeOK /\ Busy /\ RInv
  BY DEF IInv, TInv
<1>2. /\ pc'[h] = l /\ user'[h] = u /\ roomID'[h] = r /\ room'[h] = rooms[r]
      /\ l # Idle /\ l # "transfer"
      /\ \A k \in Handlers : k # h => /\ pc'[k] = pc[k] /\ user'[k] = user[k]
                                      /\ roomID'[k] = roomID[k] /\ room'[k] = room[k]
  BY <1>1 DEF GoOn, TypeOK, Idle
<1>3. raced \subseteq raced' /\ ((\E k \in Handlers : roomID[k] = r) => r \in raced')
  BY DEF GoOn
<1>4. Alone'
  BY <1>1, <1>2, <1>3 DEF RInv, Alone
<1>5. ASSUME NEW k \in Handlers, pc'[k] # Idle, roomID'[k] \notin raced'
      PROVE  AsRead(k)'
  <2>1. CASE k = h
    <3>1. Consistent(rooms[r])
      BY <1>1, <1>2, <1>3, <1>5, <2>1 DEF RInv, AllConsistent
    <3>2. rooms' = rooms
      OBVIOUS
    <3>3. QED
      BY <1>2, <2>1, <3>1, <3>2 DEF AsRead, Consistent, NobodyTwice
  <2>2. CASE k # h
    <3>1. pc'[k] = pc[k] /\ user'[k] = user[k] /\ roomID'[k] = roomID[k] /\ room'[k] = room[k]
      BY <1>2, <2>2
    <3>2. AsRead(k)
      BY <1>1, <1>3, <1>5, <3>1 DEF RInv, InStep
    <3>3. rooms' = rooms
      OBVIOUS
    <3>4. QED
      BY <3>1, <3>2, <3>3 DEF AsRead, Consistent, NobodyTwice
  <2>3. QED
    BY <2>1, <2>2
<1>6. /\ l = "leave" => rooms[r].owner # u
      /\ l = "delete" => rooms[r].count <= 1
  BY DEF LeaveStep
<1>7. Concluded'
  <2> SUFFICES ASSUME NEW k \in Handlers
               PROVE  /\ pc'[k] = "join" => user'[k] \notin Members(room'[k])
                      /\ pc'[k] \notin {Idle, "join"} => user'[k] \in Members(room'[k])
                      /\ pc'[k] = "leave" => room'[k].owner # user'[k]
                      /\ pc'[k] = "delete" => room'[k].count <= 1
    BY DEF Concluded, Members
  <2>1. CASE k = h
    BY <1>2, <1>6, <2>1
  <2>2. CASE k # h
    BY <1>1, <1>2, <2>2 DEF RInv, Concluded
  <2>3. QED
    BY <2>1, <2>2
<1>8. AllConsistent'
  BY <1>1, <1>3 DEF RInv, AllConsistent, Consistent, NobodyTwice
<1>9. OwnerThere'
  <2> SUFFICES ASSUME faults = 0, NEW x \in DOMAIN rooms \ raced
               PROVE  \/ rooms[x].owner \in Members(rooms[x])
                      \/ \E k \in Handlers : pc'[k] = "transfer" /\ roomID'[k] = x
    BY <1>3 DEF OwnerThere, Members
  <2>1. \/ rooms[x].owner \in Members(rooms[x])
        \/ \E k \in Handlers : pc[k] = "transfer" /\ roomID[k] = x
    BY <1>1 DEF RInv, OwnerThere
  <2>2. \A k \in Handlers : pc[k] = "transfer" => k # h
    BY DEF Idle
  <2>3. QED
    BY <1>2, <2>1, <2>2
<1>10. QED
  BY <1>4, <1>5, <1>7, <1>8, <1>9 DEF RInv, InStep

(* CreateRoom: a new room has its owner in it, and no handler works on it  *)
(* that is sure of what it has read.                                       *)
LEMMA CreateKeeps ==
  ASSUME IInv, NEW h \in Handlers, NEW u \in Users, Create(h, u)
  PROVE  /\ RInv'
         /\ \A r \in DOMAIN rooms : r \in DOMAIN rooms' /\ rooms'[r] = rooms[r]
<1>1. UNCHANGED <<pc, user, roomID, room, faults, raced>>
  BY DEF Create, handlerVars, readVars
<1> DEFINE q == [owner |-> u, players |-> <<u>>, count |-> 1]
<1>2. Consistent(q) /\ q.owner \in Members(q)
  BY DEF Consistent, NobodyTwice, Members
<1> HIDE DEF q
<1>3. \/ rooms' = rooms
      \/ /\ nextRoomID \notin DOMAIN rooms
         /\ rooms' = [x \in DOMAIN rooms \cup {nextRoomID} |-> IF x = nextRoomID THEN q ELSE rooms[x]]
  BY DEF Create, q
<1>4. /\ \A r \in DOMAIN rooms' : rooms'[r] = q \/ (r \in DOMAIN rooms /\ rooms'[r] = rooms[r])
      /\ \A r \in DOMAIN rooms : r \in DOMAIN rooms' /\ rooms'[r] = rooms[r]
  BY <1>3
<1>5. RInv
  BY DEF IInv
<1>6. Alone' /\ Concluded'
  BY <1>1, <1>5 DEF RInv, Alone, Concluded, Members
<1>7. InStep'
  <2> SUFFICES ASSUME NEW k \in Handlers, pc[k] # Idle, roomID[k] \notin raced PROVE AsRead(k)'
    BY <1>1 DEF InStep
  <2>1. AsRead(k)
    BY <1>5 DEF RInv, InStep
  <2>2. roomID[k] \in DOMAIN rooms' /\ rooms'[roomID[k]] = rooms[roomID[k]]
    BY <1>4, <2>1 DEF AsRead
  <2>3. pc'[k] = pc[k] /\ user'[k] = user[k] /\ roomID'[k] = roomID[k] /\ room'[k] = room[k]
    BY <1>1
  <2>4. QED
    BY <2>1, <2>2, <2>3 DEF AsRead, Consistent, NobodyTwice
<1>8. AllConsistent'
  BY <1>1, <1>2, <1>4, <1>5 DEF RInv, AllConsistent, Consistent, NobodyTwice
<1>9. OwnerThere'
  BY <1>1, <1>2, <1>4, <1>5 DEF RInv, OwnerThere, Members
<1>10. QED
  BY <1>4, <1>6, <1>7, <1>8, <1>9 DEF RInv

-----------------------------------------------------------------------------
(* Every step keeps the inductive invariant.                               *)
LEMMA Step == IInv /\ [Next]_vars => IInv'
<1> SUFFICES ASSUME IInv, [Next]_vars PROVE IInv'
  OBVIOUS
<1>1. TInv'
  BY TypeStep DEF IInv
<1> SUFFICES RInv'
  BY <1>1 DEF IInv
<1>2. TypeOK /\ RInv /\ faults \in Nat /\ MaxFaults \in Nat
  BY ConstantAssumption DEF IInv, TInv, TypeOK
<1>3. ASSUME NEW h \in Handlers, NEW u \in Users, Create(h, u) PROVE RInv'
  BY <1>3, CreateKeeps
<1>4. ASSUME NEW h \in Handlers, NEW u \in Users, NEW r \in RoomIds, JoinRead(h, u, r)
      PROVE  RInv'
  BY <1>4, ReadKeeps DEF JoinRead, At
<1>5. ASSUME NEW h \in Handlers, NEW u \in Users, NEW r \in RoomIds, LeaveRead(h, u, r)
      PROVE  RInv'
  <2>1. LeaveStep(rooms[r], u) \in {"delete", "leave", "leave_owner", "nothing"}
    BY DEF LeaveStep
  <2>2. QED
    BY <1>5, <2>1, ReadKeeps DEF LeaveRead, At
<1>6. ASSUME NEW h \in Handlers, JoinAdd(h) PROVE RInv'
  <2>1. pc[h] # Idle /\ Return(h) /\ raced' = raced /\ faults' = faults
    BY <1>6 DEF JoinAdd, At, Idle, histVars, readVars
  <2>2. QED
    BY <1>6, <2>1, JoinKeeps, EndKeeps
<1>7. ASSUME NEW h \in Handlers, LeaveWrite(h) PROVE RInv'
  <2>1. pc[h] # Idle /\ Return(h) /\ raced' = raced /\ faults' = faults
    BY <1>7 DEF LeaveWrite, ReturnLeft, Idle, readVars
  <2>2. QED
    BY <1>7, <2>1, LeaveKeeps, EndKeeps
<1>8. ASSUME NEW h \in Handlers, LeaveOwnerRemove(h) PROVE RInv'
  BY <1>8, HandOverKeeps
<1>9. ASSUME NEW h \in Handlers, LeaveTransfer(h) PROVE RInv'
  <2>1. pc[h] # Idle /\ Return(h) /\ raced' = raced /\ faults' = faults
    BY <1>9 DEF LeaveTransfer, ReturnLeft, At, Idle, readVars
  <2>2. QED
    BY <1>9, <2>1, TransferKeeps, EndKeeps
<1>10. ASSUME NEW h \in Handlers, CallFails(h) PROVE RInv'
  <2>1. pc[h] # Idle /\ Return(h) /\ raced' = raced /\ faults' = faults + 1 /\ rooms' = rooms
    BY <1>10 DEF CallFails, ReturnLeft, readVars
  <2>2. faults' # 0
    BY <1>2, <2>1
  <2>3. OnlyItsRoom(h) /\ Kept(h)
    BY <1>2, <2>1, <2>2 DEF OnlyItsRoom, Kept, RInv, AllConsistent
  <2>4. QED
    BY <2>1, <2>2, <2>3, EndKeeps
<1>11. ASSUME faults' # 0 \/ UNCHANGED <<faults, handlerVars>>, raced' = raced, rooms' = rooms,
              UNCHANGED handlerVars \/ \A k \in Handlers : pc'[k] = Idle
       PROVE  RInv'
  <2>1. CASE \A k \in Handlers : pc'[k] = Idle
    <3>1. Alone' /\ InStep' /\ Concluded'
      BY <2>1 DEF Alone, InStep, Concluded, Idle
    <3>2. AllConsistent'
      BY <1>2, <1>11 DEF RInv, AllConsistent, Consistent, NobodyTwice
    <3>3. OwnerThere'
      BY <1>2, <1>11 DEF RInv, OwnerThere, Members, handlerVars
    <3>4. QED
      BY <3>1, <3>2, <3>3 DEF RInv
  <2>2. CASE UNCHANGED handlerVars
    <3>1. UNCHANGED <<rooms, pc, user, roomID, room, raced>>
      BY <1>11, <2>2 DEF handlerVars
    <3>2. Alone' /\ Concluded'
      BY <1>2, <3>1 DEF RInv, Alone, Concluded, Members
    <3>3. InStep'
      <4> SUFFICES ASSUME NEW k \in Handlers, pc[k] # Idle, roomID[k] \notin raced PROVE AsRead(k)'
        BY <3>1 DEF InStep
      <4>1. AsRead(k)
        BY <1>2 DEF RInv, InStep
      <4>2. QED
        BY <3>1, <4>1 DEF AsRead, Consistent, NobodyTwice
    <3>4. AllConsistent'
      BY <1>2, <3>1 DEF RInv, AllConsistent, Consistent, NobodyTwice
    <3>5. OwnerThere'
      BY <1>2, <1>11, <3>1 DEF RInv, OwnerThere, Members
    <3>6. QED
      BY <3>2, <3>3, <3>4, <3>5 DEF RInv
  <2>3. QED
    BY <1>11, <2>1, <2>2
<1>12. ASSUME NEW h \in Handlers, CreateFails(h) PROVE RInv'
  <2>1. faults' # 0
    BY <1>2, <1>12 DEF CreateFails
  <2>2. QED
    BY <1>11, <1>12, <2>1 DEF CreateFails, histVars, readVars
<1>13. CASE Restart
  <2>1. faults' # 0 /\ \A k \in Handlers : pc'[k] = Idle
    BY <1>2, <1>13 DEF Restart
  <2>2. QED
    BY <1>11, <1>13, <2>1 DEF Restart, histVars, readVars
<1>14. CASE UNCHANGED vars
  BY <1>11, <1>14 DEF vars, histVars, readVars
<1>15. QED
  BY <1>3, <1>4, <1>5, <1>6, <1>7, <1>8, <1>9, <1>10, <1>12, <1>13, <1>14 DEF Next, Request, Work

(* The inductive invariant holds for any number of handlers, users and     *)
(* rooms, of failed calls and of restarts.                                 *)
THEOREM Invariance == Spec => []IInv
<1>1. Init => IInv
  <2> SUFFICES ASSUME Init PROVE IInv
    OBVIOUS
  <2>1. DOMAIN rooms = {} /\ \A g \in Handlers : pc[g] = Idle
    BY DEF Init
  <2>2. RInv
    BY <2>1 DEF RInv, Alone, InStep, Concluded, AllConsistent, OwnerThere, Idle
  <2>3. QED
    BY <2>2, InitTypes DEF IInv
<1>2. IInv /\ [Next]_vars => IInv'
  BY Step
<1>3. QED
  BY <1>1, <1>2, PTL DEF Spec

(* As long as no two requests overlap on a room, nobody is listed in it    *)
(* twice and its count is the length of the list, whatever call fails and  *)
(* wherever the process dies; without faults its owner is in it when       *)
(* nobody works on it (JoinRoom, LeaveRoom).                               *)
THEOREM RoomsAreConsistent == Spec => []RoomConsistent
<1>1. IInv => RoomConsistent
  BY DEF IInv, RInv, AllConsistent, Consistent, NobodyTwice, OwnerThere, RoomConsistent
<1>2. QED
  BY <1>1, Invariance, PTL

(* A player loses a seat by its own LeaveRoom, or by an owner's whose copy *)
(* of the room was overtaken by another request and does not hold the      *)
(* player in a right count, for any number of handlers (RoomRepository,    *)
(* LeaveRoom).                                                             *)
THEOREM SeatsAreKept == Spec => OthersKeepTheirSeat
<1>1. IInv /\ [Next]_vars =>
        [\A r \in DOMAIN rooms : \A u \in Members(rooms[r]) :
           (r \notin DOMAIN rooms' \/ u \notin Members(rooms'[r]))
             => \E h \in Handlers : TakesSeat(h, u, r)]_vars
  <2> SUFFICES ASSUME IInv, Next, NEW r \in DOMAIN rooms, NEW u \in Members(rooms[r]),
                      r \notin DOMAIN rooms' \/ u \notin Members(rooms'[r])
               PROVE  \E h \in Handlers : TakesSeat(h, u, r)
    OBVIOUS
  <2>1. rooms' # rooms
    OBVIOUS
  <2>2. PICK h \in Handlers : \/ \E v \in Users : Create(h, v)
                              \/ Work(h)
    BY <2>1 DEF Next, Request, JoinRead, LeaveRead, CallFails, CreateFails, Restart
  <2>3. CASE \E v \in Users : Create(h, v)
    BY <2>3, CreateKeeps DEF Members
  <2>4. CASE JoinAdd(h)
    BY <2>4, JoinKeeps
  <2>5. CASE LeaveWrite(h)
    BY <2>5, LeaveKeeps
  <2>6. CASE LeaveOwnerRemove(h)
    <3>1. pc[h] = "leave_owner" /\ rooms' = RemovePlayerFromRoom(roomID[h], user[h])
      BY <2>6 DEF LeaveOwnerRemove, At
    <3>2. DOMAIN rooms' = DOMAIN rooms /\ (u \notin Members(rooms'[r]) => u = user[h] /\ r = roomID[h])
      BY <3>1, RemoveKeeps
    <3>3. QED
      BY <3>1, <3>2 DEF TakesSeat, At
  <2>7. CASE LeaveTransfer(h)
    BY <2>7, TransferKeeps
  <2>8. QED
    BY <2>2, <2>3, <2>4, <2>5, <2>6, <2>7 DEF Work
<1>2. QED
  BY <1>1, Invariance, PTL DEF Spec, OthersKeepTheirSeat
=============================================================================
