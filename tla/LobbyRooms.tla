----------------------------- MODULE LobbyRooms -----------------------------
(***************************************************************************)
(* Rooms: CreateRoom, JoinRoom and LeaveRoom of                            *)
(* internal/server/lobby_server.go over RoomRepository of                  *)
(* internal/database/mongodb.go.  A room is one document; every repository *)
(* call is one atomic operation on it, and a request is several of them    *)
(* with nothing held in between.  Handlers are the goroutines that serve   *)
(* requests, one per RPC connection to the lobby.  Any call may fail, and  *)
(* the process may restart, which forgets the requests under way and       *)
(* starts the room ids from 1000 again.  The checks that refuse a request  *)
(* without touching a room (its format, the password, an unknown user) are *)
(* choices of the environment and are not steps.                           *)
(***************************************************************************)
EXTENDS Integers, Sequences, FiniteSets

CONSTANTS
  Handlers,    \* goroutines serving requests
  Users,
  NoUser,      \* "no user", the id 0
  MaxPlayers,  \* the size asked for in CreateRoom, 2 to 8
  MaxRooms,    \* bound: room ids handed out by one process
  MaxReads,    \* bound: requests that read a room
  MaxFaults    \* bound: failed calls and restarts

ASSUME ConstantAssumption ==
  /\ NoUser \notin Users
  /\ MaxPlayers \in 2..8
  /\ MaxRooms \in Nat /\ MaxReads \in Nat /\ MaxFaults \in Nat

RoomIds == 1..MaxRooms   \* 1000, 1001, ...
Room    == [owner : Users, players : Seq(Users), count : Int]

VARIABLES
  rooms,       \* the collection: a function from the ids in use to rooms
  nextRoomID,  \* LobbyServer.nextRoomID
  pc, user, roomID, room,  \* per handler: step, user, room id, the room it has read
  faults,
  gone,        \* history: <<user, room id>> told "left room successfully"
  raced,       \* history: the rooms that two requests worked on at a time
  reads        \* requests that have read a room

handlerVars == <<pc, user, roomID, room>>
readVars    == <<raced, reads>>
histVars    == <<gone, readVars>>
vars == <<rooms, nextRoomID, handlerVars, faults, histVars>>

Idle == "idle"

Init ==
  /\ rooms = [r \in {} |-> {}]
  /\ nextRoomID = 1
  /\ pc = [h \in Handlers |-> Idle]
  /\ user = [h \in Handlers |-> NoUser]
  /\ roomID = [h \in Handlers |-> 0]
  /\ room = [h \in Handlers |-> <<>>]
  /\ faults = 0
  /\ gone = {} /\ raced = {} /\ reads = 0

At(h, l) == pc[h] = l

(* The handler is done, and its locals with it.                            *)
Return(h) ==
  /\ pc' = [pc EXCEPT ![h] = Idle]
  /\ user' = [user EXCEPT ![h] = NoUser]
  /\ roomID' = [roomID EXCEPT ![h] = 0]
  /\ room' = [room EXCEPT ![h] = <<>>]

(* The handler has read room r for user u and goes on to write.            *)
GoOn(h, u, r, l) ==
  /\ reads < MaxReads /\ reads' = reads + 1
  /\ pc' = [pc EXCEPT ![h] = l]
  /\ user' = [user EXCEPT ![h] = u]
  /\ roomID' = [roomID EXCEPT ![h] = r]
  /\ room' = [room EXCEPT ![h] = rooms[r]]
  /\ raced' = IF \E k \in Handlers : roomID[k] = r THEN raced \cup {r} ELSE raced

Members(ro)   == {ro.players[i] : i \in 1..Len(ro.players)}

(* $pull: the list without user u, as a recursive function of its length.  *)
NotUser(s, u) ==
  LET f[n \in 0..Len(s)] ==
        IF n = 0 THEN <<>> ELSE IF s[n] = u THEN f[n - 1] ELSE Append(f[n - 1], s[n])
  IN  f[Len(s)]

-----------------------------------------------------------------------------
(* RoomRepository: the collection after each call.  An update of a room    *)
(* that is gone matches nothing.                                           *)
Changed(r, ro) == IF r \in DOMAIN rooms THEN [rooms EXCEPT ![r] = ro] ELSE rooms

AddPlayerToRoom(r, u) ==
  Changed(r, [rooms[r] EXCEPT !.players = Append(@, u), !.count = @ + 1])

(* Mutant: the player is pulled and the count forgotten.                   *)
RemovePlayerOnly(r, u) ==
  Changed(r, [rooms[r] EXCEPT !.players = NotUser(@, u)])

RemovePlayerFromRoom(r, u) ==
  Changed(r, [rooms[r] EXCEPT !.players = NotUser(@, u), !.count = @ - 1])

UpdateRoom(r, ro) == Changed(r, ro)

DeleteRoom(r) == [x \in DOMAIN rooms \ {r} |-> rooms[x]]

-----------------------------------------------------------------------------
(* Mutant: the id is not unique in the collection.                         *)
CreateAnyway(h, u) ==
  /\ At(h, Idle)
  /\ nextRoomID \in RoomIds
  /\ nextRoomID' = nextRoomID + 1
  /\ rooms' = [x \in DOMAIN rooms \cup {nextRoomID} |->
       IF x = nextRoomID THEN [owner |-> u, players |-> <<u>>, count |-> 1] ELSE rooms[x]]
  /\ gone' = gone \ (Users \X {nextRoomID})
  /\ UNCHANGED <<handlerVars, faults, readVars>>

(* CreateRoom: a fresh id, then the insert, which the unique index refuses *)
(* when an earlier process used the id.                                    *)
Create(h, u) ==
  /\ At(h, Idle)
  /\ nextRoomID \in RoomIds
  /\ nextRoomID' = nextRoomID + 1
  /\ IF nextRoomID \in DOMAIN rooms
       THEN UNCHANGED <<rooms, gone>>
       ELSE /\ rooms' = [x \in DOMAIN rooms \cup {nextRoomID} |->
                 IF x = nextRoomID THEN [owner |-> u, players |-> <<u>>, count |-> 1]
                                   ELSE rooms[x]]
            /\ gone' = gone \ (Users \X {nextRoomID})
  /\ UNCHANGED <<handlerVars, faults, readVars>>

(* JoinRoom: the room is read and checked, and the player pushed onto      *)
(* whatever the room has become.                                           *)
JoinRead(h, u, r) ==
  /\ At(h, Idle)
  /\ r \in DOMAIN rooms
  /\ rooms[r].count < MaxPlayers
  /\ u \notin Members(rooms[r])
  /\ GoOn(h, u, r, "join")
  /\ gone' = gone \ {<<u, r>>}
  /\ UNCHANGED <<rooms, nextRoomID, faults>>

JoinAdd(h) ==
  /\ At(h, "join")
  /\ rooms' = AddPlayerToRoom(roomID[h], user[h])
  /\ Return(h)
  /\ UNCHANGED <<nextRoomID, faults, histVars>>

-----------------------------------------------------------------------------
(* LeaveRoom: what is written depends on the room as it was read.          *)
Others(ro, u) == NotUser(ro.players, u)

(* Mutant: the room is deleted with another player still in it.            *)
LeaveStepDeletesEarly(ro, u) ==
  IF ro.owner # u THEN "leave"
  ELSE IF ro.count <= 2 THEN "delete"
  ELSE IF Others(ro, u) # <<>> THEN "leave_owner" ELSE "nothing"

(* An owner deletes a room it counts itself alone in, or hands it to the   *)
(* first of the others; when the list has no others, nothing is done.      *)
LeaveStep(ro, u) ==
  IF ro.owner # u THEN "leave"
  ELSE IF ro.count <= 1 THEN "delete"
  ELSE IF Others(ro, u) # <<>> THEN "leave_owner" ELSE "nothing"

LeaveRead(h, u, r) ==
  /\ At(h, Idle)
  /\ r \in DOMAIN rooms
  /\ u \in Members(rooms[r])
  /\ GoOn(h, u, r, LeaveStep(rooms[r], u))
  /\ UNCHANGED <<rooms, nextRoomID, faults, gone>>

(* The caller is told "left room successfully".                            *)
ReturnLeft(h) ==
  /\ gone' = gone \cup {<<user[h], roomID[h]>>}
  /\ Return(h)

LeaveWrite(h) ==
  /\ pc[h] \in {"leave", "delete", "nothing"}
  /\ rooms' = CASE At(h, "leave")  -> RemovePlayerFromRoom(roomID[h], user[h])
                [] At(h, "delete") -> DeleteRoom(roomID[h])
                [] OTHER           -> rooms
  /\ ReturnLeft(h)
  /\ UNCHANGED <<nextRoomID, faults, readVars>>

LeaveOwnerRemove(h) ==
  /\ At(h, "leave_owner")
  /\ rooms' = RemovePlayerFromRoom(roomID[h], user[h])
  /\ pc' = [pc EXCEPT ![h] = "transfer"]
  /\ UNCHANGED <<nextRoomID, user, roomID, room, faults, histVars>>

(* Mutant: no new owner is found.                                          *)
LeaveTransferToNobody(h) ==
  /\ At(h, "transfer")
  /\ rooms' = UpdateRoom(roomID[h], [room[h] EXCEPT !.owner = NoUser])
  /\ ReturnLeft(h)
  /\ UNCHANGED <<nextRoomID, faults, readVars>>

(* The new owner is set in the room that was read, and all of that room is *)
(* written.                                                                *)
LeaveTransfer(h) ==
  /\ At(h, "transfer")
  /\ rooms' = UpdateRoom(roomID[h], [room[h] EXCEPT !.owner = Head(Others(room[h], user[h]))])
  /\ ReturnLeft(h)
  /\ UNCHANGED <<nextRoomID, faults, readVars>>

-----------------------------------------------------------------------------
(* A repository call fails: the request ends with an error, except that an *)
(* owner that could not be replaced is only logged.                        *)
CallFails(h) ==
  /\ pc[h] \notin {Idle, "nothing"}
  /\ faults < MaxFaults
  /\ faults' = faults + 1
  /\ IF At(h, "transfer") THEN ReturnLeft(h) ELSE Return(h) /\ UNCHANGED gone
  /\ UNCHANGED <<rooms, nextRoomID, readVars>>

(* An insert that fails has used up its id.                                *)
CreateFails(h) ==
  /\ At(h, Idle)
  /\ nextRoomID \in RoomIds
  /\ faults < MaxFaults
  /\ faults' = faults + 1
  /\ nextRoomID' = nextRoomID + 1
  /\ UNCHANGED <<rooms, handlerVars, histVars>>

Restart ==
  /\ faults < MaxFaults
  /\ faults' = faults + 1
  /\ nextRoomID' = 1
  /\ pc' = [h \in Handlers |-> Idle]
  /\ user' = [h \in Handlers |-> NoUser]
  /\ roomID' = [h \in Handlers |-> 0]
  /\ room' = [h \in Handlers |-> <<>>]
  /\ UNCHANGED <<rooms, histVars>>

-----------------------------------------------------------------------------
Request(h) ==
  \E u \in Users : Create(h, u) \/ \E r \in RoomIds :
    JoinRead(h, u, r) \/ LeaveRead(h, u, r)
Work(h) == JoinAdd(h) \/ LeaveWrite(h) \/ LeaveOwnerRemove(h) \/ LeaveTransfer(h)

Next ==
  \/ \E h \in Handlers : Request(h) \/ Work(h) \/ CallFails(h) \/ CreateFails(h)
  \/ Restart

Spec == Init /\ [][Next]_vars

-----------------------------------------------------------------------------
(* Types of the variables.                                                 *)
TypeOK ==
  /\ DOMAIN rooms \subseteq RoomIds /\ \A r \in DOMAIN rooms : rooms[r] \in Room
  /\ nextRoomID \in 1..(MaxRooms + 1)
  /\ pc \in [Handlers -> {Idle, "join", "delete", "leave", "leave_owner", "nothing", "transfer"}]
  /\ user \in [Handlers -> Users \cup {NoUser}]
  /\ roomID \in [Handlers -> RoomIds \cup {0}]
  /\ room \in [Handlers -> {<<>>} \cup Room]
  /\ faults \in 0..MaxFaults
  /\ gone \in SUBSET (Users \X RoomIds) /\ raced \subseteq RoomIds
  /\ reads \in 0..MaxReads

(* Until two requests work on a room at a time its document is consistent, *)
(* whatever calls fail and wherever the process dies: no player is listed  *)
(* twice, and current_players is the length of the list (the repository's  *)
(* $push, $pull and $inc, and LeaveRoom's write of the whole document).    *)
(* Without a failed call or a restart the owner is one of the players      *)
(* whenever no request works on the room, so it is never left empty or in  *)
(* nobody's hands (LeaveRoom's delete and its transfer).                   *)
RoomConsistent ==
  \A r \in DOMAIN rooms \ raced :
    /\ \A i, j \in 1..Len(rooms[r].players) : i # j => rooms[r].players[i] # rooms[r].players[j]
    /\ rooms[r].count = Len(rooms[r].players)
    /\ faults = 0 /\ (\A h \in Handlers : roomID[h] # r)
         => rooms[r].owner \in Members(rooms[r])

(* A room never holds more players than it was created for, which JoinRoom *)
(* checks on the room it has read.                                         *)
NeverOverfull == \A r \in DOMAIN rooms : Len(rooms[r].players) <= MaxPlayers

(* How far a player's seat depends on the requests of others.  A player    *)
(* goes from a room in a step that serves its own LeaveRoom.  Otherwise it *)
(* goes only when an owner's LeaveRoom that overlapped another request on  *)
(* the room deletes it or writes it back whole (DeleteRoom, UpdateRoom),   *)
(* and only if it sat down after that request had read the room, or the    *)
(* room it read counted fewer players than it listed: whoever was seated   *)
(* in a right count when the owner's request read the room stays.          *)
TakesSeat(h, u, r) ==
  /\ roomID[h] = r
  /\ \/ user[h] = u /\ ~At(h, "join")
     \/ /\ r \in raced /\ pc[h] \in {"delete", "transfer"}
        /\ u \in Members(room[h]) => At(h, "delete") /\ room[h].count < Len(room[h].players)

OthersKeepTheirSeat ==
  [][\A r \in DOMAIN rooms : \A u \in Members(rooms[r]) :
       (r \notin DOMAIN rooms' \/ u \notin Members(rooms'[r]))
         => \E h \in Handlers : TakesSeat(h, u, r)]_vars

(* Who was told "left room successfully" is not in the room, until it joins *)
(* again (lobby_server.go:644, "first remove the current player").         *)
LeftMeansOut ==
  \A seat \in gone : seat[2] \in DOMAIN rooms => seat[1] \notin Members(rooms[seat[2]])
=============================================================================
