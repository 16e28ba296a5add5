------------------------------- MODULE Friends -------------------------------
(***************************************************************************)
(* internal/server/friend_server.go and the friend repository of           *)
(* internal/database/mongodb.go: requests, acceptances and deletions of    *)
(* two users, executed concurrently, and the rows they insert, update and  *)
(* delete one at a time.  No index makes a row unique.  All users exist;   *)
(* calls refused for their arguments are left out.                         *)
(***************************************************************************)
EXTENDS Integers, FiniteSets

CONSTANTS
  FriendCallers,   \* bound: calls in execution at a time
  FriendUsers,     \* users
  MaxFriendRows,   \* bound: rows inserted
  MaxFriendFaults  \* bound: failed operations of MongoDB, crashes

(* Finitely many calls are in execution; the bounds are numbers.           *)
ASSUME FriendBounds == IsFiniteSet(FriendCallers) /\ MaxFriendRows \in Nat /\ MaxFriendFaults \in Nat

VARIABLES
  friends,    \* the collection "friends": user_id, friend_id, status
  rows,       \* rows inserted so far
  friendCall, \* the calls in execution
  uneven,     \* history: a call changed one direction only
  friendFaults

friendVars == <<friends, rows, friendCall, uneven, friendFaults>>

Pending  == 0
Accepted == 1
NoFriendCall == [op |-> "none", at |-> "idle"]

FriendsInit ==
  /\ friends = {} /\ rows = 0 /\ uneven = FALSE /\ friendFaults = 0
  /\ friendCall = [c \in FriendCallers |-> NoFriendCall]

Rows(u, v, states) ==
  {f \in friends : f.user = u /\ f.friend = v /\ f.status \in states}
InsertRow(u, v, status) ==
  /\ rows < MaxFriendRows /\ rows' = rows + 1
  /\ friends' = friends \cup
       {[id |-> rows + 1, user |-> u, friend |-> v, status |-> status]}

Overlaps(op) == \E c \in FriendCallers : friendCall[c].op = op
FriendReturns(c) == friendCall' = [friendCall EXCEPT ![c] = NoFriendCall]

-----------------------------------------------------------------------------
(* AddFriend: refused when the friend is among the user's accepted rows;   *)
(* a failure to read these is ignored.  Pending rows are not looked at.    *)
AddFriend(c, u, v) ==
  /\ friendCall[c] = NoFriendCall /\ u # v
  /\ \/ Rows(u, v, {Accepted}) = {} /\ UNCHANGED friendFaults
     \/ friendFaults < MaxFriendFaults /\ friendFaults' = friendFaults + 1
  /\ friendCall' = [friendCall EXCEPT ![c] =
       [op |-> "add", at |-> "insert", user |-> u, friend |-> v]]
  /\ UNCHANGED <<friends, rows, uneven>>

(* Mutant: the user's own request is the one accepted.                     *)
AcceptOwn(c, u, v) ==
  /\ friendCall[c] = NoFriendCall /\ u # v
  /\ \/ Rows(u, v, {Pending}) = {} /\ UNCHANGED friends
     \/ \E f \in Rows(u, v, {Pending}) :
          friends' = (friends \ {f}) \cup {[f EXCEPT !.status = Accepted]}
  /\ uneven' = (uneven \/ Rows(u, v, {Pending}) = {} \/ Overlaps("delete"))
  /\ friendCall' = [friendCall EXCEPT ![c] =
       [op |-> "accept", at |-> "insert", user |-> u, friend |-> v]]
  /\ UNCHANGED <<rows, friendFaults>>

(* AcceptFriend: one pending request of v's becomes accepted, if there is  *)
(* one.                                                                    *)
AcceptFriend(c, u, v) ==
  /\ friendCall[c] = NoFriendCall /\ u # v
  /\ \/ Rows(v, u, {Pending}) = {} /\ UNCHANGED friends
     \/ \E f \in Rows(v, u, {Pending}) :
          friends' = (friends \ {f}) \cup {[f EXCEPT !.status = Accepted]}
  /\ uneven' = (uneven \/ Rows(v, u, {Pending}) = {} \/ Overlaps("delete"))
  /\ friendCall' = [friendCall EXCEPT ![c] =
       [op |-> "accept", at |-> "insert", user |-> u, friend |-> v]]
  /\ UNCHANGED <<rows, friendFaults>>

(* The row of the request, or the accepted row of the other direction.     *)
InsertFriend(c) ==
  LET x == friendCall[c] IN
  /\ x.at = "insert" /\ FriendReturns(c)
  /\ InsertRow(x.user, x.friend, IF x.op = "add" THEN Pending ELSE Accepted)
  /\ UNCHANGED <<uneven, friendFaults>>

(* DeleteFriend: DeleteOne in one direction, then in the other; where a    *)
(* pair has several rows in a direction it may take a pending one and      *)
(* leave an accepted one.                                                  *)
DeleteRow(u, v) ==
  LET found == Rows(u, v, {Pending, Accepted}) IN
  /\ \/ \E f \in found : friends' = friends \ {f}
     \/ found = {} /\ UNCHANGED friends
  /\ uneven' = (uneven \/ Cardinality(found) > 1 \/ Overlaps("accept"))
DeleteFriend(c, u, v) ==
  /\ friendCall[c] = NoFriendCall /\ u # v
  /\ DeleteRow(u, v)
  /\ friendCall' = [friendCall EXCEPT ![c] =
       [op |-> "delete", at |-> "other", user |-> v, friend |-> u]]
  /\ UNCHANGED <<rows, friendFaults>>
DeleteOther(c) ==
  /\ friendCall[c].at = "other" /\ FriendReturns(c)
  /\ DeleteRow(friendCall[c].user, friendCall[c].friend)
  /\ UNCHANGED <<rows, friendFaults>>

(* An operation of MongoDB fails, or the process crashes: what the call    *)
(* has done so far stays.                                                  *)
FriendFails(c) ==
  /\ friendCall[c] # NoFriendCall /\ FriendReturns(c)
  /\ friendFaults < MaxFriendFaults /\ friendFaults' = friendFaults + 1
  /\ uneven' = (uneven \/ friendCall[c].op \in {"accept", "delete"})
  /\ UNCHANGED <<friends, rows>>

FriendsNext ==
  \E c \in FriendCallers :
    \/ \E u \in FriendUsers, v \in FriendUsers :
         AddFriend(c, u, v) \/ AcceptFriend(c, u, v) \/ DeleteFriend(c, u, v)
    \/ InsertFriend(c) \/ DeleteOther(c) \/ FriendFails(c)

-----------------------------------------------------------------------------
FriendsTypeOK ==
  /\ friends \subseteq [id : 1..rows, user : FriendUsers, friend : FriendUsers,
                        status : {Pending, Accepted}]
  /\ rows \in 0..MaxFriendRows /\ uneven \in BOOLEAN
  /\ \A f, g \in friends : f.id = g.id => f = g
  /\ \A c \in FriendCallers : friendCall[c].at \in {"idle", "insert", "other"}
  /\ friendFaults \in 0..MaxFriendFaults

(* Friends are friends of each other: between calls a user has as many     *)
(* accepted rows for another as the other has for the user (AcceptFriend   *)
(* accepts the one and inserts the other, DeleteFriend deletes in both     *)
(* directions).  The exceptions are what uneven records: an acceptance     *)
(* nobody had asked for, a call cut off half-way, a deletion that overlaps *)
(* an acceptance or finds several rows in one direction.                   *)
FriendsOfEachOther ==
  ~uneven /\ (\A c \in FriendCallers : friendCall[c] = NoFriendCall) =>
    \A u, v \in FriendUsers :
      Cardinality(Rows(u, v, {Accepted})) = Cardinality(Rows(v, u, {Accepted}))
=============================================================================
