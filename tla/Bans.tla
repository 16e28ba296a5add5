-------------------------------- MODULE Bans --------------------------------
(***************************************************************************)
(* internal/server/gm_server.go and the GM repository of                   *)
(* internal/database/mongodb.go: the ban records of one user, GMService    *)
(* calls of administrators that overlap, and the log of their actions.  A  *)
(* record stays active when its time is over (nothing calls                *)
(* CleanExpiredBans).  Calls that authorizeGM or a check of the arguments  *)
(* refuses are left out.                                                   *)
(***************************************************************************)
EXTENDS Integers, FiniteSets

CONSTANTS
  BanCallers,   \* bound: calls in execution at a time
  MaxBans,      \* bound: ban records inserted
  MaxBanTime,   \* bound: ticks of the clock
  MaxBanFaults  \* bound: failed operations of MongoDB, crashes

(* Finitely many calls are in execution; the bounds are numbers.           *)
ASSUME BanBounds == /\ IsFiniteSet(BanCallers)
                    /\ MaxBans \in Nat /\ MaxBanTime \in Nat /\ MaxBanFaults \in Nat

VARIABLES
  bans,     \* ban_records: id, unban_time, is_active
  banLogs,  \* gm_logs: how many bans and unbans
  banCall,  \* the calls in execution
  banTime,  \* the clock
  raced,    \* history: a ban was inserted between another call's test and insert
  banFaults

banVars == <<bans, banLogs, banCall, banTime, raced, banFaults>>

Forever   == MaxBanTime + 2
Durations == {1, Forever}   \* a tick; 0 in a GM command means forever
NoBanCall == [at |-> "idle"]
Records   == [id : 1..MaxBans, until : 0..Forever, active : BOOLEAN]

BansInit ==
  /\ bans = {} /\ banLogs = [action \in {"ban", "unban"} |-> 0]
  /\ banCall = [c \in BanCallers |-> NoBanCall]
  /\ banTime = 0 /\ raced = FALSE /\ banFaults = 0

BanGoes(c, at) == banCall' = [banCall EXCEPT ![c].at = at]
BanReturns(c)  == banCall' = [banCall EXCEPT ![c] = NoBanCall]

Active == {b \in bans : b.active}
IsUserBanned == \E b \in Active : b.until > banTime

-----------------------------------------------------------------------------
(* BanUser and UnbanUser of the service test IsUserBanned first, the       *)
(* commands "ban" and "unban" of ExecuteCommand do not.                    *)
BanRequest(c, duration, command) ==
  /\ banCall[c] = NoBanCall /\ (command \/ ~IsUserBanned)
  /\ banCall' = [banCall EXCEPT ![c] =
       [at |-> "find", duration |-> duration, log |-> "ban"]]
  /\ UNCHANGED <<bans, banLogs, banTime, raced, banFaults>>
UnbanRequest(c, command) ==
  /\ banCall[c] = NoBanCall /\ (command \/ IsUserBanned)
  /\ banCall' = [banCall EXCEPT ![c] = [at |-> "update", log |-> "unban"]]
  /\ UNCHANGED <<bans, banLogs, banTime, raced, banFaults>>

(* Mutant: only a record that is not over refuses the ban.                 *)
FindUnexpired(c) ==
  /\ banCall[c].at = "find"
  /\ IF IsUserBanned THEN BanReturns(c) ELSE BanGoes(c, "insert")
  /\ UNCHANGED <<bans, banLogs, banTime, raced, banFaults>>

(* GMRepository.BanUser: any active record, over or not, refuses the ban;  *)
(* then a record is inserted.                                              *)
FindActive(c) ==
  /\ banCall[c].at = "find"
  /\ IF Active = {} THEN BanGoes(c, "insert") ELSE BanReturns(c)
  /\ UNCHANGED <<bans, banLogs, banTime, raced, banFaults>>
InsertBan(c) ==
  /\ banCall[c].at = "insert" /\ Cardinality(bans) < MaxBans
  /\ bans' = bans \cup {[id |-> Cardinality(bans) + 1, active |-> TRUE,
       until |-> IF banCall[c].duration = Forever THEN Forever
                 ELSE banTime + banCall[c].duration]}
  /\ raced' = (raced \/ \E d \in BanCallers \ {c} : banCall[d].at = "insert")
  /\ BanGoes(c, "log")
  /\ UNCHANGED <<banLogs, banTime, banFaults>>

(* GMRepository.UnbanUser: UpdateOne on some active record.                *)
UnbanUser(c) ==
  /\ banCall[c].at = "update"
  /\ \/ /\ \E b \in Active : bans' = (bans \ {b}) \cup {[b EXCEPT !.active = FALSE]}
        /\ BanGoes(c, "log")
     \/ Active = {} /\ BanReturns(c) /\ UNCHANGED bans
  /\ UNCHANGED <<banLogs, banTime, raced, banFaults>>

(* KickUser and SendNotice, and the commands of these names: nothing is    *)
(* done yet to a user, but the action is logged as if it were.             *)
LogOnly(c, action) ==
  /\ banCall[c] = NoBanCall
  /\ banCall' = [banCall EXCEPT ![c] = [at |-> "log", log |-> action]]
  /\ UNCHANGED <<bans, banLogs, banTime, raced, banFaults>>
KickUser(c)   == LogOnly(c, "kick")
SendNotice(c) == LogOnly(c, "notice")

(* LogGMAction after the action; nobody looks at its error.                *)
LogGMAction(c) ==
  /\ banCall[c].at = "log" /\ BanReturns(c)
  /\ banLogs' = [action \in DOMAIN banLogs |->
                  banLogs[action] + IF banCall[c].log = action THEN 1 ELSE 0]
  /\ UNCHANGED <<bans, banTime, raced, banFaults>>

(* An operation of MongoDB fails, or the process crashes, and the call is  *)
(* over.                                                                   *)
BanFails(c) ==
  /\ banCall[c] # NoBanCall /\ BanReturns(c)
  /\ banFaults < MaxBanFaults /\ banFaults' = banFaults + 1
  /\ UNCHANGED <<bans, banLogs, banTime, raced>>

BanTick ==
  /\ banTime < MaxBanTime /\ banTime' = banTime + 1
  /\ UNCHANGED <<bans, banLogs, banCall, raced, banFaults>>

BansNext ==
  \/ \E c \in BanCallers :
       \/ \E d \in Durations, command \in BOOLEAN : BanRequest(c, d, command)
       \/ \E command \in BOOLEAN : UnbanRequest(c, command)
       \/ FindActive(c) \/ InsertBan(c) \/ UnbanUser(c) \/ LogGMAction(c)
       \/ KickUser(c) \/ SendNotice(c) \/ BanFails(c)
  \/ BanTick

-----------------------------------------------------------------------------
BansTypeOK ==
  /\ bans \subseteq Records /\ Cardinality(bans) <= MaxBans
  /\ \A c \in BanCallers :
       banCall[c].at \in {"idle", "find", "insert", "update", "log"}
  /\ banTime \in 0..MaxBanTime /\ raced \in BOOLEAN /\ banFaults \in 0..MaxBanFaults

(* One unban is enough: a user has one active ban record at most, since    *)
(* GMRepository.BanUser inserts one only when it has found none, not even  *)
(* one that is over - unless two calls have overlapped there, for no index *)
(* refuses the second record.  And the log holds no action that was not    *)
(* carried out (LogGMAction comes last), though it may miss one.           *)
OneActiveBan ==
  /\ ~raced => Cardinality(Active) <= 1
  /\ banLogs["ban"] <= Cardinality(bans)
  /\ banLogs["unban"] <= Cardinality(bans \ Active)
=============================================================================
