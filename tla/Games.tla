-------------------------------- MODULE Games --------------------------------
(***************************************************************************)
(* internal/server/game_server.go and the game record repository of        *)
(* internal/database/mongodb.go: calls of GameService that the RPC server  *)
(* executes concurrently, the instances in memory, the ids the process     *)
(* counts and the records it leaves in MongoDB.  No index makes game_id    *)
(* unique and the counter starts from 1 whenever the process does; a       *)
(* filter on game_id then selects any one record.  A game has one player,  *)
(* its creator, whose calls these are: nothing adds another.  No step      *)
(* gives a game status 1, so that PlayerAction always answers -6 and its   *)
(* handlers are left out, as are calls that are refused before they find   *)
(* a game, and GetGameState, which changes nothing and whose response has  *)
(* no winner.                                                              *)
(***************************************************************************)
EXTENDS Integers, FiniteSets

CONSTANTS
  GameCallers,   \* bound: calls in execution at a time
  Winners,       \* the winners a caller may name
  MaxGames,      \* bound: games started
  MaxGameFaults, \* bound: failed operations of MongoDB
  MaxGameStarts  \* bound: restarts of the game server

(* The bounds of a run are numbers.                                        *)
ASSUME GameBounds == MaxGames \in Nat /\ MaxGameFaults \in Nat /\ MaxGameStarts \in Nat

VARIABLES
  games,      \* GameServer.games
  nextGameID, \* GameServer.nextGameID
  records,    \* MongoDB: the collection "game_records"
  gameCall,   \* the calls in execution
  started,    \* history: the games started, and their ids
  verdicts,   \* history: the games ended, and the winners
  unrecorded, \* history: games whose record was lost, or written too late
  gameFaults, gameStarts

gameVars == <<games, nextGameID, records, gameCall, started, verdicts,
              unrecorded, gameFaults, gameStarts>>

(* An instance; uid tells it from one of another process with its id.      *)
Nobody     == 0
InProgress == 0
Ended      == 2   \* in a record it is 1
Instances  == [uid : 1..MaxGames, id : 1..MaxGames, status : {InProgress, Ended},
               winner : Winners \cup {Nobody}]
NoGameCall == [at |-> "idle"]
Verdict(g, w) == [game |-> g, winner |-> w]

GamesInit ==
  /\ games = {} /\ nextGameID = 1 /\ records = {} /\ started = {}
  /\ gameCall = [c \in GameCallers |-> NoGameCall]
  /\ verdicts = {} /\ unrecorded = {}
  /\ gameFaults = 0 /\ gameStarts = 0

GameGoes(c, x) == gameCall' = [gameCall EXCEPT ![c] = x]
GameReturns(c) == GameGoes(c, NoGameCall)

(* EndGame keeps the game's mutex while it updates the record.             *)
Locked(g) == \E c \in GameCallers :
               gameCall[c].at = "update" /\ gameCall[c].game = g

-----------------------------------------------------------------------------
(* StartGame: the user is found, the game has its id and is in the map.    *)
StartGame(c) ==
  LET g == [uid |-> Cardinality(started) + 1, id |-> nextGameID,
            status |-> InProgress, winner |-> Nobody] IN
  /\ gameCall[c] = NoGameCall /\ Cardinality(started) < MaxGames
  /\ nextGameID' = nextGameID + 1 /\ games' = games \cup {g}
  /\ started' = started \cup {[uid |-> g.uid, id |-> g.id]}
  /\ GameGoes(c, [at |-> "create", game |-> g.uid])
  /\ UNCHANGED <<records, verdicts, unrecorded, gameFaults, gameStarts>>

(* CreateRecord; an error is only logged.                                  *)
CreateRecord(c) ==
  LET g == CHOOSE s \in started : s.uid = gameCall[c].game IN
  /\ gameCall[c].at = "create" /\ GameReturns(c)
  /\ \/ /\ records' = records \cup {[game |-> g.uid, id |-> g.id, ended |-> FALSE,
                                     winner |-> Nobody]}
        /\ UNCHANGED <<unrecorded, gameFaults>>
     \/ /\ gameFaults < MaxGameFaults /\ gameFaults' = gameFaults + 1
        /\ unrecorded' = unrecorded \cup {g.uid} /\ UNCHANGED records
  /\ UNCHANGED <<games, nextGameID, started, verdicts, gameStarts>>

(* Mutant: the status is not tested.                                       *)
EndGameAgain(c) ==
  /\ gameCall[c] = NoGameCall
  /\ \E g \in games, w \in Winners :
       /\ ~Locked(g.uid)
       /\ games' = (games \ {g}) \cup {[g EXCEPT !.status = Ended, !.winner = w]}
       /\ verdicts' = verdicts \cup {Verdict(g.uid, w)}
       /\ GameGoes(c, [at |-> "update", game |-> g.uid, winner |-> w])
  /\ UNCHANGED <<nextGameID, records, started, unrecorded, gameFaults,
                 gameStarts>>

(* EndGame, with the game's mutex: a game that is over is refused.  The    *)
(* winner is the caller's, whoever it is.                                  *)
EndGame(c) ==
  /\ gameCall[c] = NoGameCall
  /\ \E g \in games, w \in Winners :
       /\ ~Locked(g.uid) /\ g.status # Ended
       /\ games' = (games \ {g}) \cup {[g EXCEPT !.status = Ended, !.winner = w]}
       /\ verdicts' = verdicts \cup {Verdict(g.uid, w)}
       /\ GameGoes(c, [at |-> "update", game |-> g.uid, winner |-> w])
  /\ UNCHANGED <<nextGameID, records, started, unrecorded, gameFaults,
                 gameStarts>>

(* UpdateRecord: one record with the game's id, if there is one, has the   *)
(* outcome written over it; an error is only logged.  The mutex is         *)
(* released when the call returns.                                         *)
UpdateRecord(c) ==
  LET x == gameCall[c]
      found == {r \in records :
                  \E s \in started : s.uid = x.game /\ s.id = r.id} IN
  /\ x.at = "update" /\ GameReturns(c)
  /\ \/ \E r \in found :
          /\ records' = (records \ {r}) \cup
               {[r EXCEPT !.ended = TRUE, !.winner = x.winner]}
          /\ UNCHANGED <<unrecorded, gameFaults>>
     \/ /\ found = {} /\ unrecorded' = unrecorded \cup {x.game}
        /\ UNCHANGED <<records, gameFaults>>
     \/ /\ gameFaults < MaxGameFaults /\ gameFaults' = gameFaults + 1
        /\ unrecorded' = unrecorded \cup {x.game} /\ UNCHANGED records
  /\ UNCHANGED <<games, nextGameID, started, verdicts, gameStarts>>

(* Five minutes after its end a game leaves the map.                       *)
RemoveGame(g) ==
  /\ g.status = Ended /\ ~Locked(g.uid) /\ games' = games \ {g}
  /\ UNCHANGED <<nextGameID, records, gameCall, started, verdicts,
                 unrecorded, gameFaults, gameStarts>>

(* The process stops, its calls where they are, and starts again without   *)
(* games: NewGameServer counts the ids from 1.                             *)
GameRestart ==
  /\ gameStarts < MaxGameStarts /\ gameStarts' = gameStarts + 1
  /\ games' = {} /\ nextGameID' = 1
  /\ gameCall' = [c \in GameCallers |-> NoGameCall]
  /\ unrecorded' = unrecorded \cup
       {g \in 1..MaxGames : \E c \in GameCallers :
          gameCall[c] # NoGameCall /\ gameCall[c].game = g}
  /\ UNCHANGED <<records, started, verdicts, gameFaults>>

GamesNext ==
  \/ \E c \in GameCallers :
       StartGame(c) \/ CreateRecord(c) \/ EndGame(c) \/ UpdateRecord(c)
  \/ \E g \in games : RemoveGame(g)
  \/ GameRestart

-----------------------------------------------------------------------------
GamesTypeOK ==
  /\ games \subseteq Instances /\ nextGameID \in 1..(MaxGames + 1)
  /\ \A g, h \in games : g.id = h.id => g = h
  /\ records \subseteq [game : 1..MaxGames, id : 1..MaxGames, ended : BOOLEAN,
                        winner : Winners \cup {Nobody}]
  /\ \A c \in GameCallers : gameCall[c].at \in {"idle", "create", "update"}
  /\ gameFaults \in 0..MaxGameFaults /\ gameStarts \in 0..MaxGameStarts

(* A game ends once, however many calls end it, and what the records tell *)
(* is how: a record that shows an end shows the winner of a game with its  *)
(* id, and a game that has ended left that on a record with its id, unless *)
(* its record could not be written, or was created only after its end.     *)
(* Where one game has the id it is that game's own record and winner; a    *)
(* restarted server uses ids again, and the end of the one game may then   *)
(* be written over the record of the other, but none is made up.           *)
HasId(u, i) == [uid |-> u, id |-> i] \in started
RecordsTellGames ==
  /\ \A v, w \in verdicts : v.game = w.game => v = w
  /\ \A r \in records : HasId(r.game, r.id)
  /\ \A r \in records : r.ended =>
       \E v \in verdicts : v.winner = r.winner /\ HasId(v.game, r.id)
  /\ \A v \in verdicts : ~Locked(v.game) /\ v.game \notin unrecorded =>
       \E r \in records : r.ended /\ HasId(v.game, r.id)
=============================================================================
