------------------------------ MODULE CardRooms ------------------------------
(***************************************************************************)
(* internal/gameplay/gameplay.go: a room of the GameplayManager with the   *)
(* card game module, its players and the actions that callers process      *)
(* concurrently.  The manager's mutex is held for joining and leaving and  *)
(* the room's for each access to players, state and events; the deck and   *)
(* the hands have none.  The callers are those of the package: the RPC     *)
(* service of enhanced_server.go is one, but its CreateRoom is refused for *)
(* the empty IP of its sessions, and nothing in the repository calls       *)
(* SetState to start a game.  play_card is refused in any case, for no     *)
(* player's status is ever Playing, and is left out.                       *)
(***************************************************************************)
EXTENDS Integers, Sequences, FiniteSets

CONSTANTS
  CardCallers,  \* bound: calls of ProcessAction in execution at a time
  CardPlayers,  \* players
  MaxSeats,     \* RoomConfig.MaxPlayers
  DeckSize,     \* cards of generateDeck; 52 in the code
  MaxGameBegins \* bound: how often a caller sets the room running

Deck == 1..DeckSize

(* The deck and the seats are counted; so are the bounds.                  *)
ASSUME CardBounds == DeckSize \in Nat /\ MaxSeats \in Nat /\ MaxGameBegins \in Nat

VARIABLES
  roomState, \* GameRoom.State; "none" before CreateRoom
  seated,    \* GameRoom.Players
  deck,      \* CardGameData.Deck
  hands,     \* CardGameData.Hands
  events,    \* GameRoom.Events
  action,    \* the calls of ProcessAction
  atOnce,    \* history: two draws were between reading and cutting the deck
  crossed,   \* history: players of whom two draws were writing the hand
  down,      \* the process has died of a data race
  begins

cardVars == <<roomState, seated, deck, hands, events, action, atOnce, crossed,
              down, begins>>

NoAction == [at |-> "idle"]

CardsInit ==
  /\ roomState = "none" /\ seated = {}
  /\ deck = <<>> /\ hands = [p \in CardPlayers |-> <<>>] /\ events = <<>>
  /\ action = [c \in CardCallers |-> NoAction]
  /\ atOnce = FALSE /\ crossed = {} /\ down = FALSE /\ begins = 0

ActionGoes(c, x) == action' = [action EXCEPT ![c] = x]
ActionReturns(c) == ActionGoes(c, NoAction)

-----------------------------------------------------------------------------
CreateRoom ==
  /\ roomState = "none" /\ roomState' = "waiting"
  /\ deck' = [i \in Deck |-> i]
  /\ UNCHANGED <<seated, hands, events, action, atOnce, crossed, down, begins>>

(* AddPlayer asks neither for the state of the room nor whether it is over.*)
AddPlayer(p) ==
  /\ Cardinality(seated) < MaxSeats /\ p \notin seated
  /\ seated' = seated \cup {p}
JoinRoom(p) ==
  /\ roomState # "none" /\ AddPlayer(p)
  /\ UNCHANGED <<roomState, deck, hands, events, action, atOnce, crossed, down, begins>>

(* RemovePlayer: the last one ends the room, and a hand is not given back. *)
RemovePlayer(p) ==
  /\ p \in seated /\ seated' = seated \ {p}
  /\ roomState' = IF seated' = {} THEN "ended" ELSE roomState
LeaveRoom(p) ==
  /\ RemovePlayer(p)
  /\ UNCHANGED <<deck, hands, events, action, atOnce, crossed, down, begins>>

(* SetState, called from outside to start the game.                        *)
Begin ==
  /\ roomState # "none" /\ begins < MaxGameBegins
  /\ begins' = begins + 1 /\ roomState' = "running"
  /\ UNCHANGED <<seated, deck, hands, events, action, atOnce, crossed, down>>

(* ProcessAction: the player is in the room ...                            *)
FindPlayer(c, p) ==
  /\ action[c] = NoAction /\ p \in seated
  /\ ActionGoes(c, [at |-> "validate", player |-> p])
  /\ UNCHANGED <<roomState, seated, deck, hands, events, atOnce, crossed, down, begins>>

(* ... validateDrawCard ...                                                *)
ValidateDraw(c) ==
  /\ action[c].at = "validate"
  /\ IF roomState = "running" /\ deck # <<>>
     THEN ActionGoes(c, [action[c] EXCEPT !.at = "take"])
     ELSE ActionReturns(c)
  /\ UNCHANGED <<roomState, seated, deck, hands, events, atOnce, crossed, down, begins>>

(* ... processDrawCard: the first card is read; when none is left the      *)
(* result has no event ...                                                 *)
TakeCard(c) ==
  LET x == action[c] IN
  /\ x.at = "take"
  /\ IF deck = <<>>
     THEN ActionGoes(c, [at |-> "state", player |-> x.player, card |-> 0])
     ELSE ActionGoes(c, [at |-> "cut", player |-> x.player, card |-> Head(deck)])
  /\ atOnce' = (atOnce \/ \E d \in CardCallers : action[d].at = "cut")
  /\ UNCHANGED <<roomState, seated, deck, hands, events, crossed, down, begins>>

(* ... the deck is cut; Deck[1:] of an empty deck panics ...               *)
CutDeck(c) ==
  /\ action[c].at = "cut"
  /\ IF deck = <<>>
     THEN down' = TRUE /\ UNCHANGED <<deck, action>>
     ELSE /\ deck' = Tail(deck) /\ UNCHANGED down
          /\ ActionGoes(c, [action[c] EXCEPT !.at = "deal"])
  /\ UNCHANGED <<roomState, seated, hands, events, atOnce, crossed, begins>>

(* ... the hand is read, or made when there is none ...                    *)
Drawing(p) == {c \in CardCallers : action[c].at = "store" /\ action[c].player = p}
ReadHand(c) ==
  LET x == action[c] IN
  /\ x.at = "deal"
  /\ ActionGoes(c, [at |-> "store", player |-> x.player, card |-> x.card,
                    hand |-> hands[x.player]])
  /\ crossed' = IF Drawing(x.player) # {} THEN crossed \cup {x.player} ELSE crossed
  /\ UNCHANGED <<roomState, seated, deck, hands, events, atOnce, down, begins>>

(* ... and stored with the card; what another draw has stored since is     *)
(* lost ...                                                                *)
StoreHand(c) ==
  LET x == action[c] IN
  /\ x.at = "store"
  /\ hands' = [hands EXCEPT ![x.player] = Append(x.hand, x.card)]
  /\ ActionGoes(c, [at |-> "state", player |-> x.player, card |-> x.card])
  /\ UNCHANGED <<roomState, seated, deck, events, atOnce, crossed, down, begins>>

(* ... for the map of the hands has no mutex either: the Go runtime may    *)
(* end a process in which it is written while it is in use ...             *)
MapRace ==
  /\ \E c, d \in CardCallers :
       /\ c # d /\ {action[c].at, action[d].at} \subseteq {"deal", "store"}
       /\ action[d].at = "store" \/ hands[action[d].player] = <<>>
  /\ down' = TRUE
  /\ UNCHANGED <<roomState, seated, deck, hands, events, action, atOnce, crossed, begins>>

(* ... the state is set to NextState, which the module leaves at its zero  *)
(* value, Waiting ...                                                      *)
NextState(c) ==
  /\ action[c].at = "state" /\ roomState' = "waiting"
  /\ ActionGoes(c, [action[c] EXCEPT !.at = "events"])
  /\ UNCHANGED <<seated, deck, hands, events, atOnce, crossed, down, begins>>

Events(x) == IF x.card = 0 THEN <<>> ELSE <<[player |-> x.player, card |-> x.card]>>

(* Mutant: the events of the action replace those of the room.             *)
SetEvents(c) ==
  /\ action[c].at = "events"
  /\ events' = Events(action[c]) /\ ActionReturns(c)
  /\ UNCHANGED <<roomState, seated, deck, hands, atOnce, crossed, down, begins>>

(* ... and the events are added.                                           *)
AddEvents(c) ==
  /\ action[c].at = "events"
  /\ events' = events \o Events(action[c]) /\ ActionReturns(c)
  /\ UNCHANGED <<roomState, seated, deck, hands, atOnce, crossed, down, begins>>

CardsNext ==
  /\ ~down
  /\ \/ CreateRoom \/ Begin \/ MapRace
     \/ \E p \in CardPlayers : JoinRoom(p) \/ LeaveRoom(p)
     \/ \E c \in CardCallers, p \in CardPlayers : FindPlayer(c, p)
     \/ \E c \in CardCallers :
          \/ ValidateDraw(c) \/ TakeCard(c) \/ CutDeck(c) \/ ReadHand(c)
          \/ StoreHand(c) \/ NextState(c) \/ AddEvents(c)

-----------------------------------------------------------------------------
CardsTypeOK ==
  /\ roomState \in {"none", "waiting", "running", "ended"}
  /\ seated \subseteq CardPlayers /\ Cardinality(seated) <= MaxSeats
  /\ deck \in Seq(Deck) /\ \A p \in CardPlayers : hands[p] \in Seq(Deck)
  /\ events \in Seq([player : CardPlayers, card : Deck])
  /\ \A c \in CardCallers :
       action[c].at \in {"idle", "validate", "take", "cut", "deal", "store", "state", "events"}
  /\ atOnce \in BOOLEAN /\ crossed \subseteq CardPlayers /\ down \in BOOLEAN
  /\ begins \in 0..MaxGameBegins

(* Cards add up: a card is in the deck, in a hand or on its way from one   *)
(* to the other, whatever players come and go and however often the game   *)
(* is begun, unless two draws have read the deck at a time (atOnce): no    *)
(* card is dealt twice or missing.  A card is lost from a hand only if two *)
(* draws of its player were writing the hand at a time (crossed; nothing   *)
(* guards CardGameData), and then the events or the draw under way tell of *)
(* it.  And the cards of a hand are always such as are told of.            *)
Dealt(p) == {hands[p][i] : i \in DOMAIN hands[p]}
InDeck   == {deck[i] : i \in DOMAIN deck}
Drawers(stages) == {c \in CardCallers : action[c].at \in stages}
OnTheWay == {action[c].card : c \in Drawers({"deal", "store"})}
Drawn(p) == {action[c].card :
              c \in {d \in Drawers({"state", "events"}) : action[d].player = p}} \cap Deck
Told(p)  == {events[i].card : i \in {j \in DOMAIN events : events[j].player = p}}
HandCells == {h \in CardPlayers \X Deck : h[2] \in DOMAIN hands[h[1]]}
CardsAddUp ==
  /\ ~atOnce /\ roomState # "none" =>
       /\ Deck = InDeck \cup OnTheWay \cup (UNION {Dealt(p) : p \in CardPlayers})
                    \cup (UNION {Told(p) \cup Drawn(p) : p \in crossed})
       /\ crossed = {} => Len(deck) + Cardinality(OnTheWay) + Cardinality(HandCells) = DeckSize
  /\ \A p \in CardPlayers : Dealt(p) \subseteq Told(p) \cup Drawn(p)
=============================================================================
