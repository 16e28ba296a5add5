--------------------------- MODULE ActorContract ---------------------------
(***************************************************************************)
(* What an actor of internal/actor promises to its callers, whatever locks *)
(* and goroutines it uses: an accepted message is handled at most once, in *)
(* the order of acceptance, one message at a time, only between the actor's*)
(* start and the end of its stop; a stopped actor accepts nothing and may  *)
(* be started again with what it had accepted still waiting.               *)
(***************************************************************************)
EXTENDS Sequences, Naturals

CONSTANTS Actors, Messages

VARIABLES
  phase,     \* [Actors -> {"closed", "open", "closing"}]
  accepted,  \* [Actors -> Seq(Messages)], in order of acceptance
  inHand,    \* [Actors -> SUBSET Messages], what is being handled
  handled    \* [Actors -> Seq(Messages)], in order of completion

vars == <<phase, accepted, inHand, handled>>

Init ==
  /\ phase    = [a \in Actors |-> "closed"]
  /\ accepted = [a \in Actors |-> <<>>]
  /\ inHand   = [a \in Actors |-> {}]
  /\ handled  = [a \in Actors |-> <<>>]

Open(a) ==
  /\ phase[a] = "closed"
  /\ inHand[a] = {}
  /\ phase' = [phase EXCEPT ![a] = "open"]
  /\ UNCHANGED <<accepted, inHand, handled>>

Accept(a, m) ==
  /\ phase[a] = "open"
  /\ accepted' = [accepted EXCEPT ![a] = Append(@, m)]
  /\ UNCHANGED <<phase, inHand, handled>>

(* The next message is the oldest one accepted and not handled.            *)
Take(a) ==
  /\ phase[a] # "closed"
  /\ inHand[a] = {}
  /\ Len(handled[a]) < Len(accepted[a])
  /\ inHand' = [inHand EXCEPT ![a] = {accepted[a][Len(handled[a]) + 1]}]
  /\ UNCHANGED <<phase, accepted, handled>>

Finish(a, m) ==
  /\ phase[a] # "closed"
  /\ inHand[a] = {m}
  /\ inHand'  = [inHand EXCEPT ![a] = {}]
  /\ handled' = [handled EXCEPT ![a] = Append(@, m)]
  /\ UNCHANGED <<phase, accepted>>

BeginClose(a) ==
  /\ phase[a] = "open"
  /\ phase' = [phase EXCEPT ![a] = "closing"]
  /\ UNCHANGED <<accepted, inHand, handled>>

EndClose(a) ==
  /\ phase[a] = "closing"
  /\ inHand[a] = {}
  /\ phase' = [phase EXCEPT ![a] = "closed"]
  /\ UNCHANGED <<accepted, inHand, handled>>

Next ==
  \E a \in Actors :
    \/ Open(a) \/ Take(a) \/ BeginClose(a) \/ EndClose(a)
    \/ \E m \in Messages : Accept(a, m) \/ Finish(a, m)

Spec == Init /\ [][Next]_vars
=============================================================================
