------------------------------ MODULE Services ------------------------------
(***************************************************************************)
(* The services of the repository that run beside each other without any   *)
(* state in common: servers of different node types, the message queue,    *)
(* the migration tool and packages that a process uses.  The variable part *)
(* chooses one of them, which runs while the others rest in their initial  *)
(* states: since they share nothing, their interleavings add nothing, and  *)
(* one run explores each of them in turn.                                  *)
(***************************************************************************)
EXTENDS Mailbox, Games, Friends, Bans, Center, CardRooms, MessageQueue,
        Migrations, ObjectPool, HotReload, TLC

VARIABLE part

Parts == {"mail", "games", "friends", "bans", "center", "cards", "queue",
          "migrations", "pool", "reload"}

(* The parts that rest do so in one of their initial states.               *)
Init ==
  /\ part \in Parts
  /\ MailInit /\ GamesInit /\ FriendsInit /\ BansInit /\ CenterInit
  /\ CardsInit /\ QueueInit /\ MigrationsInit /\ PoolInit /\ ReloadInit
  /\ part = "queue" \/ (balanced /\ failover)
  /\ part = "pool" \/ resets
  /\ part = "reload" \/ (plugin /\ wellFormed = {1})

servers  == <<mailVars, gameVars, friendVars, banVars, centerVars>>
packages == <<cardVars, queueVars, migrationVars, poolVars, reloadVars>>

Server ==
  /\ \/ /\ part = "mail" /\ MailNext
        /\ UNCHANGED <<gameVars, friendVars, banVars, centerVars>>
     \/ /\ part = "games" /\ GamesNext
        /\ UNCHANGED <<mailVars, friendVars, banVars, centerVars>>
     \/ /\ part = "friends" /\ FriendsNext
        /\ UNCHANGED <<mailVars, gameVars, banVars, centerVars>>
     \/ /\ part = "bans" /\ BansNext
        /\ UNCHANGED <<mailVars, gameVars, friendVars, centerVars>>
     \/ /\ part = "center" /\ CenterNext
        /\ UNCHANGED <<mailVars, gameVars, friendVars, banVars>>
  /\ UNCHANGED packages

Package ==
  /\ \/ /\ part = "cards" /\ CardsNext
        /\ UNCHANGED <<queueVars, migrationVars, poolVars, reloadVars>>
     \/ /\ part = "queue" /\ QueueNext
        /\ UNCHANGED <<cardVars, migrationVars, poolVars, reloadVars>>
     \/ /\ part = "migrations" /\ MigrationsNext
        /\ UNCHANGED <<cardVars, queueVars, poolVars, reloadVars>>
     \/ /\ part = "pool" /\ PoolNext
        /\ UNCHANGED <<cardVars, queueVars, migrationVars, reloadVars>>
     \/ /\ part = "reload" /\ ReloadNext
        /\ UNCHANGED <<cardVars, queueVars, migrationVars, poolVars>>
  /\ UNCHANGED servers

Next == (Server \/ Package) /\ UNCHANGED part

Spec == Init /\ [][Next]_<<part, servers, packages>>

-----------------------------------------------------------------------------
(* Type correctness of every part.                                         *)
TypeOK ==
  /\ part \in Parts
  /\ MailTypeOK /\ GamesTypeOK /\ FriendsTypeOK /\ BansTypeOK /\ CenterTypeOK
  /\ CardsTypeOK /\ QueueTypeOK /\ MigrationsTypeOK /\ PoolTypeOK /\ ReloadTypeOK

(* Callers can be exchanged, and users: a configuration gives every part   *)
(* the same callers, and the same users, players and nodes.                *)
Symmetry == Permutations(MailCallers) \cup Permutations(MailUsers)
=============================================================================
