-------------------------- MODULE MCActorSystem --------------------------
(* A small server process: goroutines t1, t2 and t3 that between them make *)
(* a few calls, and mailboxes of one message.                              *)
EXTENDS ActorSystem, TLC

CONSTANTS t1, t2, t3

MCMaxCalls == t1 :> 2 @@ t2 :> 1 @@ t3 :> 1
=============================================================================
