--------------------------- MODULE MCRpcClient ---------------------------
(* One client shared by two callers of one call each; with MCAttempts the   *)
(* first may retry once.                                                    *)
EXTENDS RpcClient, TLC

CONSTANTS c1, c2

MCMaxCalls   == c1 :> 1 @@ c2 :> 1
MCAttempts   == c1 :> 2 @@ c2 :> 1
MCOneAttempt == c1 :> 1 @@ c2 :> 1
=============================================================================
