SPECIFICATION FairSpec
CONSTANTS
  Options = {"tcp", "rpc", "actor", "nsq", "registry", "redis"}
  Remotes = {r1}
  MaxConns = 1
  MaxOps = 1
PROPERTIES StopReturns
CHECK_DEADLOCK FALSE
