SPECIFICATION FairSpec
CONSTANTS
  Options = {"tcp", "rpc", "actor", "nsq", "registry", "redis"}
  Remotes = {r1, r2}
  MaxConns = 1
  MaxOps = 3
INVARIANTS TypeOK HandlersAreServed StoppedIsQuiet
PROPERTIES StopEnds
CHECK_DEADLOCK FALSE
