SPECIFICATION FairSpec
CONSTANTS
  Conns = {c1}
  Slots = {s1, s2}
  Users = {u1, u2}
  Registered = {u1}
  MaxTokens = 2
  MaxDirect = 2
  MaxFaults = 1
  NoUser = NoUser
  NoCall = NoCall
INVARIANTS TypeOK OwnSessions
PROPERTIES DeadStayDead GoneGoOffline
CHECK_DEADLOCK FALSE
