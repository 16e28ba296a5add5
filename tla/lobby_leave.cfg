SPECIFICATION Spec
CONSTANTS
  Handlers = {h1}
  Users = {u1, u2, u3}
  NoUser = NoUser
  MaxPlayers = 2
  MaxRooms = 2
  MaxReads = 5
  MaxFaults = 0
INVARIANTS LeftMeansOut
CHECK_DEADLOCK FALSE
