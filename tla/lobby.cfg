SPECIFICATION Spec
CONSTANTS
  Handlers = {h1, h2}
  Users = {u1, u2, u3}
  NoUser = NoUser
  MaxPlayers = 2
  MaxRooms = 2
  MaxReads = 5
  MaxFaults = 2
INVARIANTS TypeOK RoomConsistent
PROPERTIES OthersKeepTheirSeat
CHECK_DEADLOCK FALSE
