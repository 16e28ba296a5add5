SPECIFICATION FairSpec
CONSTANTS
  Users = {u1, u2, u3}
  MaxSize = 1
  MaxDials = 4
  MaxUses = 2
INVARIANTS TypeOK OneOwner CreatedCounts
PROPERTIES UsersReturn
CHECK_DEADLOCK FALSE
