SPECIFICATION Spec
CONSTANTS
  MailCallers = {a, b}
  MailUsers = {x, y}
  MaxMails = 2
  MaxMailFaults = 1
  MaxMailStarts = 1
  GameCallers = {a, b}
  Winners = {1, 2}
  MaxGames = 2
  MaxGameFaults = 1
  MaxGameStarts = 1
  FriendCallers = {a, b}
  FriendUsers = {x, y}
  MaxFriendRows = 4
  MaxFriendFaults = 1
  BanCallers = {a, b}
  MaxBans = 3
  MaxBanTime = 3
  MaxBanFaults = 1
  CenterCallers = {cc}
  ClusterNodes = {x, y}
  MaxOrders = 1
  MaxLives = 2
  MaxCenterFaults = 1
  CardCallers = {a, b}
  CardPlayers = {x, y}
  MaxSeats = 2
  DeckSize = 3
  MaxGameBegins = 2
  QueueNodes = {x, y}
  QueuePublishers = {qp1}
  NsqdCount = 2
  MaxMessages = 1
  MaxAttempts = 2
  MaxQueueFaults = 1
  MaxQueueStarts = 1
  Everyone = Everyone
  Commands = {shutdown, restart}
  Registered = {shutdown}
  Runners = {a, b}
  MaxVersion = 3
  Irreversible = {1}
  MaxRuns = 4
  PoolUsers = {g1, g2, g3}
  PoolMax = 2
  MaxObjects = 4
  Blank = Blank
  MaxFileVersion = 4
  MaxReadFaults = 1
SYMMETRY Symmetry
INVARIANTS TypeOK RewardsClaimedOnce RecordsTellGames FriendsOfEachOther OneActiveBan
  OrdersStopOnce CardsAddUp CommandsAreRun RecordsMatchSchema ObjectsAreExclusive ConfigFollowsFile
CHECK_DEADLOCK FALSE
