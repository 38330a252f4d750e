SPECIFICATION MCSpec
CONSTANTS
  Focuses = {"levels", "premium", "afk", "joining", "sentinel", "guilds", "limiter", "bulk", "music", "embeds"}
  Tasks = {t1, t2}
  MaxEdits = 1
  MaxReadies = 1
  MaxChanges = 2
  MaxFaults = 1
  Members = {u1}
  LevelRoles = {r1}
  RewardLevels = {1, 2}
  Awards = {60, 260}
  SetTo = {0, 100}
  MaxMessages = 3
  None = None
  Tokens = {k1, k2, k3}
  Users = {u1, u2}
  Tiers = {1, 2}
  NoToken = NoToken
  NoUser = NoUser
  MaxActivations = 3
  People = {u1}
  Notices = {"lunch", "away"}
  Grace = 1
  MaxNow = 3
  MaxCommands = 4
  Nobody = Nobody
  NoNotice = NoNotice
  NoSnapshot = NoSnapshot
  Joiners = {u1}
  JoinRoleSet = {r1, r2}
  MaxAutoroles = 1
  JoinMoves = 4
  Channels = {c1}
  NoChannel = NoChannel
  Thresholds = {70, 85}
  Guilds = {g1, g2}
  NoGuild = NoGuild
  GuildMoves = 3
  Actors = {a1, a2}
  NoActor = NoActor
  Window = 2
  MaxActor = 1
  MaxGlobal = 2
  Cap = 1
  MaxClock = 3
  MaxRequests = 6
  Holders = {u1, b1}
  Bots = {b1}
  Ranks = {1, 2}
  Prompts = {m1, m2}
  MaxPending = 1
  BulkPresses = 3
  MaxStaff = 1
  NoHolder = NoHolder
  NoPrompt = NoPrompt
  NoChange = NoChange
  MaxQueue = 2
  MaxLoad = 2
  MaxOrders = 5
  Messages = {m1, m2}
  NoMessage = NoMessage
  Authors = {a1}
  Texts = {"x"}
  Blank = "blank"
  Fields = {"f", "g"}
  MaxFields = 2
  MaxBuilders = 1
  MaxPresses = 4
  NoEmbed = NoEmbed
SYMMETRY Alike
INVARIANTS
  FeaturesTypeOK
  RewardsArrive
  TierPaidFor
  CopiesInStep
  GuildsTracked
  JoinersGetTheirRoles
  RolesInOrder
  DoneToWhatIsShown
  LimitsHeld
CHECK_DEADLOCK FALSE
