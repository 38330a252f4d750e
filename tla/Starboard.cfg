SPECIFICATION Spec
CONSTANTS
  bot = bot
  None = None
  Messages = {m1, m2}
  Users = {u1, u2, bot}
  Uncounted = {bot}
  Posts = {p1, p2, p3}
  Tasks = {t1, t2}
  Threshold = 1
  Window = 1
  Capacity = 1
  MaxTime = 4
  MaxReactions = 4
  MaxFaults = 1
SYMMETRY Alike
INVARIANTS
  TypeOK
  RowsNameTheirPosts
  PostsWereEarned
  InSyncWhenCalm
CHECK_DEADLOCK FALSE
