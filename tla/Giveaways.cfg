SPECIFICATION FairSpec
CONSTANTS
  g1 = g1
  g2 = g2
  u1 = u1
  u2 = u2
  t1 = t1
  t2 = t2
  t3 = t3
  None = None
  Giveaways = {g1, g2}
  Users = {u1, u2}
  Tasks = {t1, t2, t3}
  Commands <- HostAndMembers
  Clickers <- MemberClicks
  Lengths = {1}
  MaxTime = 2
  MaxCommands = 4
  MaxErrors = 1
  MaxCrashes = 1
INVARIANTS
  TypeOK
  ResultNotLost
  RepliesHold
PROPERTIES
  KeepsPromise
  NeverEndsEarly
  DueGiveawaysEnd
