SPECIFICATION Spec
CONSTANTS
  u1 = u1
  u2 = u2
  r1 = r1
  r2 = r2
  t1 = t1
  t2 = t2
  None = None
  Users = {u1, u2}
  Roles = {r1, r2}
  Tasks = {t1, t2}
  AutomodTasks = {}
  Commands <- WatchCommands
  Policies <- NoPolicies
  InitialPolicy <- TimeoutAtTwo
  Durations = {1}
  Faults = {"transient", "roles"}
  MaxTime = 1
  MaxCommands = 3
  MaxCrashes = 0
INVARIANTS
  TempbanWatchedUntainted
  MuteWatched
  WarnsSettled
SYMMETRY Symmetry
