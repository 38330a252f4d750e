SPECIFICATION Spec
CONSTANTS
  u1 = u1
  u2 = u2
  r1 = r1
  r2 = r2
  t1 = t1
  t2 = t2
  None = None
  Users = {u1}
  Roles = {r1}
  Tasks = {t1}
  AutomodTasks = {}
  Commands <- MuteAloneCommands
  Policies <- NoPolicies
  InitialPolicy <- OffPolicy
  Durations = {1, 2}
  Faults = {}
  MaxTime = 1
  MaxCommands = 2
  MaxCrashes = 0
PROPERTIES
  MuteLastsItsTerm
