SPECIFICATION FairSpec
CONSTANTS
  u1 = u1
  u2 = u2
  r1 = r1
  r2 = r2
  t1 = t1
  t2 = t2
  None = None
  Users = {u1}
  Roles = {r1}
  Tasks = {t1}
  AutomodTasks = {}
  Commands <- TermCommands
  Policies <- SwitchedOff
  InitialPolicy <- TimeoutAtTwo
  Durations = {1}
  Faults = {"transient", "crash"}
  MaxTime = 2
  MaxCommands = 3
  MaxCrashes = 1
PROPERTIES
  DueRowsDrain
  TempbansEnd
