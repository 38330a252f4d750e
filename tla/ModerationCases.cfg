SPECIFICATION MCSpec
CONSTANTS
  u1 = u1
  u2 = u2
  r1 = r1
  r2 = r2
  t1 = t1
  t2 = t2
  None = None
  Users = {u1}
  Roles = {}
  Tasks = {t1, t2}
  AutomodTasks = {}
  Commands <- AllCommands
  Policies <- TimeoutAtThree
  InitialPolicy <- KickAtTwo
  Durations = {1, 2}
  Faults = {"db", "transient", "refused", "crash"}
  MaxTime = 1
  MaxCommands = 4
  MaxCrashes = 1
INVARIANTS
  TypeOK
  RowMatchesCase
  EscalationsEarned
PROPERTIES
  KeepsLog
