SPECIFICATION MCSpec
CONSTANTS
  Focuses = {"starboard", "automod", "levels", "welcome", "goodbye", "logging", "prefixes"}
  NoTarget = NoTarget
  Absent = Absent
  Idle = Idle
  Tasks = {t1, t2}
  Cogs = {"starboard", "automod", "levels", "welcome", "goodbye", "logging"}
  Targets = {c1, c2}
  MaxUpdates = 3
  MaxReadies = 1
  MaxFaults = 1
  Standard = p0
  Names = {p0, p1, p2}
  MaxPrefixes = 2
  MaxCommands = 3
  MaxEvents = 2
SYMMETRY Alike
INVARIANTS
  TypeOK
  InStep
  CachedWasStored
  LogsGoSomewhere
  PrefixesInOrder
PROPERTIES
  OthersKept
CHECK_DEADLOCK FALSE
