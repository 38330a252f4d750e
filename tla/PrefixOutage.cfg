SPECIFICATION MCSpec
CONSTANTS
  Focuses = {"prefixes"}
  NoTarget = NoTarget
  Absent = Absent
  Idle = Idle
  Tasks = {t1}
  Cogs = {"starboard"}
  Targets = {c1}
  MaxUpdates = 0
  MaxReadies = 0
  MaxFaults = 0
  Standard = p0
  Names = {p0, p1}
  MaxPrefixes = 2
  MaxCommands = 1
  MaxEvents = 1
PROPERTY OutagesKeepPrefixes
CHECK_DEADLOCK FALSE
