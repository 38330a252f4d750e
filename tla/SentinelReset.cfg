SPECIFICATION Spec
CONSTANTS
  Channels = {c1}
  NoChannel = NoChannel
  Thresholds = {85}
  Tasks = {t1}
  MaxChanges = 2
  MaxReadies = 0
  MaxFaults = 0
INVARIANTS
  ResetDropsCopies
CHECK_DEADLOCK FALSE
