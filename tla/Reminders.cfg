SPECIFICATION MCSpec
CONSTANTS
  u1 = u1
  u2 = u2
  t1 = t1
  t2 = t2
  None = None
  Reminders = {r1, r2, r3, r4}
  Prompts = {p1, p2}
  Users = {u1, u2}
  Unreachable = {u2}
  Tasks = {t1, t2}
  Speakers <- Serves
  Commands <- OwnerAndMeddler
  Lengths = {1}
  MaxReminders = 1
  MaxPending = 1
  MaxTime = 2
  MaxCommands = 4
  MaxFaults = 1
INVARIANTS
  TypeOK
  DeliveredOnce
  LimitHeld
  OnePerPrompt
PROPERTIES
  KeepsPromise
  DueRemindersGo
