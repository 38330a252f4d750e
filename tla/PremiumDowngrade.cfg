SPECIFICATION Spec
CONSTANTS
  Tokens = {k1, k2}
  Users = {u1}
  Tiers = {1, 2}
  Tasks = {t1, t2}
  NoToken = NoToken
  NoUser = NoUser
  MaxActivations = 2
  MaxFaults = 0
PROPERTIES
  NeverDowngraded
CHECK_DEADLOCK FALSE
