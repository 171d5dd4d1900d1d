\* Users that come and leave in any order.
CONSTANTS
  u1 = u1
  u2 = u2
  Users = {u1, u2}
  Configs <- GoodConfigs
SPECIFICATION Spec
INVARIANTS
  OneOwner
  ParamsInPlace
CHECK_DEADLOCK FALSE
