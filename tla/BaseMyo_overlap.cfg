SPECIFICATION Spec
CONSTANTS
  vibrate = vibrate
  unlock = unlock
  name = name
  rename = rename
  enable = enable
  Msg = {name, rename}
  SetupMsg = {}
  Writes = {rename}
  Ident = {"name"}
  IdentOf <- MCIdentOf
  RetryOf <- MCRetryOf
  Missing = {}
  Loop = {l1, l2}
  NoMsg = NoMsg
  NoGatt = NoGatt
  TimeoutModes = {TRUE}
  MaxTroubles = 0
SYMMETRY LoopSymmetry
INVARIANTS OneCustodian RetryBudget AnswerFits OwnGattAlone
PROPERTY DeliverySpec
CHECK_DEADLOCK FALSE
