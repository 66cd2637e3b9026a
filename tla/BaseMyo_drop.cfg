SPECIFICATION Spec
CONSTANTS
  vibrate = vibrate
  unlock = unlock
  name = name
  rename = rename
  enable = enable
  Msg = {vibrate}
  SetupMsg = {}
  Writes = {vibrate}
  Ident = {"command"}
  IdentOf <- MCIdentOf
  RetryOf <- MCRetryOf
  Missing = {}
  Loop = {l1}
  NoMsg = NoMsg
  NoGatt = NoGatt
  TimeoutModes = {TRUE}
  MaxTroubles = 0
INVARIANT NothingLost
CHECK_DEADLOCK FALSE
