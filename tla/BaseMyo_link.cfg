SPECIFICATION FairSpec
CONSTANTS
  vibrate = vibrate
  unlock = unlock
  name = name
  rename = rename
  enable = enable
  Msg = {vibrate, unlock, enable}
  SetupMsg = {enable}
  Writes = {vibrate, unlock, enable}
  Ident = {"command", "emg"}
  IdentOf <- MCIdentOf
  RetryOf <- MCRetryOf
  Missing = {"emg"}
  Loop = {l1}
  NoMsg = NoMsg
  NoGatt = NoGatt
  TimeoutModes = {TRUE, FALSE}
  MaxTroubles = 1
INVARIANTS TypeOK OneInFlight OwnAnswer 
PROPERTIES   EventuallyReported
CHECK_DEADLOCK FALSE
