SPECIFICATION Spec
CONSTANTS Devices = {d1, d2}
  NoMyo = NoMyo
  MaxScans = 2
  MaxPosts = 1
INVARIANTS ChosenStays OthersReleased NeverStuck
PROPERTY NothingLeftOn
CHECK_DEADLOCK FALSE
