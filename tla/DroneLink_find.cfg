SPECIFICATION LinkSpec
CONSTANTS MaxFound = 2
  MaxPosts = 1
INVARIANTS LabelNotStale RunningShown
PROPERTY ImplementsLife
CHECK_DEADLOCK FALSE
