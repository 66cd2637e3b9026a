SPECIFICATION Spec
CONSTANTS
  MaxTry = 1
  MaxHeard = 3
  Batches = {2}
  MaxQueued = 1
INVARIANTS RowsConsecutive CallbackDue LoopMeansThread ButtonAgrees
PROPERTIES WholeRecording CloseReturns
CHECK_DEADLOCK FALSE
