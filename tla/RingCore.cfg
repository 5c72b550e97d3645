\* A ring of two slots whose pointers straddle its end; pauses and the exit.
CONSTANTS
  Cap = 2
  E = 3
  Window = 50
  RetryLimit = 2
  Ordered = TRUE
  MayPause = TRUE
  MayStop = TRUE
  MaxRecords = 8
  None = None
SPECIFICATION LiveSpec
INVARIANTS PendingIsAnswered NothingLeftInRing
PROPERTIES RefinesFifo AllCollected AppendReturns
CHECK_DEADLOCK FALSE
