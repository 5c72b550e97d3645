\* Every modelled call may fail; one output retries without limit and runs one task at a time.
CONSTANTS
  c1 = c1  c2 = c2  c3 = c3  i1 = i1  i2 = i2  i3 = i3  oA = oA  oB = oB
  None = None
  Outputs = {oA, oB}
  Chunks = {c1, c2}
  Inputs = {i1}
  In <- MCInOne
  Kind <- MCFs
  Match <- MCBoth
  Handles <- MCBoth
  Direct <- MCNoDirect
  Sync = {oA}
  NoMux = {oB}
  Threaded = {oB}
  Processors = {}
  Limited = {}
  RetryLimit <- MCLimitU
  AttemptCap = 2
  TaskIds <- MCIds2
  MaxUp = 1
  Faults = {"task_alloc", "flush_create", "sched", "retry_alloc", "content"}
SPECIFICATION Spec
INVARIANTS UsersExact RetryExclusive SynchronousOneTask RetryBudget
CHECK_DEADLOCK FALSE
