\* Two file chunks with retry limits and without failures.
CONSTANTS
  c1 = c1  c2 = c2  c3 = c3  i1 = i1  i2 = i2  i3 = i3  oA = oA  oB = oB
  None = None
  Outputs = {oA, oB}
  Chunks = {c1, c2}
  Inputs = {i1}
  In <- MCInOne
  Kind <- MCFs
  Match <- MCBoth
  Handles <- MCBoth
  Direct <- MCNoDirect
  Sync = {oA}
  NoMux = {}
  Threaded = {oB}
  Processors = {oA}
  Limited = {}
  RetryLimit <- MCLimit01
  AttemptCap = 2
  TaskIds <- MCIds2
  MaxUp = 2
  Faults = {}
SPECIFICATION FairSpec
INVARIANTS QueueNeverStalls NoOrphanTask
PROPERTIES ImplementsDelivery EveryChunkEnds
