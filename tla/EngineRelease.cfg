\* Backlog and ring buffer chunks of limited outputs and a file chunk nobody handles, one task id.
CONSTANTS
  c1 = c1  c2 = c2  c3 = c3  i1 = i1  i2 = i2  i3 = i3  oA = oA  oB = oB
  None = None
  Outputs = {oA, oB}
  Chunks = {c1, c2, c3}
  Inputs = {i1, i2, i3}
  In <- MCInRelease
  Kind <- MCKinds
  Match <- MCRing
  Handles <- MCHandlesRelease
  Direct <- MCDirectRing
  Sync = {oA}
  NoMux = {}
  Threaded = {oB}
  Processors = {oA}
  Limited = {oA, oB}
  RetryLimit <- MCLimit01
  AttemptCap = 2
  TaskIds <- MCIds1
  MaxUp = 2
  Faults = {}
SPECIFICATION Spec
INVARIANTS MappedWhileUsed EventFindsItsTask FlushingRouteIsActive
