\* A memory input and a memory ring buffer with appends of two sizes.
CONSTANTS
  a = a  b = b  c = c  e = e  None = None
  Inputs = {a, b}
  Kind <- MCKindMemory
  Limit <- MCLimitMemory
  Threaded = {a}
  PauseOnUp = {}
  Sharing = {}
  Em = None
  MaxUp = 1
  Sizes = {1, 2, 4}
  MaxChunks = 2
  MaxSize = 7
  MaxRing = 1
  MaxChan = 2
SPECIFICATION Spec
INVARIANTS MemrbCanRelease
CHECK_DEADLOCK FALSE
