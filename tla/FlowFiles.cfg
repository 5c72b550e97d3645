\* A memory ring buffer and two file inputs that compete for one mapped file.
CONSTANTS
  a = a  b = b  c = c  e = e  None = None
  Inputs = {a, b, c}
  Kind <- MCKindFiles
  Limit <- MCLimitFiles
  Threaded = {b}
  PauseOnUp = {b, c}
  Sharing = {a, b, c}
  Em = None
  MaxUp = 1
  Sizes = {1}
  MaxChunks = 2
  MaxSize = 2
  MaxRing = 1
  MaxChan = 2
SPECIFICATION Spec
INVARIANTS TypeOK RunningMayAppend StoppedIsPaused PausedHasChunk MemLimitHeld
CHECK_DEADLOCK FALSE
