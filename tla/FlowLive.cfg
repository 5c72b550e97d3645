\* A threaded memory input that sends to an emitter, and a file input.
CONSTANTS
  a = a  b = b  c = c  e = e  None = None
  Inputs = {a, b, e}
  Kind <- MCKindLive
  Limit <- MCLimitLive
  Threaded = {a}
  PauseOnUp = {b}
  Sharing = {a, b}
  Em = e
  MaxUp = 1
  Sizes = {1}
  MaxChunks = 1
  MaxSize = 1
  MaxRing = 1
  MaxChan = 2
SPECIFICATION LiveSpec
INVARIANTS PausedForALimit
PROPERTIES PausedIsResumed
CHECK_DEADLOCK FALSE
