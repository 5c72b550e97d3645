\* Two coroutines, two connections at most, both timeouts.
CONSTANTS
  Conns = {c1, c2}
  Coros = {k1, k2}
  MaxConns = 2
  Keepalive = TRUE
  Timeouts = {"connect", "io"}
  None = None
SPECIFICATION FairSpec
INVARIANTS NoDangling AvailableIsUsable WaiterIsReached NothingLost
PROPERTIES WaitEnds Reclaimed
