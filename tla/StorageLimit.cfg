SPECIFICATION Spec
CONSTANTS
  a = a  m = m  sb = sb  o1 = o1  o2 = o2
  None = None  c1 = c1  c2 = c2  c3 = c3
  Chunks = {c1, c2, c3}
  Inputs = {a, m, sb}
  Backlog = sb
  Fs = {a, m}
  Outputs = {o1}
  Limit <- MCLimitOne
  Tags = {"t1"}
  Route <- MCRouteOne
  Sizes = {2, 3}
  MaxSize = 2
  DelBad = FALSE
  Faults = {}
  MaxRestarts = 0
INVARIANTS LimitHeld
SYMMETRY MCPerms
CHECK_DEADLOCK FALSE
