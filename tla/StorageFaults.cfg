SPECIFICATION Spec
CONSTANTS
  a = a  m = m  sb = sb  o1 = o1  o2 = o2
  None = None  c1 = c1  c2 = c2  c3 = c3
  Chunks = {c1, c2, c3}
  Inputs = {a, m, sb}
  Backlog = sb
  Fs = {a}
  Outputs = {o1, o2}
  Limit <- MCLimit
  Tags = {"t0", "t1"}
  Route <- MCRoute
  Sizes = {1}
  MaxSize = 2
  DelBad = FALSE
  Faults = {"load", "create"}
  MaxRestarts = 1
INVARIANTS FsExact QueueExact IncomingSurvives UsedSurvives TableLive
SYMMETRY MCPerms
CHECK_DEADLOCK FALSE
