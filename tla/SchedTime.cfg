\* An engine that keeps up: requests of every length around one and two frames.
CONSTANTS
  Retries = {x1, x2, x3}
  Requests = {q1, q2, q3, q4}
  Frame = 3
  Waits = {1, 3, 4, 7, 8}
  Faults = {}
  Punctual = TRUE
  None = None
SPECIFICATION Spec
SYMMETRY Symmetry
INVARIANTS OnTime
