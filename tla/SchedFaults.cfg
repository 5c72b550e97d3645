\* Handlers run late and every call may fail.
CONSTANTS
  Retries = {x1, x2}
  Requests = {q1, q2}
  Frame = 2
  Waits = {1, 2, 3, 5}
  Faults = {"alloc", "request_alloc", "timeout_create", "retry_now"}
  Punctual = FALSE
  None = None
SPECIFICATION FairSpec
INVARIANTS TypeOK OneRequest QueuedIsLive NotEarly
PROPERTIES RequestEnds
