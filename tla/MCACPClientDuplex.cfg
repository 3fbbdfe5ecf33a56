\* Liveness: both pipes full, cancellations, native's exit.
SPECIFICATION FairSpec
CONSTANTS
  Calls = {c1, c2}
  Requests = {q1, q2}
  Free = Free
  Stranger = Stranger
  MaxPending = 2
  MaxRetained = 6
  CallBytes = 1
  ReplyBytes = 1
  RequestBytes = 1
  PipeSize = 1
  MaxAsks = 2
  Events = {"close"}
PROPERTIES
  Returns
  Joins
CHECK_DEADLOCK FALSE
