\* Two calls, two requests, a tight account, every event.
SPECIFICATION Spec
CONSTANTS
  Calls = {c1, c2}
  Requests = {q1}
  Free = Free
  Stranger = Stranger
  MaxPending = 2
  MaxRetained = 3
  CallBytes = 1
  ReplyBytes = 2
  RequestBytes = 1
  PipeSize = 1
  MaxAsks = 2
  Events = {"cancel", "refuse", "close", "invalid", "stray", "exit"}
SYMMETRY Interchangeable
INVARIANTS
  RetainedExact
  OneReply
  LateReplyHarmless
  ClaimWins
CHECK_DEADLOCK FALSE
