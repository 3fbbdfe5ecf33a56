\* Liveness: one Run that meets every event.
SPECIFICATION FairSpec
CONSTANTS
  Runs = {r1}
  Deliveries = {d1}
  NoRun = NoRun
  Text = Text
  NoSeed = NoSeed
  Idle = Idle
  Size <- MCSize
  MaxStaged = 1
  MaxBytes = 1
  MaxDrain = 1
  MaxOutput = 2
  Separator = 1
  EarlyCapture = FALSE
  Terminals = {"end_turn", "cancelled", "max_tokens", "invalid"}
  Events = {"interrupt", "context", "close", "loss", "refusal", "invalid", "output"}
INVARIANTS
  ReceiptIsTrue
  OutputWithinBound
PROPERTIES
  RunSettles
CHECK_DEADLOCK FALSE
