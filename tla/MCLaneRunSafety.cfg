\* Two Runs: three deliveries with loss and Close, or two with interrupts.
SPECIFICATION Spec
CONSTANTS
  Runs = {r1, r2}
  Deliveries = {d1, d2, d3}
  NoRun = NoRun
  Text = Text
  NoSeed = NoSeed
  Idle = Idle
  Size <- MCSize
  MaxStaged = 3
  MaxBytes = 2
  MaxDrain = 1
  MaxOutput = 2
  Separator = 1
  EarlyCapture = FALSE
  Terminals = {"end_turn", "cancelled"}
  Events = {"interrupt", "loss", "close"}
SYMMETRY Interchangeable
CONSTRAINT OneFamily
INVARIANTS
  CancelStaysWithItsPrompt
  InterruptReachesPrompt
  CompletedRunHandsAll
  StagedBytesExact
PROPERTIES
  ImplementsInput
  InterruptStopsInput
  NoOvertaking
CHECK_DEADLOCK FALSE
