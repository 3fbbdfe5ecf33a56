\* Directories and rows that come, change and go under a helper that starts, observes and ends.
SPECIFICATION FairSpec
CONSTANTS
  Rows = {r1, r2}
  NoRow = NoRow
  Invalid = Invalid
  MaxWrites = 4
  Events = {"fresh", "invalid", "remove", "overflow", "exit", "eof", "end"}
INVARIANTS
  NoChangeLost
  NothingLeft
PROPERTIES
  Observed
  HelperEnds
CHECK_DEADLOCK FALSE
