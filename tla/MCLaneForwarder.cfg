\* Stalled peers, closed ends, a failed setup and a cancelled context at every step of two copies.
SPECIFICATION FairSpec
CONSTANTS
  Capacity = 1
  MaxChunks = 3
  Events = {"setup", "cancel", "native", "lane"}
INVARIANTS
  OutcomeTrue
  NothingLeft
PROPERTIES
  Returns
CHECK_DEADLOCK FALSE
