\* Launches sweep at once while a TUI is relaunched and its late helpers bind; sessions that end are collected.
SPECIFICATION FairSpec
CONSTANTS
  Relaunched = l1
  Launches = {l1, l2, l3}
  Nobody = Nobody
  Absent = Absent
  Unreadable = Unreadable
  MaxTUI = 2
  Relaunches <- Uneven
  Events = {"failure", "kill", "ambiguous"}
INVARIANTS
  InputKept
  FailedLeavesNothing
PROPERTIES
  Collects
CHECK_DEADLOCK FALSE
