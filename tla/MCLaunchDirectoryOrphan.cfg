\* A TUI that outlives its supervisor before its helper has bound.
SPECIFICATION Spec
CONSTANTS
  Relaunched = l1
  Launches = {l1, l2}
  Nobody = Nobody
  Absent = Absent
  Unreadable = Unreadable
  MaxTUI = 2
  Relaunches <- Even
  Events = {"kill"}
INVARIANTS
  LiveTUIKeepsInput
CHECK_DEADLOCK FALSE
