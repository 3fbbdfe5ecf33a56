SPECIFICATION FairSpec
CONSTANTS
  Conns = {c1, c2}
  MaxClients = 1
  Runs = {r1}
  NoRun = NoRun
  Events <- MCEvents
INVARIANTS
  RunRetired
  CloseJoins
PROPERTIES
  LossIsNoticed
  Settles
CHECK_DEADLOCK FALSE
