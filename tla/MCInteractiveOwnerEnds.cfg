\* Liveness: a message on one connection, or outages, renames and refusals, and
\* whatever ends a helper, with the one slot taken or free.
SPECIFICATION FairSpec
CONSTANTS
  Rows = {w1, w2}
  NoRow = NoRow
  Deliveries = {d1}
  Newline = Newline
  Torn = Torn
  MaxConns = 2
  MaxRevisions = 2
  MaxSlots = 1
  Events = {"loss", "refuse", "supersede", "watch", "gone", "end"}
CONSTRAINT Settled
PROPERTIES
  
  Converges
CHECK_DEADLOCK FALSE
