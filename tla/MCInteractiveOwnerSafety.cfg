\* Two messages on two connections, short writes and supersession; or renames,
\* outages, refusals, supersession, a tool call and End.
SPECIFICATION Spec
CONSTANTS
  Rows = {w1, w2}
  NoRow = NoRow
  Deliveries = {d1, d2}
  Newline = Newline
  Torn = Torn
  MaxConns = 2
  MaxRevisions = 3
  MaxSlots = 1
  Events = {"loss", "short", "refuse", "supersede", "call", "end", "invalid", "startup"}
SYMMETRY Interchangeable
CONSTRAINT OneFamily
INVARIANTS
  AdmittedIsAcknowledged
  CallOnAcknowledged
PROPERTIES
  ImplementsMailbox
  NothingAfterEnd
  SupersessionIsTerminal
CHECK_DEADLOCK FALSE
