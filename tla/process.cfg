SPECIFICATION ProcessSpec
CONSTANTS
  i1 = i1
  i2 = i2
  i3 = i3
  Rows <- ThreeRows
  QueueMax = 2
  FlushSize = 2
  MaxPending = 3
  MaxEvents = 5
INVARIANTS
  QueueHolds
  EventsAccounted
PROPERTIES
  ProcessMovesOn
