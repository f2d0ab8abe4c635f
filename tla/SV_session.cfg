CONSTANTS
  k1 = k1  c1 = c1  None = None
  Turns = 3
  Continuation = {k1}
  QueueLimit = 1
  RunEvents = 2
  MaxFacts = 1
  Cancels = {2}
  Scoped = {1}
  StreamTurns = 1
  EventfulTurns = 2
  Shuts = TRUE
  Client = {c1}
  Event <- MCEvent
  MaxDisconnects = 1
SPECIFICATION FairSpec
CHECK_DEADLOCK FALSE
INVARIANTS RunEventsInOrder
PROPERTIES StreamIsTheLog TurnResolved ClientCatchesUp
