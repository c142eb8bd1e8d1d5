SPECIFICATION MCSpec
CONSTANTS
  Users = {ana, bia}
  Tickets = {1, 2}
  Attempts = 2
  RECEIPTS_BATCH_LIMIT = 2
  MaxLost = 1
  MaxFaults = 1
  MaxMoves = 4
  None = None
PROPERTIES
  EventsSettle
  PeopleSettle
CHECK_DEADLOCK FALSE
