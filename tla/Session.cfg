CONSTANTS
  Nothing = Nothing
  NoDay = NoDay
  Attempts = 2
  Today = "monday"
  Days = {"monday", "tuesday"}
  MaxRows = 2
  MaxCalls = 2
  MaxCopies = 2
  Orders <- MCOrders
  ValveSettings <- MCValve
SPECIFICATION SessionSpec
INVARIANTS
  SuccessIsEarned
  RowsAreOwn
  OneSessionAtATime
  InsertTellsOwn
PROPERTIES
  RefusedIsFinal
  CloseWakesEverybody
CHECK_DEADLOCK FALSE
