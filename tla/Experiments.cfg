SPECIFICATION Spec
CONSTANTS
  Names <- MCNames
  Worlds <- MCWorlds
INVARIANTS NothingLeftStanding EndsFlat
PROPERTIES HistoryIsSafe EveryScriptEnds
CHECK_DEADLOCK FALSE
