CONSTANTS
  m = m
  n = n
  Missing = Missing
  Undeclared = Undeclared
  Accounts <- ReplayAccounts
  TradingCalendar <- MCCalendar
  DayLength = 8
  TickRounding <- InwardRounding
  PositionLimit <- MCLimit
  Cent = 2
  FeeRounding = "HalfUpToCent"
  FeeBasis = "PreSettlement"
  MarginBasis = "PreSettleAll"
  SideScope = "ByProduct"
  MarkBasis = "Last"
  Algorithm = "OnlyLost"
  FreezeBasis = "AtPreSettlement"
  UndatedClose = "AsYesterday"
  MaxSequence = 2
  NoID = NoID
  orderA = orderA
  orderB = orderB
  ID = {orderA, orderB}
  Requests = {}
  Trades = {}
  Times = {}
  Bars = {}
  Prices = {}
  MaxLots = 2
  MaxTrades = 2
  Events <- MCEvents
  MaxFrames = 3
  Nothing = Nothing
SPECIFICATION ReplaySpec
INVARIANTS
  ReportsReadBack
  DepositIsLeast
  DifferenceIsTheFirst
PROPERTIES
  ZeroMeansPublished
  KeepsPromise
CHECK_DEADLOCK FALSE
