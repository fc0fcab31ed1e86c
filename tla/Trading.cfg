CONSTANTS
  m = m
  n = n
  Missing = Missing
  Undeclared = Undeclared
  Accounts <- MCAccounts
  TradingCalendar <- MCCalendar
  DayLength = 8
  TickRounding <- InwardRounding
  PositionLimit <- MCLimit
  Cent = 2
  FeeRounding = "HalfUpToCent"
  FeeBasis = "PreSettlement"
  MarginBasis = "PreSettleAll"
  SideScope = "ByProduct"
  MarkBasis = "Last"
  Algorithm = "OnlyLost"
  FreezeBasis = "AtPreSettlement"
  UndatedClose = "AsYesterday"
  MaxSequence = 2
  NoID = NoID
  orderA = orderA
  orderB = orderB
  ID = {orderA, orderB}
  Requests <- MCRequests
  Trades <- MCTrades
  Times <- MCTimes
  Bars <- MCBars
  Prices = {4, 6}
  MaxLots = 2
  MaxTrades = 2
SPECIFICATION Spec
SYMMETRY Ids
INVARIANTS
  ValidOrdersTrade
  SubmitIsPlaceThenFill
  RestingOrdersStayValid
  WithholdingNeverHelps
  BarsInSession
  DayBeginsAtFirstOpen
  OnlyMoneyStopsTheEvening
PROPERTIES
  NothingHeldTooLong
  ClosingFreesMargin
CHECK_DEADLOCK FALSE
