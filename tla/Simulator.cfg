CONSTANTS
  m = m
  n = n
  Instruments = {m}
  Contract <- DalianContract
  Cent = 2
  FeeRounding = "NoRounding"
  FeeBasis = "TradePrice"
  MarginBasis = "OpenTodayPreSettleHistory"
  SideScope = "ByProduct"
  MarkBasis = "Last"
  Algorithm = "OnlyLost"
  FreezeBasis = "AtOrderPrice"
  UndatedClose = "Unmeasured"
  MaxSequence = 2
  NoID = NoID
  orderA = orderA
  orderB = orderB
  ID = {orderA, orderB}
  Starts <- DalianStarts
  Requests <- DalianRequests
  Prices = {2, 3}
  Amounts = {5}
  LastDay = 2
  MaxLots = 2
  MaxTrades = 2
  MaxFlow = 5
SPECIFICATION Spec
INVARIANTS
  LotsForEveryOrder
  EquityIsTradeProfit
  RestoredUnlessOvercharged
PROPERTIES
  BrokenOnlyWhenFundsShort
CHECK_DEADLOCK FALSE
