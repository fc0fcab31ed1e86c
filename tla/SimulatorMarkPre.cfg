CONSTANTS
  m = m
  n = n
  Instruments = {m}
  Contract <- DalianContract
  Cent = 2
  FeeRounding = "NoRounding"
  FeeBasis = "TradePrice"
  MarginBasis = "OpenTodayPreSettleHistory"
  SideScope = "ByProduct"
  MarkBasis = "PreSettlement"
  Algorithm = "OnlyLost"
  FreezeBasis = "AtOrderPrice"
  UndatedClose = "Unmeasured"
  MaxSequence = 3
  NoID = NoID
  orderA = orderA
  orderB = orderB
  ID = {orderA, orderB}
  Starts <- DalianStarts
  Requests <- DalianRequests
  Prices = {2, 3}
  Amounts = {5}
  LastDay = 2
  MaxLots = 2
  MaxTrades = 3
  MaxFlow = 0
SPECIFICATION Spec
PROPERTIES
  SettlementTakesAllProfit
CHECK_DEADLOCK FALSE
