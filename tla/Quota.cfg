CONSTANTS
  Cent = 2
  FeeRounding = "TruncateToCent"
  FeeBasis = "TradePrice"
  Tariffs <- MCTariffs
  TradePrices = {2, 3}
  Volumes = {1, 2}
  MaxHeld = 3
  MaxOpened = 3
SPECIFICATION Spec
INVARIANTS
  WithinACentPerTrade
  TodayRateOnlyForTodaysLots
