CONSTANTS
  Tolerance = 1
  Amounts = {0, 1, 2}
  Profits <- MCProfits
  Fees = {0, 1}
  Archives <- MCArchives
  Ceiling = 2
  MaxTrades = 2
  LastDay = 1
SPECIFICATION Spec
INVARIANTS
  StateTakenBack
