CONSTANTS
  Prices = {2, 3}
  Volumes = {1, 2}
  Archives <- MCArchives
  FirstDay = 2
  LastDay = 3
  MaxVolume = 3
SPECIFICATION Spec
INVARIANTS
  AlwaysRestorable
  YesterdayFirstIsFIFO
  TwoBasesAgree
