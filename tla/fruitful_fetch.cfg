SPECIFICATION Spec
CONSTANTS
  Requests = {r1, r2}
  Kids = {k1, k2}
  Cooldown = 2
  Timeout = 2
PROPERTIES
  OnlyFruitlessFetchSuppresses
