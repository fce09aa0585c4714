SPECIFICATION Spec
CONSTANTS
  steam = steam  discord = discord  roblox = roblox  unknown = unknown
  SKUs <- AllSKUs
  SeedFile <- File
  SeedDataDir = TRUE
  MaxAsked = 3
  MaxStops = 3
CHECK_DEADLOCK FALSE
INVARIANTS TypeOK SeededInOrder EachSkuOnce
