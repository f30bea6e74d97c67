SPECIFICATION Spec
CONSTANTS
  Address = {alice, bob}
  None = None
  Commodity <- MCCommodity
  Deposits <- MCDeposits
  MaxU32 = 5
  MaxU64 = 3
  Timestamps = {0}
VIEW StorageAndTime
PROPERTIES
  BurnedByRegistered
