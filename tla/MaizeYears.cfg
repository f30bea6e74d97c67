SPECIFICATION Spec
CONSTANTS
  Address = {alice}
  None = None
  Commodity <- MCCommodity
  Deposits <- MCDeposits
  MaxU32 = 5
  MaxU64 = 5
  Timestamps <- MCYearEnd
VIEW StorageAndTime
INVARIANTS
  Lineage
