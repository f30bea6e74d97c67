SPECIFICATION Spec
CONSTANTS
  Address = {alice, bob}
  None = None
  Commodity <- MCCommodity
  Deposits <- MCDeposits
  MaxU32 = 5
  MaxU64 = 4
  Timestamps = {0}
VIEW StorageAndTime
SYMMETRY Symmetry
INVARIANTS
  TypeOK
  StorageCoherent
  IdsDense
  NothingBeforeInit
  BalancesPartitionLive
PROPERTIES
  RetiredForever
  WeightConserved
  CollateralFrozen
  ImplementsLedger
