SPECIFICATION Spec
CONSTANTS
  Address = {alice, bob}
  None = None
  Commodity <- MCCommodity
  Deposits <- MCDeposits
  MaxU32 = 5
  MaxU64 = 3
  Timestamps <- MCYearEnd
VIEW StorageAndTime
SYMMETRY Symmetry
INVARIANTS
  TypeOK
  QueriesAgree
PROPERTIES
  ImplementsLedger
