SPECIFICATION FairSpec
CONSTANTS
  Party = {alice, bob}
  None = None
  Id = {t1, t2}
  Weight <- MCOneWeight
  Pass = {p1}
  Unit <- MCTwoUnits
  TimeScale <- MCTwoScales
  GoneTexts <- Either
  MaxHeight = 3
  MaxFailures = 0
INVARIANTS
  ReadersTrue
PROPERTIES
  OnePassSuffices
  ReadersSettle
