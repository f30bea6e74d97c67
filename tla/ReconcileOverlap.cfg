SPECIFICATION FairSpec
CONSTANTS
  Party = {alice, bob}
  None = None
  Id = {t1}
  Weight <- MCTwoWeights
  Pass = {p1, p2}
  Unit <- MCKilograms
  TimeScale <- MCMilliseconds
  GoneTexts <- AsTested
  MaxHeight = 3
  MaxFailures = 1
INVARIANTS
  TypeOK
PROPERTIES
  LiveNeverForgotten
  Convergence
  GoneForgotten
