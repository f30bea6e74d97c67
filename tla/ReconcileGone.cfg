SPECIFICATION FairSpec
CONSTANTS
  Party = {alice}
  None = None
  Id = {t1}
  Weight <- MCOneWeight
  Pass = {p1}
  Unit <- MCKilograms
  TimeScale <- MCMilliseconds
  GoneTexts <- AsDeployed
  MaxHeight = 2
  MaxFailures = 0
PROPERTIES
  GoneForgotten
