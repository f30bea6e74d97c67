SPECIFICATION FairSpec
CONSTANTS
  Party = {alice, bob}
  None = None
  Blank = Blank
  Id = {t1}
  Weight <- MCWeights
  FeedPrices <- MCFeedPrices
  ReferencePrice <- MCReferencePrice
  Deadline <- MCDeadline
  GoneTexts <- Either
  MaxHeight = 3
  MaxFailures = 1
  MaxRequests = 2
CHECK_DEADLOCK FALSE
INVARIANTS
  TypeOK
  ReportWasTrue
  PriceTells
  RefusalDeserved
  DriftExact
  HealthTells
PROPERTIES
  EveryoneAnswered
