SPECIFICATION FairSpec
CONSTANTS
  Call = {c1, c2}
  alice = alice
  bob = bob
  Signer = {alice, bob}
  Wallet = {bob}
  Weight = {2}
  Amount = {1, 2}
  Beginnings <- MCBeginnings
  TimeBound = 2
  MAX_ATTEMPTS = 2
  MaxClock = 0
  None = None
CHECK_DEADLOCK FALSE
INVARIANTS
  AnswersTrue
  OneWinner
  RefusedForCause
  ClassesTell
PROPERTIES
  LateOnlyInLastSecond
  CallsEnd
