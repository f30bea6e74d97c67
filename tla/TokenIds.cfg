SPECIFICATION Spec
CONSTANTS
  Starts <- MCStarts
  Contracts = {"KN", "SN"}
  Days = 146100
  LastSecondDay = 24854
CHECK_DEADLOCK FALSE
INVARIANTS
  YearIsCivilYear
  IdReadsBack
