SPECIFICATION Spec
CONSTANTS
  Request = {r1, r2, r3}
  Number = {n1, n2}
  Secret = {s1, s2}
  MaxRestarts = 2
  None = None
SYMMETRY Symmetry
CHECK_DEADLOCK FALSE
INVARIANTS
  SecondOnlyByOverlap
  AnswersTell
  SignsForTheTold
