SPECIFICATION Spec
CONSTANTS
  q1 = q1
  q2 = q2
  N = 2
  Queries = {q1, q2}
  Threshold = 2
  MaxErrs = 2
  Links <- SafetyLinks
  NoDeadline = {}
  MayClose = FALSE
SYMMETRY QuerySymmetry
INVARIANTS
  HealthCoherent
  BlameNeedsCause
  AnswersAreOwn
