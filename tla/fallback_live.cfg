SPECIFICATION FairSpec
CONSTANTS
  q1 = q1
  q2 = q2
  N = 2
  Queries = {q1}
  Threshold = 2
  MaxErrs = 2
  Links <- LiveLinks
  NoDeadline = {1}
  MayClose = TRUE
PROPERTIES
  ResolveReturns
  DownRecovers
  CloseStopsProber
