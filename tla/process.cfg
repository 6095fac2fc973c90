SPECIFICATION SpecProcess
CONSTANTS
  q1 = q1
  q2 = q2
  Queries = {q1, q2}
  Files <- MCFiles
  Handlers = {q1, q2}
  Transports = {"udp", "dot"}
  Rcodes = {"success", "servfail"}
  Samples = {0, 1, 2}
CHECK_DEADLOCK FALSE
INVARIANTS
  TypeOK
  LoadRefusesFirst
  LoadedMeansWhatItSays
  FilteredBeforeServed
  AnsweredUnlessLate
  Conserved
  GapWasOpen
  AverageNotBelowFastest
  LatencyExact
PROPERTY
  SignalExits
