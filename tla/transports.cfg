SPECIFICATION SpecTransports
CONSTANTS
  c1 = c1
  c2 = c2
  Calls <- MCCalls
  Id <- MCId
  NConns = 2
INVARIANTS
  TransportTypeOK
  NoneStray
  LoneCallRecovers
PROPERTIES
  DoQSiblingsSpared
  CallsReturn
  TransportsImplement
CHECK_DEADLOCK FALSE
