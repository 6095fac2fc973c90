SPECIFICATION Spec
CONSTANTS
  h1 = h1
  h2 = h2
  n1 = n1
  n2 = n2
  Handlers = {h1}
  Keys = {n1, n2}
  Loopback = {h1}
  Answers = {{n1, n2}}
  Arpa = n2
  MaxSize = 1
  TTLMin = 0
  TTLMax = 1
  NegTTLMax = 1
  StaleMax = 1
  Day = 4
  DefaultTTL = 1
  Horizon = 3
  TTLs = {1}
  AllowLists = {{n1, n2}}
  BlockLists = {{}}
PROPERTIES
  StaleIsBounded
