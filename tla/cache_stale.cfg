SPECIFICATION CacheSpec
CONSTANTS
  c1 = c1
  c2 = c2
  k1 = k1
  k2 = k2
  k3 = k3
  Callers = {c1, c2}
  Keys = {k1, k2}
  MaxSize = 1
  TTLMin = 1
  TTLMax = 2
  NegTTLMax = 1
  StaleMax = 1
  Day = 4
  DefaultTTL = 1
  Horizon = 5
  TTLs = {0, 3, 4}
INVARIANTS
  ServedAgeBounded
  LifetimesClamped
