SPECIFICATION Spec
CONSTANTS
  n1 = n1
  n2 = n2
  f1 = f1
  f2 = f2
  u1 = u1
  r1 = r1
  r2 = r2
  Names = {n1, n2}
  Files <- MCFiles
  Urls <- MCUrls
  Reloads = {r1, r2}
  Contents <- MCContents
  MaxEdits = 1
SYMMETRY Symmetry
CHECK_DEADLOCK FALSE
INVARIANTS
  ListedStaysBlocked
  LoneReloadExact
