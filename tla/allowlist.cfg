SPECIFICATION Spec
CONSTANTS
  f1 = f1
  f2 = f2
  r1 = r1
  r2 = r2
  Names <- MCNames
  HostLabels <- MCHostLabels
  Underscored <- MCUnderscored
  Files <- MCFiles
  Reloads = {r1, r2}
  Contents <- MCContents
  Tokens <- MCTokens
  Lines <- MCLines
  BlockLines <- MCBlockLines
  Queries <- MCQueries
  MaxEdits = 3
SYMMETRY Symmetry
CHECK_DEADLOCK FALSE
INVARIANTS
  BadEditHarmless
  ReplyIsTrue
  AllowedAsWritten
  ShadowedIsExact
