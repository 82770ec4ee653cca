SPECIFICATION Spec
CONSTANTS
  d1 = d1
  d2 = d2
  d3 = d3
  r1 = r1
  r2 = r2
  day1 = day1
  day2 = day2
  prefix = prefix
  text = text
  Docs = {d1, d2, d3}
  Requests = {r1, r2}
  Scopes <- NumberingScopes
  Days = {day1, day2}
  Prefixes = {prefix}
  Texts = {}
  MaxNumber = 0
  MaxInserted = 3
  MaxAttempts = 2
  MaxExact = 100
  NoDoc = NoDoc
  NoNumber = NoNumber
SYMMETRY Symmetry
INVARIANT PrintedOnce
PROPERTY NumberFreeWhenChosen
CHECK_DEADLOCK FALSE
