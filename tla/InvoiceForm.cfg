SPECIFICATION Spec
\* Within the bounds the user may run out of things to do.
CHECK_DEADLOCK FALSE
CONSTANTS
  Companies <- MCCompanies
  Contractors <- MCContractors
  Trucks <- MCTrucks
  Trailers <- MCTrailers
  Marks <- MCMarks
  MaxItems = 2
  MaxCalls = 2
  Scopes <- MCScopes
INVARIANT TotalsAddUp
INVARIANT WordsOfTotal
INVARIANT InDocumentLanguage
INVARIANT ConvertedTotal
